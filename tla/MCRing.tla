------------------------------- MODULE MCRing -------------------------------
EXTENDS RingProperties

\* Whole lengths around the wrap tails of an eight-cell ring: tails of one and
\* two cells are implicit padding, longer ones a padding record.
MCBatches == {<<3>>, <<5>>, <<3, 4>>}
=============================================================================
