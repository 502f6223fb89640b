------------------------------- MODULE Bundle -------------------------------
(***************************************************************************)
(* MacosBundle, the page and document lifecycle behind the shim's          *)
(* entrypoint: which page has which document, and for which of them the    *)
(* installer holds a JavaScript binding.  An event arrives through         *)
(* dispatch, which catches a panic of the installer and leaves what the    *)
(* handler had done by then.  The installer itself is external.            *)
(***************************************************************************)
EXTENDS Naturals

CONSTANTS
  PageId,             \* the embedding's page identities
  LastPageDocument    \* bound on the document generations that are allocated

ASSUME BundleAssumption == LastPageDocument \in Nat \ {0}

VARIABLES
  entrypoint,      \* ENTRYPOINT holds the bundle
  failed,          \* INITIALIZATION_FAILED
  initialization,  \* InitializationData was copied
  attachment,      \* activate retained an attachment
  pages,           \* the page map: its document, 0 of a page that is not there
  destroyed,       \* destroyed_pages
  nextDocument,    \* next_document
  bindings         \* the documents the installer holds a binding for, by page

bundleVars == <<entrypoint, failed, initialization, attachment, pages, destroyed,
                nextDocument, bindings>>

FrameContext == [page : PageId, isMainFrame : BOOLEAN, world : {"normal", "isolated"}]

NoPage == [document |-> 0, bindingInstalled |-> FALSE]

NewDocument == [document |-> nextDocument, bindingInstalled |-> FALSE]

BundleInit ==
  /\ entrypoint = FALSE /\ failed = FALSE
  /\ initialization = FALSE /\ attachment = FALSE
  /\ pages = [page \in PageId |-> NoPage]
  /\ destroyed = {}
  /\ nextDocument = 1
  /\ bindings = [page \in PageId |-> {}]

\* WKBundleInitialize of a bundle whose mode is not known, or that has no
\* entrypoint yet, fails for good, and what is dispatched later is handled still.
WKBundleInitialize ==
  /\ \E mode \in {"renderer", "e2e", "other"} :
       failed' = (failed \/ mode = "other" \/ ~entrypoint)
  /\ UNCHANGED <<entrypoint, initialization, attachment, pages, destroyed,
                 nextDocument, bindings>>

InstallEntrypoint ==
  /\ ~entrypoint
  /\ entrypoint' = TRUE
  /\ UNCHANGED <<failed, initialization, attachment, pages, destroyed, nextDocument,
                 bindings>>

Activate ==
  /\ ~attachment
  /\ attachment' = TRUE
  /\ UNCHANGED <<entrypoint, failed, initialization, pages, destroyed, nextDocument,
                 bindings>>

\* dispatch: an event reaches the bundle, and a panic is remembered.
Dispatched(panics) == entrypoint /\ failed' = (failed \/ panics)

\* The parameter is copied unless it is missing or oversized, once.
Initialize ==
  /\ Dispatched(FALSE)
  /\ ~initialization
  /\ initialization' = TRUE
  /\ UNCHANGED <<entrypoint, attachment, pages, destroyed, nextDocument, bindings>>

Exists(page) == pages[page].document # 0

AllocateDocument ==
  /\ nextDocument <= LastPageDocument
  /\ nextDocument' = nextDocument + 1

CreatePage(page) ==
  /\ Dispatched(FALSE)
  /\ page \notin destroyed /\ ~Exists(page)
  /\ AllocateDocument
  /\ pages' = [pages EXCEPT ![page] = NewDocument]
  /\ UNCHANGED <<entrypoint, initialization, attachment, destroyed, bindings>>

BindingIsAllowed(context) == context.isMainFrame /\ context.world = "normal"

\* install: the installer succeeds, or fails or panics before it keeps anything.
InstallFor(context) ==
  LET page == context.page
  IN  /\ BindingIsAllowed(context)
      /\ attachment /\ initialization
      /\ Exists(page) /\ ~pages[page].bindingInstalled
      /\ \/ /\ Dispatched(FALSE)
            /\ bindings' = [bindings EXCEPT ![page] = @ \cup {pages[page].document}]
            /\ pages' = [pages EXCEPT ![page].bindingInstalled = TRUE]
         \/ Dispatched(TRUE) /\ UNCHANGED <<pages, bindings>>
      /\ UNCHANGED <<entrypoint, initialization, attachment, destroyed, nextDocument>>

Invalidated(page) == [bindings EXCEPT ![page] = @ \ {pages[page].document}]

\* Mutant: the page keeps the flag of the document that went.
KeptFlag(page) == [NewDocument EXCEPT !.bindingInstalled = pages[page].bindingInstalled]

\* The page a reload leaves.
Reloaded(page) == NewDocument

\* invalidate_document takes the next identity before it looks the page up, and
\* replaces the page after the installer has returned.
InvalidateDocument(page) ==
  /\ AllocateDocument
  /\ \/ /\ Dispatched(FALSE)
        /\ Exists(page)
        /\ bindings' = Invalidated(page)
        /\ pages' = [pages EXCEPT ![page] = Reloaded(page)]
     \/ Dispatched(Exists(page)) /\ UNCHANGED <<pages, bindings>>
  /\ UNCHANGED <<entrypoint, initialization, attachment, destroyed>>

\* destroy_page takes the page out before it calls the installer, whose panic
\* leaves the page forgotten instead of destroyed.
DestroyPage(page) ==
  /\ Exists(page)
  /\ pages' = [pages EXCEPT ![page] = NoPage]
  /\ \/ /\ Dispatched(FALSE)
        /\ bindings' = Invalidated(page)
        /\ destroyed' = destroyed \cup {page}
     \/ Dispatched(TRUE) /\ UNCHANGED <<bindings, destroyed>>
  /\ UNCHANGED <<entrypoint, initialization, attachment, nextDocument>>

Handle ==
  \/ Initialize
  \/ \E context \in FrameContext : InstallFor(context)
  \/ \E page \in PageId : CreatePage(page) \/ InvalidateDocument(page) \/ DestroyPage(page)

BundleNext == WKBundleInitialize \/ InstallEntrypoint \/ Activate \/ Handle

BundleSpec == BundleInit /\ [][BundleNext]_bundleVars

-----------------------------------------------------------------------------
BundleTypeOK ==
  /\ entrypoint \in BOOLEAN /\ failed \in BOOLEAN
  /\ initialization \in BOOLEAN /\ attachment \in BOOLEAN
  /\ pages \in [PageId -> [document : 0 .. LastPageDocument, bindingInstalled : BOOLEAN]]
  /\ destroyed \subseteq PageId
  /\ nextDocument \in 1 .. LastPageDocument + 1
  /\ bindings \in [PageId -> SUBSET (1 .. LastPageDocument)]

\* As long as INITIALIZATION_FAILED is clear the installer holds a binding for a page exactly when
\* the page says so, and then for its current document only: a reload or a
\* destruction leaves none behind, whatever frames and events of other pages come
\* between, and a page that is gone stays gone (MacosBundle::install,
\* invalidate_document, destroy_page).
BindingFollowsDocument ==
  failed \/ \A page \in PageId :
    /\ bindings[page] =
         IF pages[page].bindingInstalled THEN {pages[page].document} ELSE {}
    /\ page \in destroyed => ~Exists(page)
=============================================================================
