------------------------------ MODULE BatchDialog ------------------------------
(***************************************************************************)
(* The batch removal of the image list (image_batch_delete.mjs): the       *)
(* selection, the dialog with its two panels, and the requests for a       *)
(* preview and for the removal, whose answers arrive late, in any order or *)
(* as an error.                                                            *)
(*                                                                         *)
(* Handlers of the page run one at a time, up to their await; the rest of  *)
(* a handler runs when its answer arrives, whatever the page shows then.   *)
(* A modal dialog keeps the user from the page behind it, but it can be    *)
(* closed while a request is under way.                                    *)
(***************************************************************************)
EXTENDS Naturals

CONSTANTS
  Images,      \* those listed on the page
  MaxPreviews, \* bound: previews asked for
  MaxDeletes,  \* bound: removals asked for
  MaxChanges   \* bound: changes by others at the server

ASSUME BoundAssumption ==
  MaxPreviews \in Nat /\ MaxDeletes \in Nat /\ MaxChanges \in Nat

VARIABLES
  exists, inUse,  \* server: images that exist, and that a container uses
  checked,        \* rows selected
  batch,          \* batch mode
  submitOn,       \* the button that opens the dialog is enabled
  open,           \* the dialog is shown
  panel,          \* "preview" or "result"
  listed,         \* images the preview panel lists as deletable
  candidateIds,
  confirmOn,      \* the button that removes is enabled
  completed,
  preview,        \* requests for a preview
  delete,         \* requests for a removal
  left,           \* the browser went to the list anew
  changes,
  hasty           \* history: a preview was asked for while one was under way,
                  \* or the dialog was closed while a removal was

server   == <<exists, inUse, changes>>
buttons  == <<checked, batch, submitOn>>
dialog   == <<open, panel, listed, candidateIds, confirmOn, completed>>
requests == <<preview, delete>>
vars == <<server, buttons, dialog, requests, left, hasty>>

\* server: whether the request was handled there; client: whether its handler
\* on the page has ended, and how.
Server  == {"none", "waits", "handled", "refused"}
Client  == {"none", "waits", "ok", "error"}
Request == [server : Server, client : Client,
            ids : SUBSET Images,      \* image_ids
            result : SUBSET Images,   \* deletable, or deleted
            shown : SUBSET Images]    \* history: what the dialog listed
None    == [server |-> "none", client |-> "none", ids |-> {}, result |-> {}, shown |-> {}]

Sent(ids, shown) ==
  [server |-> "waits", client |-> "waits", ids |-> ids, result |-> {}, shown |-> shown]

Previews == 1..MaxPreviews
Deletes  == 1..MaxDeletes

UnderWay(f) == \E k \in DOMAIN f : f[k].client = "waits"

\* The next request is the first that was not used.
Unused(f, k) == f[k] = None /\ \A j \in DOMAIN f : f[j] = None => k <= j

Init ==
  /\ exists = Images
  /\ inUse \in SUBSET Images
  /\ checked = {} /\ batch = FALSE /\ submitOn = FALSE
  /\ open = FALSE /\ panel = "preview" /\ listed = {}
  /\ candidateIds = {} /\ confirmOn = TRUE /\ completed = FALSE
  /\ preview = [k \in Previews |-> None]
  /\ delete = [k \in Deletes |-> None]
  /\ left = FALSE /\ changes = 0 /\ hasty = FALSE

-----------------------------------------------------------------------------
(* The selection, which only a page without an open dialog offers.         *)

Behind == ~left /\ ~open

\* syncSelection, always with the selection that is new.
Select(items) ==
  /\ checked' = items
  /\ submitOn' = (items # {})

SetBatchMode(enabled) ==
  /\ Behind /\ batch # enabled
  /\ batch' = enabled
  /\ Select(IF enabled THEN checked ELSE {})
  /\ UNCHANGED <<server, dialog, requests, left, hasty>>

Change_Item(i) ==
  /\ Behind /\ batch
  /\ Select(IF i \in checked THEN checked \ {i} ELSE checked \cup {i})
  /\ UNCHANGED <<server, batch, dialog, requests, left, hasty>>

Change_All ==
  /\ Behind /\ batch
  /\ Select(IF checked = Images THEN {} ELSE Images)
  /\ UNCHANGED <<server, batch, dialog, requests, left, hasty>>

-----------------------------------------------------------------------------
(* The preview.                                                            *)

\* submit, up to the await.
Submit(k) ==
  /\ Behind /\ batch /\ submitOn /\ checked # {}
  /\ Unused(preview, k)
  /\ preview' = [preview EXCEPT ![k] = Sent(checked, {})]
  /\ submitOn' = FALSE
  /\ confirmOn' = FALSE
  /\ candidateIds' = {}
  /\ hasty' = (hasty \/ UnderWay(preview))
  /\ UNCHANGED <<server, checked, batch, open, panel, listed, completed, delete, left>>

\* preview_batch_removal.
Preview_Handle(k) ==
  /\ preview[k].server = "waits"
  /\ preview' = [preview EXCEPT ![k].server = "handled",
                                ![k].result = (preview[k].ids \cap exists) \ inUse]
  /\ UNCHANGED <<server, buttons, dialog, delete, left, hasty>>

\* Mutant: what was selected becomes the candidates.
Mut_AllAreCandidates(k) == preview[k].ids

\* deletionCandidateIds.
Candidates(k) == preview[k].result

\* The rest of submit, with an answer; finally comes syncSelection.
Preview_Ok(k) ==
  /\ ~left
  /\ preview[k].server = "handled" /\ preview[k].client = "waits"
  /\ preview' = [preview EXCEPT ![k].client = "ok"]
  /\ listed' = preview[k].result
  /\ candidateIds' = Candidates(k)
  /\ confirmOn' = (candidateIds' # {})
  /\ panel' = "preview"
  /\ completed' = FALSE
  /\ open' = TRUE
  /\ Select(checked)
  /\ UNCHANGED <<server, batch, delete, left, hasty>>

\* The rest of submit, with an error: whether or not the server handles the request.
Preview_Error(k) ==
  /\ ~left
  /\ preview[k].client = "waits"
  /\ preview' = [preview EXCEPT ![k].client = "error"]
  /\ open' = TRUE
  /\ Select(checked)
  /\ UNCHANGED <<server, batch, panel, listed, candidateIds, confirmOn, completed, delete, left, hasty>>

-----------------------------------------------------------------------------
(* The removal.                                                            *)

\* Mutant: the button stays enabled during the request.
Mut_StaysEnabled == confirmOn' = TRUE

DisableConfirm == confirmOn' = FALSE

\* confirm, up to the await.
Confirm(k) ==
  /\ ~left /\ open /\ panel = "preview" /\ confirmOn
  /\ Unused(delete, k)
  /\ delete' = [delete EXCEPT ![k] = Sent(candidateIds, listed)]
  /\ DisableConfirm
  /\ UNCHANGED <<server, buttons, open, panel, listed, candidateIds, completed, preview, left, hasty>>

\* remove_unused_images: of the images that nothing uses, some may fail.
Delete_Handle(k) ==
  /\ delete[k].server = "waits" /\ delete[k].ids # {}
  /\ \E gone \in SUBSET ((delete[k].ids \cap exists) \ inUse) :
       /\ exists' = exists \ gone
       /\ delete' = [delete EXCEPT ![k].server = "handled", ![k].result = gone]
  /\ UNCHANGED <<inUse, changes, buttons, dialog, preview, left, hasty>>

\* An empty image_ids is not accepted (422).
Delete_Refuse(k) ==
  /\ delete[k].server = "waits" /\ delete[k].ids = {}
  /\ delete' = [delete EXCEPT ![k].server = "refused"]
  /\ UNCHANGED <<server, buttons, dialog, preview, left, hasty>>

\* The rest of confirm, with an answer.
Delete_Ok(k) ==
  /\ ~left
  /\ delete[k].server = "handled" /\ delete[k].client = "waits"
  /\ delete' = [delete EXCEPT ![k].client = "ok"]
  /\ panel' = "result"
  /\ completed' = TRUE
  /\ UNCHANGED <<server, buttons, open, listed, candidateIds, confirmOn, preview, left, hasty>>

\* The rest of confirm, with an error: refused, or lost on the way.
Delete_Error(k) ==
  /\ ~left
  /\ delete[k].client = "waits"
  /\ delete' = [delete EXCEPT ![k].client = "error"]
  /\ confirmOn' = TRUE
  /\ UNCHANGED <<server, buttons, open, panel, listed, candidateIds, completed, preview, left, hasty>>

-----------------------------------------------------------------------------
(* Closing: by the button, by a click beside the dialog, by the key.       *)

\* Mutant: the dialog closes without looking at completed.
Mut_JustClose ==
  /\ ~left /\ open
  /\ open' = FALSE
  /\ hasty' = (hasty \/ UnderWay(delete))
  /\ UNCHANGED <<server, buttons, panel, listed, candidateIds, confirmOn, completed, requests, left>>

Close ==
  /\ ~left /\ open /\ ~completed
  /\ open' = FALSE
  /\ hasty' = (hasty \/ UnderWay(delete))
  /\ UNCHANGED <<server, buttons, panel, listed, candidateIds, confirmOn, completed, requests, left>>

ReturnToList ==
  /\ ~left /\ open
  /\ completed \/ panel = "result"
  /\ left' = TRUE
  /\ UNCHANGED <<server, buttons, dialog, requests, hasty>>

-----------------------------------------------------------------------------
(* Other requests and Docker clients.                                      *)

Others(i) ==
  /\ changes < MaxChanges
  /\ changes' = changes + 1
  /\ \/ i \in exists /\ inUse' = inUse \cup {i} /\ UNCHANGED exists
     \/ inUse' = inUse \ {i} /\ exists' = exists \ {i}
  /\ UNCHANGED <<buttons, dialog, requests, left, hasty>>

User ==
  \/ \E enabled \in BOOLEAN : SetBatchMode(enabled)
  \/ \E i \in Images : Change_Item(i)
  \/ Change_All
  \/ \E k \in Previews : Submit(k)
  \/ \E k \in Deletes : Confirm(k)
  \/ Close \/ ReturnToList

Answers ==
  \/ \E k \in Previews : Preview_Handle(k) \/ Preview_Ok(k) \/ Preview_Error(k)
  \/ \E k \in Deletes :
       Delete_Handle(k) \/ Delete_Refuse(k) \/ Delete_Ok(k) \/ Delete_Error(k)

Next == User \/ Answers \/ \E i \in Images : Others(i)

Spec == Init /\ [][Next]_vars

-----------------------------------------------------------------------------
(* Properties *)

TypeOK ==
  /\ exists \subseteq Images /\ inUse \subseteq Images
  /\ checked \subseteq Images
  /\ batch \in BOOLEAN /\ submitOn \in BOOLEAN /\ open \in BOOLEAN
  /\ panel \in {"preview", "result"}
  /\ listed \subseteq Images /\ candidateIds \subseteq Images
  /\ confirmOn \in BOOLEAN /\ completed \in BOOLEAN
  /\ preview \in [Previews -> Request]
  /\ delete \in [Deletes -> Request]
  /\ left \in BOOLEAN /\ changes \in 0..MaxChanges /\ hasty \in BOOLEAN

\* The design: agreeing is agreeing to what the preview lists as deletable.
\* However previews overlap, whichever answer comes last or fails, no removal
\* asks for an image that the dialog did not list when the user agreed.
ConfirmedWasListed == \A k \in Deletes : delete[k].ids \subseteq delete[k].shown

\* The design: no removal is submitted a second time while one is under way.
\* The page keeps that for a user who lets a preview end before asking for
\* another and does not close the dialog during a removal; otherwise a late
\* answer enables the button again.
OneRemovalAtATime ==
  ~hasty => \A j, k \in Deletes :
    delete[j].client = "waits" /\ delete[k].client = "waits" => j = k

\* For the same user, the only way out of a removal that was answered is the
\* list anew: the page is never left showing rows of images it removed.
NoStaleRows ==
  ~hasty /\ ~left /\ ~open => \A k \in Deletes : delete[k].client # "ok"

\* When no request is under way, the button that opens the dialog is enabled
\* exactly when something is selected, however the previews ended.
SubmitFollowsSelection == ~UnderWay(preview) => submitOn = (checked # {})
=============================================================================
