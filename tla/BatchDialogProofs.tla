--------------------------- MODULE BatchDialogProofs ---------------------------
(* Theorems about BatchDialog, for every page of images and every number of   *)
(* previews, removals and changes by others.                                  *)
EXTENDS BatchDialog, TLAPS

\* What the user agrees to is what the dialog lists.
CandidatesListed == candidateIds \subseteq listed

\* For a user who is not hasty: previews follow one another, and the dialog
\* does not open before the last one was answered; a removal that is under way
\* keeps the dialog open and the button disabled; one that was answered leaves
\* no way out but the list anew.
OneAtATime ==
  ~hasty =>
    /\ \A j, k \in Previews :
         preview[j].client = "waits" /\ preview[k].client = "waits" => j = k
    /\ open => ~UnderWay(preview)
    /\ \A j, k \in Deletes :
         delete[j].client = "waits" /\ delete[k].client = "waits" => j = k
    /\ \A k \in Deletes : delete[k].client = "waits" => open /\ ~confirmOn
    /\ \A k \in Deletes : delete[k].client = "ok" /\ ~left => open /\ completed

IInv ==
  /\ TypeOK /\ CandidatesListed /\ ConfirmedWasListed
  /\ OneAtATime /\ SubmitFollowsSelection

-----------------------------------------------------------------------------
LEMMA SentOK ==
  ASSUME NEW ids \in SUBSET Images, NEW shown \in SUBSET Images
  PROVE  Sent(ids, shown) \in Request
  BY DEF Sent, Request, Server, Client

LEMMA InitOK == Init => IInv
<1> SUFFICES ASSUME Init PROVE IInv
  OBVIOUS
<1>1. None \in Request /\ None.client = "none" /\ None.ids = {} /\ None.shown = {}
  BY DEF None, Request, Server, Client
<1>2. preview \in [Previews -> Request] /\ delete \in [Deletes -> Request]
  BY <1>1 DEF Init
<1>3. TypeOK
  <2>1. changes \in 0..MaxChanges
    BY BoundAssumption DEF Init
  <2> QED
    BY <1>2, <2>1, Zenon DEF Init, TypeOK
<1> QED
  BY <1>1, <1>3 DEF Init, IInv, CandidatesListed, ConfirmedWasListed, OneAtATime,
                    UnderWay, SubmitFollowsSelection

\* The requests as they are after one of them has changed.
LEMMA RequestUpdate ==
  ASSUME NEW K, NEW f \in [K -> Request], NEW k \in K, NEW s \in Server, NEW c \in Client,
         NEW r \in SUBSET Images
  PROVE  /\ [f EXCEPT ![k].client = c] \in [K -> Request]
         /\ [f EXCEPT ![k].server = s] \in [K -> Request]
         /\ [f EXCEPT ![k].server = s, ![k].result = r] \in [K -> Request]
  BY DEF Request

LEMMA NextOK == IInv /\ [Next]_vars => IInv'
<1> SUFFICES ASSUME IInv, [Next]_vars PROVE IInv'
  OBVIOUS
<1>0. DOMAIN preview = Previews /\ DOMAIN delete = Deletes
  BY DEF IInv, TypeOK
<1> USE <1>0, BoundAssumption
    DEF IInv, TypeOK, CandidatesListed, ConfirmedWasListed, OneAtATime, SubmitFollowsSelection,
        UnderWay, server, buttons, dialog, requests
<1>1. ASSUME NEW enabled \in BOOLEAN, SetBatchMode(enabled) PROVE IInv'
  BY <1>1 DEF SetBatchMode, Select, Behind
<1>2. ASSUME NEW i \in Images, Change_Item(i) PROVE IInv'
  BY <1>2 DEF Change_Item, Select, Behind
<1>3. CASE Change_All
  BY <1>3 DEF Change_All, Select, Behind
<1>4. ASSUME NEW k \in Previews, Submit(k) PROVE IInv'
  <2>1. Sent(checked, {}) \in Request /\ Sent(checked, {}).client = "waits"
    BY SentOK DEF Sent
  <2>2. preview' \in [Previews -> Request] /\ DOMAIN preview' = Previews
    BY <1>4, <2>1 DEF Submit
  <2>3. \A j \in Previews : preview'[j].client = IF j = k THEN "waits" ELSE preview[j].client
    BY <1>4, <2>1 DEF Submit
  <2> QED
    BY <1>4, <2>2, <2>3 DEF Submit, Behind
<1>5. ASSUME NEW k \in Previews, Preview_Handle(k) PROVE IInv'
  <2>1. preview' \in [Previews -> Request] /\ DOMAIN preview' = Previews
    <3>1. PICK r \in SUBSET Images :
            preview' = [preview EXCEPT ![k].server = "handled", ![k].result = r]
      BY <1>5 DEF Preview_Handle
    <3>2. "handled" \in Server /\ "waits" \in Client
      BY DEF Server, Client
    <3> HIDE DEF TypeOK
    <3>3. preview \in [Previews -> Request]
      BY DEF TypeOK
    <3>4. [preview EXCEPT ![k].server = "handled", ![k].result = r] \in [Previews -> Request]
      BY <3>2, <3>3, RequestUpdate
    <3> QED
      BY <3>1, <3>4
  <2>2. \A j \in Previews : preview'[j].client = preview[j].client
    BY <1>5 DEF Preview_Handle, Request
  <2> QED
    BY <1>5, <2>1, <2>2 DEF Preview_Handle
<1>6. ASSUME NEW k \in Previews, Preview_Ok(k) PROVE IInv'
  <2>1. preview' \in [Previews -> Request] /\ DOMAIN preview' = Previews
    BY <1>6, RequestUpdate, ZenonT(60) DEF Preview_Ok, Server, Client
  <2>2. \A j \in Previews : preview'[j].client = IF j = k THEN "ok" ELSE preview[j].client
    BY <1>6 DEF Preview_Ok, Request
  <2>3. preview[k].result \subseteq Images
    BY DEF Request
  <2>4. ~hasty => ~open
    BY <1>6 DEF Preview_Ok
  <2> QED
    <3>1. TypeOK'
      BY <1>6, <2>1, <2>3 DEF Preview_Ok, Candidates, Select
    <3>2. CandidatesListed' /\ ConfirmedWasListed'
      BY <1>6 DEF Preview_Ok, Candidates
    <3>3. SubmitFollowsSelection'
      BY <1>6 DEF Preview_Ok, Select
    <3>4. ~hasty' => /\ \A j \in Previews : preview'[j].client # "waits"
                     /\ \A j \in Deletes : delete[j].client \notin {"waits", "ok"}
      BY <1>6, <2>2, <2>4 DEF Preview_Ok
    <3>5. OneAtATime'
      BY <1>6, <2>1, <3>4 DEF Preview_Ok
    <3> QED
      BY <3>1, <3>2, <3>3, <3>5
<1>7. ASSUME NEW k \in Previews, Preview_Error(k) PROVE IInv'
  <2>1. preview' \in [Previews -> Request] /\ DOMAIN preview' = Previews
    BY <1>7, RequestUpdate, ZenonT(60) DEF Preview_Error, Server, Client
  <2>2. \A j \in Previews : preview'[j].client = IF j = k THEN "error" ELSE preview[j].client
    BY <1>7 DEF Preview_Error, Request
  <2>3. ~hasty => ~open
    BY <1>7 DEF Preview_Error
  <2> QED
    BY <1>7, <2>1, <2>2, <2>3 DEF Preview_Error, Select
<1>8. ASSUME NEW k \in Deletes, Confirm(k) PROVE IInv'
  <2>1. Sent(candidateIds, listed) \in Request
    BY SentOK
  <2>2. /\ Sent(candidateIds, listed).client = "waits"
        /\ Sent(candidateIds, listed).ids = candidateIds
        /\ Sent(candidateIds, listed).shown = listed
    BY DEF Sent
  <2>3. delete' \in [Deletes -> Request] /\ DOMAIN delete' = Deletes
    BY <1>8, <2>1 DEF Confirm
  <2>4. \A j \in Deletes : j # k => delete'[j] = delete[j]
    BY <1>8 DEF Confirm
  <2>5. delete'[k] = Sent(candidateIds, listed)
    BY <1>8 DEF Confirm
  <2>6. ~hasty => \A j \in Deletes : delete[j].client # "waits"
    BY <1>8 DEF Confirm
  <2>7. ~hasty /\ ~left => \A j \in Deletes : delete[j].client = "ok" => completed
    OBVIOUS
  <2> QED
    BY <1>8, <2>2, <2>3, <2>4, <2>5, <2>6, <2>7 DEF Confirm, DisableConfirm
<1>9. ASSUME NEW k \in Deletes, Delete_Handle(k) PROVE IInv'
  <2>1. delete' \in [Deletes -> Request] /\ DOMAIN delete' = Deletes
    <3>1. PICK gone \in SUBSET ((delete[k].ids \cap exists) \ inUse) :
            delete' = [delete EXCEPT ![k].server = "handled", ![k].result = gone]
      BY <1>9 DEF Delete_Handle
    <3>2. "handled" \in Server /\ "waits" \in Client /\ gone \in SUBSET Images
      BY DEF Server, Client
    <3> HIDE DEF TypeOK
    <3>3. delete \in [Deletes -> Request]
      BY DEF TypeOK
    <3>4. [delete EXCEPT ![k].server = "handled", ![k].result = gone] \in [Deletes -> Request]
      BY <3>2, <3>3, RequestUpdate
    <3> QED
      BY <3>1, <3>4
  <2>2. \A j \in Deletes : /\ delete'[j].client = delete[j].client
                           /\ delete'[j].ids = delete[j].ids
                           /\ delete'[j].shown = delete[j].shown
    BY <1>9 DEF Delete_Handle, Request
  <2> QED
    BY <1>9, <2>1, <2>2 DEF Delete_Handle
<1>10. ASSUME NEW k \in Deletes, Delete_Refuse(k) PROVE IInv'
  <2>1. delete' \in [Deletes -> Request] /\ DOMAIN delete' = Deletes
    BY <1>10, RequestUpdate DEF Delete_Refuse, Server, Client
  <2>2. \A j \in Deletes : /\ delete'[j].client = delete[j].client
                           /\ delete'[j].ids = delete[j].ids
                           /\ delete'[j].shown = delete[j].shown
    BY <1>10 DEF Delete_Refuse, Request
  <2> QED
    BY <1>10, <2>1, <2>2 DEF Delete_Refuse
<1>11. ASSUME NEW k \in Deletes, Delete_Ok(k) PROVE IInv'
  <2>1. delete' \in [Deletes -> Request] /\ DOMAIN delete' = Deletes
    BY <1>11, RequestUpdate DEF Delete_Ok, Server, Client
  <2>2. \A j \in Deletes : /\ delete'[j].client = IF j = k THEN "ok" ELSE delete[j].client
                           /\ delete'[j].ids = delete[j].ids
                           /\ delete'[j].shown = delete[j].shown
    BY <1>11 DEF Delete_Ok, Request
  <2> QED
    BY <1>11, <2>1, <2>2 DEF Delete_Ok
<1>12. ASSUME NEW k \in Deletes, Delete_Error(k) PROVE IInv'
  <2>1. delete' \in [Deletes -> Request] /\ DOMAIN delete' = Deletes
    BY <1>12, RequestUpdate DEF Delete_Error, Server, Client
  <2>2. \A j \in Deletes : /\ delete'[j].client = IF j = k THEN "error" ELSE delete[j].client
                           /\ delete'[j].ids = delete[j].ids
                           /\ delete'[j].shown = delete[j].shown
    BY <1>12 DEF Delete_Error, Request
  <2> QED
    BY <1>12, <2>1, <2>2 DEF Delete_Error
<1>13. CASE Close
  BY <1>13 DEF Close
<1>14. CASE ReturnToList
  BY <1>14 DEF ReturnToList
<1>15. ASSUME NEW i \in Images, Others(i) PROVE IInv'
  BY <1>15 DEF Others
<1>16. CASE UNCHANGED vars
  BY <1>16 DEF vars
<1> QED
  BY <1>1, <1>2, <1>3, <1>4, <1>5, <1>6, <1>7, <1>8, <1>9, <1>10, <1>11, <1>12, <1>13,
     <1>14, <1>15, <1>16
  DEF Next, User, Answers

\* What the dialog keeps at every step, whatever answers come late or fail.
THEOREM InductiveInvariant == Spec => []IInv
  BY InitOK, NextOK, PTL DEF Spec

-----------------------------------------------------------------------------
\* Every variable keeps its type.
THEOREM TypeCorrect == Spec => []TypeOK
<1>1. IInv => TypeOK
  BY DEF IInv
<1> QED
  BY <1>1, InductiveInvariant, PTL

\* No removal asks for an image that the dialog did not list when the user
\* agreed, for a user who is as hasty as can be.
THEOREM ConfirmedWasListedHolds == Spec => []ConfirmedWasListed
<1>1. IInv => ConfirmedWasListed
  BY DEF IInv
<1> QED
  BY <1>1, InductiveInvariant, PTL

\* A user who is not hasty never has two removals under way.
THEOREM OneRemovalAtATimeHolds == Spec => []OneRemovalAtATime
<1>1. IInv => OneRemovalAtATime
  BY DEF IInv, OneAtATime, OneRemovalAtATime
<1> QED
  BY <1>1, InductiveInvariant, PTL

\* For such a user the page never goes on after an answered removal.
THEOREM NoStaleRowsHolds == Spec => []NoStaleRows
<1>1. IInv => NoStaleRows
  BY DEF IInv, OneAtATime, NoStaleRows
<1> QED
  BY <1>1, InductiveInvariant, PTL

\* Between previews the button that opens the dialog follows the selection.
THEOREM SubmitFollowsSelectionHolds == Spec => []SubmitFollowsSelection
<1>1. IInv => SubmitFollowsSelection
  BY DEF IInv
<1> QED
  BY <1>1, InductiveInvariant, PTL
=============================================================================
