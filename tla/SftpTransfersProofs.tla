-------------------------- MODULE SftpTransfersProofs --------------------------
(***************************************************************************)
(* Proofs about SftpTransfers, for any number of transfers and names.      *)
(* Who ends a transfer claims its state while the slot is free, so the     *)
(* window's upload is running for as long as it promotes (Finishing); a    *)
(* claim leaves somebody who still has to clean up (Cleaning); and the     *)
(* backup is given up only when the content has its name, or another       *)
(* upload has put that content aside (Kept).                               *)
(***************************************************************************)
EXTENDS SftpTransfers, TLAPS

Promoting == {"promote", "rename", "protect", "replace", "unprotect", "mark"}

\* Which steps a transfer of each kind can stand at, and when it is not ended.
Placed ==
  /\ \A o \in Ops : step[o] = "closing" => o \in Fed
  /\ \A o \in Ops : step[o] \in Promoting \cup {"aborting"} => o \in Uploads
  /\ \A o \in Ops : step[o] = "publish" => o \in Downloads
  /\ \A o \in Ops : step[o] \in {"none", "looked"} => state[o] = "none"
  /\ \A o \in Downloads : step[o] \in {"feed", "publish"} => state[o] = "running"

\* A worker that aborts does nothing else any more.
Aborting == \A o \in Uploads : abort[o]["worker"] # "none" => step[o] = "aborting"

\* finish_upload keeps the slot until the transfer has ended.
Finishing ==
  \A o \in Fed : step[o] \in Promoting \cup {"closing"} => held[o] /\ state[o] = "running"

\* What the requests of a promotion have done so far.
Renamed ==
  /\ \A o \in Uploads : step[o] \in {"unprotect", "mark"} => o \in published /\ o \notin staging
  /\ \A o \in Uploads : step[o] = "replace" => backup[o] # None
  /\ \A o \in Fed \ broken : o \in published \/ backup[o] # None =>
       step[o] \in {"replace", "unprotect", "mark"} \/ state[o] = "done"

\* A staging file belongs to a transfer that runs, or to somebody who has to
\* remove it, or is named.
Cleaning ==
  \A o \in Uploads : o \in staging =>
    o \in warned \/ state[o] = "running" \/ \E a \in Actors : abort[o][a] = "cleaning"

\* Before a backup is removed there is a content without it.
Kept ==
  (\E o \in Uploads : step[o] = "unprotect") =>
    target # None \/ \E p \in Uploads : step[p] # "unprotect" /\ backup[p] # None

IInv ==
  TypeOK /\ Placed /\ Aborting /\ Finishing /\ Renamed /\ Cleaning /\ Kept /\ DoneIsTrue

-------------------------------------------------------------------------------
LEMMA Kinds ==
  /\ Fed \subseteq Uploads /\ Dropped \subseteq Uploads /\ Uploads \subseteq Ops /\ Downloads \subseteq Ops
  /\ Ops = Uploads \cup Downloads /\ Uploads \cap Downloads = {} /\ None \notin Ops
  /\ Fed \cap Dropped = {} /\ Overwriting \subseteq Uploads /\ Size \in Nat
  /\ Actors = {"worker", "canceller"}
BY SftpAssumption DEF Uploads, Ops, Actors

LEMMA Cases ==
  Next <=> \/ \E o \in Ops :
                \/ Begin(o) \/ Register(o) \/ NotRegistered(o) \/ Refused(o) \/ FinishFed(o)
                \/ CloseFed(o) \/ CloseDropped(o) \/ Cancel(o) \/ CancelNext(o) \/ Receive(o)
                \/ Received(o) \/ Publish(o) \/ DownloadEnds(o)
           \/ \E o \in Uploads :
                \/ Chunk(o) \/ FeedFails(o) \/ Look(o) \/ RenameNew(o) \/ Protect(o) \/ Replace(o)
                \/ Unprotect(o) \/ PromoteFails(o) \/ RestoreOld(o) \/ Mark(o)
           \/ \E o \in Uploads, a \in Actors : TooLate(o, a) \/ Claim(o, a) \/ Clean(o, a)
           \/ Disconnect \/ Close \/ SomebodySaves
<1>1. \A o \in Ops : o \in Uploads <=> o \in Fed \/ o \in Dropped
  BY DEF Uploads
<1>2. \A o \in Ops : Chunk(o) \/ FeedFails(o) => o \in Uploads
  BY DEF Chunk, FeedFails
<1> QED BY <1>1, <1>2, Kinds DEF Next, System, Worker, Window, Abort


\* abort_upload, called by one of the two who may: nobody else's entry changes.
AbortType == [Uploads -> [Actors -> {"none", "failed", "stopped", "cleaning"}]]

Entered(o, a, s) ==
  /\ abort' \in AbortType /\ abort'[o][a] = s
  /\ \A p \in Uploads, b \in Actors : p # o \/ b # a => abort'[p][b] = abort[p][b]

LEMMA EntersOf ==
  ASSUME TypeOK, NEW o \in Uploads, NEW a \in Actors,
         NEW s \in {"none", "failed", "stopped", "cleaning"},
             abort' = [abort EXCEPT ![o][a] = s]
  PROVE  Entered(o, a, s)
<1>1. abort \in AbortType
  BY DEF TypeOK, AbortType
<1>2. abort'[o] = [abort[o] EXCEPT ![a] = s] /\ \A p \in Uploads : p # o => abort'[p] = abort[p]
  BY <1>1 DEF AbortType
<1>3. [abort[o] EXCEPT ![a] = s] \in [Actors -> {"none", "failed", "stopped", "cleaning"}]
  BY <1>1 DEF AbortType
<1>4. abort' \in AbortType
  BY <1>1, <1>3 DEF AbortType
<1> QED BY <1>1, <1>2, <1>3, <1>4 DEF Entered, AbortType

LEMMA AbortsOf ==
  ASSUME TypeOK, NEW o \in Uploads, NEW a \in Actors, NEW why \in Asked, Aborts(o, a, why)
  PROVE  Entered(o, a, why) /\ flag' \in [Ops -> BOOLEAN]
<1>1. why \in {"none", "failed", "stopped", "cleaning"} /\ abort' = [abort EXCEPT ![o][a] = why]
  BY DEF Asked, Aborts
<1>2. flag' \in [Ops -> BOOLEAN]
  BY Kinds DEF TypeOK, Aborts
<1> QED BY <1>1, <1>2, EntersOf

Gave(o, why) ==
  /\ Entered(o, "worker", why) /\ flag' \in [Ops -> BOOLEAN]
  /\ step' \in [Ops -> Steps] /\ held' \in [Uploads -> BOOLEAN]
  /\ step'[o] = "aborting" /\ \A p \in Ops : p # o => step'[p] = step[p]
  /\ \A p \in Uploads : p # o => held'[p] = held[p]

LEMMA GivesOf ==
  ASSUME TypeOK, NEW o \in Uploads, NEW why \in Asked, Gives(o, why)  PROVE Gave(o, why)
<1>1. Aborts(o, "worker", why) /\ "worker" \in Actors
  BY Kinds DEF Gives
<1>2. step' = [step EXCEPT ![o] = "aborting"] /\ held' = [held EXCEPT ![o] = FALSE]
  BY DEF Gives, Goto
<1>3. step \in [Ops -> Steps] /\ held \in [Uploads -> BOOLEAN] /\ "aborting" \in Steps /\ o \in Ops
  BY Kinds DEF TypeOK, Steps
<1> QED BY <1>1, <1>2, <1>3, AbortsOf DEF Gave

LEMMA ClaimOf ==
  ASSUME TypeOK, NEW o \in Uploads, NEW a \in Actors, Claim(o, a)
  PROVE  Entered(o, a, "cleaning") /\ abort[o][a] \in Asked
BY EntersOf DEF Claim

EndedAbort(o, a) ==
  /\ Entered(o, a, "none") /\ step' \in [Ops -> Steps]
  /\ a = "worker" => step'[o] = "over"
  /\ \A p \in Ops : p # o \/ a # "worker" => step'[p] = step[p]

LEMMA EndsOf ==
  ASSUME TypeOK, NEW o \in Uploads, NEW a \in Actors, EndsAbort(o, a)  PROVE EndedAbort(o, a)
<1>1. step \in [Ops -> Steps] /\ "over" \in Steps /\ o \in Ops
  BY Kinds DEF TypeOK, Steps
<1>2. step' = IF a = "worker" THEN [step EXCEPT ![o] = "over"] ELSE step
  BY DEF EndsAbort
<1> QED BY <1>1, <1>2, EntersOf DEF EndsAbort, EndedAbort


LEMMA TypeStep ==
  ASSUME TypeOK, Placed, [Next]_vars  PROVE TypeOK'
<1>a. \A p \in Uploads, why \in Asked : Gives(p, why) => Gave(p, why)
  BY GivesOf
<1>b. \A p \in Uploads, a \in Actors, why \in Asked : Aborts(p, a, why) =>
        Entered(p, a, why) /\ flag' \in [Ops -> BOOLEAN]
  BY AbortsOf
<1>c. \A p \in Uploads, a \in Actors : Claim(p, a) => Entered(p, a,
    "cleaning") /\ abort[p][a] \in Asked
  BY ClaimOf
<1>d. \A p \in Uploads, a \in Actors : EndsAbort(p, a) => EndedAbort(p, a)
  BY EndsOf
<1> USE Kinds DEF TypeOK, Placed, Promoting, Steps, Ended, vars, remoteVars, slotVars,
    sessionVars
<1>1. ASSUME NEW o \in Ops, Begin(o)  PROVE TypeOK'
  BY <1>1 DEF Begin, Goto
<1>2. ASSUME NEW o \in Ops, Register(o)  PROVE TypeOK'
  <2>1. state' \in [Ops -> {"none", "running"} \cup Ended] /\ step' \in [Ops -> Steps]
    <3>1. state' = [state EXCEPT ![o] = "running"] /\ step' = [step EXCEPT ![o] = "feed"]
      BY <1>2 DEF Register, Becomes, Goto
    <3>2. state \in [Ops -> {"none", "running"} \cup Ended] /\ step \in [Ops -> Steps]
      OBVIOUS
    <3>3. "feed" \in Steps
      OBVIOUS
    <3> HIDE DEF TypeOK, Placed, Steps, Ended
    <3> QED BY <3>1, <3>2, <3>3
  <2>2. staging' \subseteq Uploads /\ handle' \in [Uploads -> BOOLEAN]
    <3>1. CASE o \in Uploads
      <4>1. staging' = staging \cup {o} /\ handle' = [handle EXCEPT ![o] = TRUE]
        BY <1>2, <3>1 DEF Register
      <4> QED BY <3>1, <4>1
    <3>2. CASE o \notin Uploads  BY <1>2, <3>2 DEF Register
    <3> QED BY <3>1, <3>2
  <2> QED BY <1>2, <2>1, <2>2 DEF Register
<1>3. ASSUME NEW o \in Ops, NotRegistered(o)  PROVE TypeOK'
  BY <1>3 DEF NotRegistered, Goto, Answers
<1>4. ASSUME NEW o \in Uploads, Chunk(o)  PROVE TypeOK'
  BY <1>4 DEF Chunk, Answers, SlotFree
<1>5. ASSUME NEW o \in Uploads, FeedFails(o)  PROVE TypeOK'
  <2>1. PICK why \in Asked : Gives(o, why)
    BY <1>5 DEF FeedFails, Fails, Asked
  <2>2. /\ abort' \in [Uploads -> [Actors -> {"none", "failed", "stopped", "cleaning"}]]
        /\ flag' \in [Ops -> BOOLEAN] /\ held' \in [Uploads -> BOOLEAN] /\ step' \in [Ops -> Steps]
    BY <2>1, <1>a DEF Gave, Entered, AbortType
  <2>3. handle' \in [Uploads -> BOOLEAN]
    BY <1>5 DEF FeedFails
  <2> QED BY <1>5, <2>2, <2>3 DEF FeedFails, Fails
<1>6. ASSUME NEW o \in Ops, Refused(o)  PROVE TypeOK'
  BY <1>6 DEF Refused, Goto, SlotFree
<1>7. ASSUME NEW o \in Ops, FinishFed(o)  PROVE TypeOK'
  BY <1>7 DEF FinishFed, Goto, SlotFree
<1>8. ASSUME NEW o \in Ops, CloseFed(o)  PROVE TypeOK'
  <2>1. o \in Fed /\ o \in Uploads
    BY <1>8 DEF CloseFed
  <2>2. CASE \E why \in Asked : Gives(o, why)
    <3>1. /\ abort' \in [Uploads -> [Actors -> {"none", "failed", "stopped", "cleaning"}]]
          /\ flag' \in [Ops -> BOOLEAN] /\ held' \in [Uploads -> BOOLEAN] /\ step' \in [Ops -> Steps]
      BY <2>1, <2>2, <1>a DEF Gave, Entered, AbortType
    <3> QED BY <1>8, <3>1 DEF CloseFed
  <2>3. CASE Goto(o, "promote") /\ UNCHANGED <<held, flag, abort>>
    BY <1>8, <2>3 DEF CloseFed, Goto
  <2> QED BY <1>8, <2>2, <2>3 DEF CloseFed, Asked
<1>9. ASSUME NEW o \in Ops, CloseDropped(o)  PROVE TypeOK'
  BY <1>9 DEF CloseDropped, Goto, SlotFree, Answers
<1>10. ASSUME NEW o \in Uploads, Look(o)  PROVE TypeOK'
  <2>1. step' \in [Ops -> Steps]
    <3>1. step' = [step EXCEPT ![o] = "rename"] \/ step' = [step EXCEPT ![o] = "protect"]
      BY <1>10 DEF Look, Goto
    <3>2. step \in [Ops -> Steps]
      OBVIOUS
    <3>3. "rename" \in Steps /\ "protect" \in Steps
      OBVIOUS
    <3> HIDE DEF TypeOK, Placed, Steps, Ended
    <3> QED BY <3>1, <3>2, <3>3
  <2> QED BY <1>10, <2>1 DEF Look, Quiet
<1>11. ASSUME NEW o \in Uploads, RenameNew(o)  PROVE TypeOK'
  BY <1>11 DEF RenameNew, Goto, Quiet, Published, Answers
<1>12. ASSUME NEW o \in Uploads, Protect(o)  PROVE TypeOK'
  BY <1>12 DEF Protect, Goto, Quiet, PutAside, Answers
<1>13. ASSUME NEW o \in Uploads, Replace(o)  PROVE TypeOK'
  BY <1>13 DEF Replace, Goto, Quiet, Published, Answers
<1>14. ASSUME NEW o \in Uploads, Unprotect(o)  PROVE TypeOK'
  BY <1>14 DEF Unprotect, Goto, Quiet, Answers
<1>15. ASSUME NEW o \in Uploads, PromoteFails(o)  PROVE TypeOK'
  <2>1. Gives(o, "failed") /\ "failed" \in Asked
    BY <1>15 DEF PromoteFails, Fails, Asked
  <2>2. /\ abort' \in [Uploads -> [Actors -> {"none", "failed", "stopped", "cleaning"}]]
        /\ flag' \in [Ops -> BOOLEAN] /\ held' \in [Uploads -> BOOLEAN] /\ step' \in [Ops -> Steps]
    BY <2>1, <1>a DEF Gave, Entered, AbortType
  <2>3. target' \in Uploads \cup {None, "old"} /\ staging' \subseteq Uploads
        /\ backup' \in [Uploads -> Uploads \cup {None, "old"}] /\ published' \subseteq Ops
    <3>1. CASE UNCHANGED remoteVars  BY <3>1
    <3>2. CASE Published(o) /\ UNCHANGED backup  BY <3>2 DEF Published
    <3>3. CASE step[o] = "protect" /\ PutAside(o) /\ UNCHANGED <<staging, published>>
      BY <3>3 DEF PutAside
    <3>4. CASE target' = backup[o] /\ backup' = [backup EXCEPT ![o] = None]
               /\ UNCHANGED <<staging, published>>
      BY <3>4
    <3> QED BY <1>15, <3>1, <3>2, <3>3, <3>4 DEF PromoteFails
  <2> QED BY <1>15, <2>2, <2>3 DEF PromoteFails, Fails
<1>16. ASSUME NEW o \in Uploads, RestoreOld(o)  PROVE TypeOK'
  <2>1. Gives(o, "failed") /\ "failed" \in Asked
    BY <1>16 DEF RestoreOld, Fails, Asked
  <2>2. /\ abort' \in [Uploads -> [Actors -> {"none", "failed", "stopped", "cleaning"}]]
        /\ flag' \in [Ops -> BOOLEAN] /\ held' \in [Uploads -> BOOLEAN] /\ step' \in [Ops -> Steps]
    BY <2>1, <1>a DEF Gave, Entered, AbortType
  <2>3. target' \in Uploads \cup {None, "old"} /\ staging' \subseteq Uploads
        /\ backup' \in [Uploads -> Uploads \cup {None, "old"}] /\ published' \subseteq Ops
    <3>1. CASE UNCHANGED remoteVars  BY <3>1
    <3>2. CASE Published(o) /\ UNCHANGED backup  BY <3>2 DEF Published
    <3>3. CASE step[o] = "protect" /\ PutAside(o) /\ UNCHANGED <<staging, published>>
      BY <3>3 DEF PutAside
    <3>4. CASE target' = backup[o] /\ backup' = [backup EXCEPT ![o] = None]
               /\ UNCHANGED <<staging, published>>
      BY <3>4
    <3> QED BY <1>16, <3>1, <3>2, <3>3, <3>4 DEF RestoreOld
  <2> QED BY <1>16, <2>2, <2>3 DEF RestoreOld, Fails
<1>17. ASSUME NEW o \in Uploads, Mark(o)  PROVE TypeOK'
  BY <1>17 DEF Mark, Goto
<1>18. ASSUME NEW o \in Ops, Cancel(o)  PROVE TypeOK'
  <2>1. CASE o \in Uploads /\ Cancels(o)
    <3>1. Aborts(o, "canceller", "stopped") /\ "stopped" \in Asked
      BY <2>1 DEF Cancels, Asked
    <3> QED BY <1>18, <2>1, <3>1, <1>b DEF Entered, AbortType, Cancel
  <2>2. CASE o \notin Uploads /\ Cancels(o)
    <3>1. flag' = [flag EXCEPT ![o] = TRUE] /\ UNCHANGED abort  BY <2>2 DEF Cancels
    <3>2. flag' \in [Ops -> BOOLEAN]  BY <3>1
    <3> QED BY <1>18, <3>1, <3>2 DEF Cancel
  <2> QED BY <1>18, <2>1, <2>2 DEF Cancel
<1>19. ASSUME NEW o \in Ops, CancelNext(o)  PROVE TypeOK'
  <2>1. CASE o \in Uploads /\ Cancels(o)
    <3>1. Aborts(o, "canceller", "stopped") /\ "stopped" \in Asked
      BY <2>1 DEF Cancels, Asked
    <3> QED BY <1>19, <2>1, <3>1, <1>b DEF Entered, AbortType, CancelNext
  <2>2. CASE o \notin Uploads /\ Cancels(o)
    <3>1. flag' = [flag EXCEPT ![o] = TRUE] /\ UNCHANGED abort  BY <2>2 DEF Cancels
    <3>2. flag' \in [Ops -> BOOLEAN]  BY <3>1
    <3> QED BY <1>19, <3>1, <3>2 DEF CancelNext
  <2>3. CASE UNCHANGED <<flag, abort>>
    BY <1>19, <2>3 DEF CancelNext
  <2> QED BY <1>19, <2>1, <2>2, <2>3 DEF CancelNext
<1>20. ASSUME NEW o \in Ops, Receive(o)  PROVE TypeOK'
  BY <1>20 DEF Receive, Answers
<1>21. ASSUME NEW o \in Ops, Received(o)  PROVE TypeOK'
  BY <1>21 DEF Received, Goto
<1>22. ASSUME NEW o \in Ops, Publish(o)  PROVE TypeOK'
  BY <1>22 DEF Publish, Goto, Becomes
<1>23. ASSUME NEW o \in Ops, DownloadEnds(o)  PROVE TypeOK'
  BY <1>23 DEF DownloadEnds, Goto, Becomes
<1>24. ASSUME NEW o \in Uploads, NEW a \in Actors, TooLate(o, a)  PROVE TypeOK'
  <2>1. EndsAbort(o, a)  BY <1>24 DEF TooLate
  <2>2. step' \in [Ops -> Steps]  BY <2>1, <1>d DEF EndedAbort, Entered, AbortType
  <2> QED BY <1>24, <2>1, <2>2, <1>d DEF EndedAbort, Entered, AbortType, TooLate
<1>25. ASSUME NEW o \in Uploads, NEW a \in Actors, Claim(o, a)  PROVE TypeOK'
  <2>1. state' \in [Ops -> {"none", "running"} \cup Ended] /\ handle' \in [Uploads -> BOOLEAN]
    BY <1>25 DEF Claim, Becomes
  <2> QED BY <1>25, <2>1, <1>c DEF Entered, AbortType, Claim
<1>26. ASSUME NEW o \in Uploads, NEW a \in Actors, Clean(o, a)  PROVE TypeOK'
  <2>1. EndsAbort(o, a)  BY <1>26 DEF Clean
  <2>2. step' \in [Ops -> Steps]  BY <2>1, <1>d DEF EndedAbort, Entered, AbortType
  <2>3. staging' \subseteq Uploads /\ warned' \subseteq Uploads  BY <1>26 DEF Clean
  <2> QED BY <1>26, <2>1, <2>2, <2>3, <1>d DEF EndedAbort, Entered, AbortType, Clean
<1>27. CASE Disconnect
  BY <1>27 DEF Disconnect
<1>28. CASE Close
  BY <1>28 DEF Close
<1>29. CASE SomebodySaves
  BY <1>29 DEF SomebodySaves
<1>30. CASE UNCHANGED vars
  BY <1>30
<1> QED BY <1>1, <1>2, <1>3, <1>4, <1>5, <1>6, <1>7, <1>8, <1>9, <1>10, <1>11, <1>12, <1>13,
    <1>14, <1>15, <1>16, <1>17, <1>18, <1>19, <1>20, <1>21, <1>22, <1>23, <1>24, <1>25, <1>26,
    <1>27, <1>28, <1>29, <1>30, Cases



LEMMA PlacedStep ==
  ASSUME TypeOK, Placed, [Next]_vars  PROVE Placed'
<1>a. \A p \in Uploads, why \in Asked : Gives(p, why) => Gave(p, why)
  BY GivesOf
<1>b. \A p \in Uploads, a \in Actors, why \in Asked : Aborts(p, a, why) =>
        Entered(p, a, why) /\ flag' \in [Ops -> BOOLEAN]
  BY AbortsOf
<1>c. \A p \in Uploads, a \in Actors : Claim(p, a) => Entered(p, a,
    "cleaning") /\ abort[p][a] \in Asked
  BY ClaimOf
<1>d. \A p \in Uploads, a \in Actors : EndsAbort(p, a) => EndedAbort(p, a)
  BY EndsOf
<1>t. state \in [Ops -> {"none", "running"} \cup Ended] /\ step \in [Ops -> Steps]
  BY DEF TypeOK
<1> USE Kinds, <1>t DEF Placed, Promoting, vars, remoteVars, slotVars, sessionVars
<1>1. ASSUME NEW o \in Ops, Begin(o)  PROVE Placed'
  BY <1>1 DEF Begin, Goto
<1>2. ASSUME NEW o \in Ops, Register(o)  PROVE Placed'
  BY <1>2 DEF Register, Goto, Becomes, Answers
<1>3. ASSUME NEW o \in Ops, NotRegistered(o)  PROVE Placed'
  BY <1>3 DEF NotRegistered, Goto, Answers
<1>4. ASSUME NEW o \in Uploads, Chunk(o)  PROVE Placed'
  BY <1>4 DEF Chunk, Answers, SlotFree
<1>5. ASSUME NEW o \in Uploads, FeedFails(o)  PROVE Placed'
  <2>1. PICK why \in Asked : Gives(o, why)
    BY <1>5 DEF FeedFails, Fails, Asked
  <2>2. step[o] \in {"feed", "promote", "rename", "protect", "replace"} /\ UNCHANGED state
    BY <1>5 DEF FeedFails, Fails
  <2>3. Gave(o, why)
    BY <2>1, <1>a
  <2> QED BY <2>2, <2>3 DEF Gave
<1>6. ASSUME NEW o \in Ops, Refused(o)  PROVE Placed'
  BY <1>6 DEF Refused, Goto, SlotFree
<1>7. ASSUME NEW o \in Ops, FinishFed(o)  PROVE Placed'
  BY <1>7 DEF FinishFed, Goto, SlotFree
<1>8. ASSUME NEW o \in Ops, CloseFed(o)  PROVE Placed'
  <2>1. o \in Fed /\ o \in Uploads /\ UNCHANGED state /\ step[o] = "closing"
    BY <1>8 DEF CloseFed
  <2>2. ASSUME NEW why \in Asked, Gives(o, why)  PROVE Placed'
    <3>1. Gave(o, why)  BY <2>1, <2>2, <1>a
    <3> QED BY <2>1, <3>1 DEF Gave
  <2>3. CASE Goto(o, "promote") /\ UNCHANGED <<held, flag, abort>>
    BY <2>1, <2>3 DEF Goto
  <2> QED BY <1>8, <2>2, <2>3 DEF CloseFed, Asked
<1>9. ASSUME NEW o \in Ops, CloseDropped(o)  PROVE Placed'
  BY <1>9 DEF CloseDropped, Goto, SlotFree, Answers
<1>10. ASSUME NEW o \in Uploads, Look(o)  PROVE Placed'
  BY <1>10 DEF Look, Goto, Quiet, Answers
<1>11. ASSUME NEW o \in Uploads, RenameNew(o)  PROVE Placed'
  BY <1>11 DEF RenameNew, Goto, Quiet, Published, Answers
<1>12. ASSUME NEW o \in Uploads, Protect(o)  PROVE Placed'
  BY <1>12 DEF Protect, Goto, Quiet, PutAside, Answers
<1>13. ASSUME NEW o \in Uploads, Replace(o)  PROVE Placed'
  BY <1>13 DEF Replace, Goto, Quiet, Published, Answers
<1>14. ASSUME NEW o \in Uploads, Unprotect(o)  PROVE Placed'
  BY <1>14 DEF Unprotect, Goto, Quiet, Answers
<1>15. ASSUME NEW o \in Uploads, PromoteFails(o)  PROVE Placed'
  <2>1. PICK why \in Asked : Gives(o, why)
    BY <1>15 DEF PromoteFails, Fails, Asked
  <2>2. step[o] \in {"feed", "promote", "rename", "protect", "replace"} /\ UNCHANGED state
    BY <1>15 DEF PromoteFails, Fails
  <2>3. Gave(o, why)
    BY <2>1, <1>a
  <2> QED BY <2>2, <2>3 DEF Gave
<1>16. ASSUME NEW o \in Uploads, RestoreOld(o)  PROVE Placed'
  <2>1. PICK why \in Asked : Gives(o, why)
    BY <1>16 DEF RestoreOld, Fails, Asked
  <2>2. step[o] \in {"feed", "promote", "rename", "protect", "replace"} /\ UNCHANGED state
    BY <1>16 DEF RestoreOld, Fails
  <2>3. Gave(o, why)
    BY <2>1, <1>a
  <2> QED BY <2>2, <2>3 DEF Gave
<1>17. ASSUME NEW o \in Uploads, Mark(o)  PROVE Placed'
  BY <1>17 DEF Mark, Goto
<1>18. ASSUME NEW o \in Ops, Cancel(o)  PROVE Placed'
  BY <1>18 DEF Cancel
<1>19. ASSUME NEW o \in Ops, CancelNext(o)  PROVE Placed'
  BY <1>19 DEF CancelNext
<1>20. ASSUME NEW o \in Ops, Receive(o)  PROVE Placed'
  BY <1>20 DEF Receive, Answers
<1>21. ASSUME NEW o \in Ops, Received(o)  PROVE Placed'
  BY <1>21 DEF Received, Goto
<1>22. ASSUME NEW o \in Ops, Publish(o)  PROVE Placed'
  BY <1>22 DEF Publish, Goto, Becomes
<1>23. ASSUME NEW o \in Ops, DownloadEnds(o)  PROVE Placed'
  BY <1>23 DEF DownloadEnds, Goto, Becomes
<1>24. ASSUME NEW o \in Uploads, NEW a \in Actors, TooLate(o, a)  PROVE Placed'
  <2>1. EndsAbort(o, a) /\ UNCHANGED state /\ abort[o][a] # "none"
    BY <1>24 DEF TooLate, Asked
  <2>2. EndedAbort(o, a)
    BY <2>1, <1>d
  <2>3. \A p \in Ops : step'[p] = step[p] \/ step'[p] = "over"
    BY <2>2 DEF EndedAbort
  <2> QED BY <2>1, <2>3
<1>25. ASSUME NEW o \in Uploads, NEW a \in Actors, Claim(o, a)  PROVE Placed'
  <2>1. UNCHANGED step /\ \A p \in Ops : p # o => state'[p] = state[p]
    BY <1>25 DEF Claim, Becomes
  <2>2. state[o] = "running" /\ o \notin Downloads
    BY <1>25 DEF Claim
  <2> QED BY <2>1, <2>2
<1>26. ASSUME NEW o \in Uploads, NEW a \in Actors, Clean(o, a)  PROVE Placed'
  <2>1. EndsAbort(o, a) /\ UNCHANGED state /\ abort[o][a] # "none"
    BY <1>26 DEF Clean, Asked
  <2>2. EndedAbort(o, a)
    BY <2>1, <1>d
  <2>3. \A p \in Ops : step'[p] = step[p] \/ step'[p] = "over"
    BY <2>2 DEF EndedAbort
  <2> QED BY <2>1, <2>3
<1>27. CASE Disconnect
  BY <1>27 DEF Disconnect
<1>28. CASE Close
  BY <1>28 DEF Close
<1>29. CASE SomebodySaves
  BY <1>29 DEF SomebodySaves
<1>30. CASE UNCHANGED vars
  BY <1>30
<1> QED BY <1>1, <1>2, <1>3, <1>4, <1>5, <1>6, <1>7, <1>8, <1>9, <1>10, <1>11, <1>12, <1>13,
    <1>14, <1>15, <1>16, <1>17, <1>18, <1>19, <1>20, <1>21, <1>22, <1>23, <1>24, <1>25, <1>26,
    <1>27, <1>28, <1>29, <1>30, Cases



LEMMA AbortingStep ==
  ASSUME TypeOK, Placed, Aborting, [Next]_vars  PROVE Aborting'
<1>a. \A p \in Uploads, why \in Asked : Gives(p, why) => Gave(p, why)
  BY GivesOf
<1>b. \A p \in Uploads, a \in Actors, why \in Asked : Aborts(p, a, why) =>
        Entered(p, a, why) /\ flag' \in [Ops -> BOOLEAN]
  BY AbortsOf
<1>c. \A p \in Uploads, a \in Actors : Claim(p, a) => Entered(p, a,
    "cleaning") /\ abort[p][a] \in Asked
  BY ClaimOf
<1>d. \A p \in Uploads, a \in Actors : EndsAbort(p, a) => EndedAbort(p, a)
  BY EndsOf
<1>t. step \in [Ops -> Steps]  BY DEF TypeOK
<1>u. abort \in [Uploads -> [Actors -> {"none", "failed", "stopped",
    "cleaning"}]]  BY DEF TypeOK
<1> USE Kinds, <1>t, <1>u DEF Placed, Aborting, Promoting, vars, remoteVars, slotVars,
    sessionVars
<1>1. ASSUME NEW o \in Ops, Begin(o)  PROVE Aborting'
  BY <1>1 DEF Begin, Goto
<1>2. ASSUME NEW o \in Ops, Register(o)  PROVE Aborting'
  BY <1>2 DEF Register, Goto, Becomes, Answers
<1>3. ASSUME NEW o \in Ops, NotRegistered(o)  PROVE Aborting'
  BY <1>3 DEF NotRegistered, Goto, Answers
<1>4. ASSUME NEW o \in Uploads, Chunk(o)  PROVE Aborting'
  BY <1>4 DEF Chunk, Answers, SlotFree
<1>5. ASSUME NEW o \in Uploads, FeedFails(o)  PROVE Aborting'
  <2>1. PICK why \in Asked : Gives(o, why)
    BY <1>5 DEF FeedFails, Fails, Asked
  <2>2. Gave(o, why)
    BY <2>1, <1>a
  <2> QED BY <2>2 DEF Gave, Entered, AbortType
<1>6. ASSUME NEW o \in Ops, Refused(o)  PROVE Aborting'
  BY <1>6 DEF Refused, Goto, SlotFree
<1>7. ASSUME NEW o \in Ops, FinishFed(o)  PROVE Aborting'
  BY <1>7 DEF FinishFed, Goto, SlotFree
<1>8. ASSUME NEW o \in Ops, CloseFed(o)  PROVE Aborting'
  <2>1. o \in Fed /\ o \in Uploads /\ step[o] = "closing"
    BY <1>8 DEF CloseFed
  <2>2. ASSUME NEW why \in Asked, Gives(o, why)  PROVE Aborting'
    <3>1. Gave(o, why)  BY <2>1, <2>2, <1>a
    <3> QED BY <3>1 DEF Gave, Entered, AbortType
  <2>3. CASE Goto(o, "promote") /\ UNCHANGED <<held, flag, abort>>
    BY <1>8, <2>1, <2>3 DEF CloseFed, Goto
  <2> QED BY <1>8, <2>2, <2>3 DEF CloseFed, Asked
<1>9. ASSUME NEW o \in Ops, CloseDropped(o)  PROVE Aborting'
  BY <1>9 DEF CloseDropped, Goto, SlotFree, Answers
<1>10. ASSUME NEW o \in Uploads, Look(o)  PROVE Aborting'
  BY <1>10 DEF Look, Goto, Quiet, Answers
<1>11. ASSUME NEW o \in Uploads, RenameNew(o)  PROVE Aborting'
  BY <1>11 DEF RenameNew, Goto, Quiet, Published, Answers
<1>12. ASSUME NEW o \in Uploads, Protect(o)  PROVE Aborting'
  BY <1>12 DEF Protect, Goto, Quiet, PutAside, Answers
<1>13. ASSUME NEW o \in Uploads, Replace(o)  PROVE Aborting'
  BY <1>13 DEF Replace, Goto, Quiet, Published, Answers
<1>14. ASSUME NEW o \in Uploads, Unprotect(o)  PROVE Aborting'
  BY <1>14 DEF Unprotect, Goto, Quiet, Answers
<1>15. ASSUME NEW o \in Uploads, PromoteFails(o)  PROVE Aborting'
  <2>1. PICK why \in Asked : Gives(o, why)
    BY <1>15 DEF PromoteFails, Fails, Asked
  <2>2. Gave(o, why)
    BY <2>1, <1>a
  <2> QED BY <2>2 DEF Gave, Entered, AbortType
<1>16. ASSUME NEW o \in Uploads, RestoreOld(o)  PROVE Aborting'
  <2>1. PICK why \in Asked : Gives(o, why)
    BY <1>16 DEF RestoreOld, Fails, Asked
  <2>2. Gave(o, why)
    BY <2>1, <1>a
  <2> QED BY <2>2 DEF Gave, Entered, AbortType
<1>17. ASSUME NEW o \in Uploads, Mark(o)  PROVE Aborting'
  BY <1>17 DEF Mark, Goto
<1>18. ASSUME NEW o \in Ops, Cancel(o)  PROVE Aborting'
  <2>1. CASE o \in Uploads /\ Cancels(o)
    <3>1. Entered(o, "canceller", "stopped") /\ abort[o]["canceller"] = "none"
      BY <2>1, <1>b DEF Cancels, Asked
    <3> QED BY <1>18, <3>1 DEF Cancel, Entered
  <2>2. CASE UNCHANGED abort
    BY <1>18, <2>2 DEF Cancel
  <2>3. ~(o \in Uploads /\ Cancels(o)) => UNCHANGED abort
    BY <1>18 DEF Cancel, Cancels
  <2> QED BY <2>1, <2>2, <2>3
<1>19. ASSUME NEW o \in Ops, CancelNext(o)  PROVE Aborting'
  <2>1. CASE o \in Uploads /\ Cancels(o)
    <3>1. Entered(o, "canceller", "stopped") /\ abort[o]["canceller"] = "none"
      BY <2>1, <1>b DEF Cancels, Asked
    <3> QED BY <1>19, <3>1 DEF CancelNext, Entered
  <2>2. CASE UNCHANGED abort
    BY <1>19, <2>2 DEF CancelNext
  <2>3. ~(o \in Uploads /\ Cancels(o)) => UNCHANGED abort
    BY <1>19 DEF CancelNext, Cancels
  <2> QED BY <2>1, <2>2, <2>3
<1>20. ASSUME NEW o \in Ops, Receive(o)  PROVE Aborting'
  BY <1>20 DEF Receive, Answers
<1>21. ASSUME NEW o \in Ops, Received(o)  PROVE Aborting'
  BY <1>21 DEF Received, Goto
<1>22. ASSUME NEW o \in Ops, Publish(o)  PROVE Aborting'
  BY <1>22 DEF Publish, Goto, Becomes
<1>23. ASSUME NEW o \in Ops, DownloadEnds(o)  PROVE Aborting'
  BY <1>23 DEF DownloadEnds, Goto, Becomes
<1>24. ASSUME NEW o \in Uploads, NEW a \in Actors, TooLate(o, a)  PROVE Aborting'
  <2>1. EndedAbort(o, a)
    BY <1>24, <1>d DEF TooLate
  <2> QED BY <2>1 DEF EndedAbort, Entered
<1>25. ASSUME NEW o \in Uploads, NEW a \in Actors, Claim(o, a)  PROVE Aborting'
  <2>1. Entered(o, a, "cleaning") /\ abort[o][a] \in Asked /\ UNCHANGED step
    BY <1>25, <1>c DEF Claim
  <2> QED BY <2>1 DEF Entered, Asked
<1>26. ASSUME NEW o \in Uploads, NEW a \in Actors, Clean(o, a)  PROVE Aborting'
  <2>1. EndedAbort(o, a)
    BY <1>26, <1>d DEF Clean
  <2> QED BY <2>1 DEF EndedAbort, Entered
<1>27. CASE Disconnect
  BY <1>27 DEF Disconnect
<1>28. CASE Close
  BY <1>28 DEF Close
<1>29. CASE SomebodySaves
  BY <1>29 DEF SomebodySaves
<1>30. CASE UNCHANGED vars
  BY <1>30
<1> QED BY <1>1, <1>2, <1>3, <1>4, <1>5, <1>6, <1>7, <1>8, <1>9, <1>10, <1>11, <1>12, <1>13,
    <1>14, <1>15, <1>16, <1>17, <1>18, <1>19, <1>20, <1>21, <1>22, <1>23, <1>24, <1>25, <1>26,
    <1>27, <1>28, <1>29, <1>30, Cases



LEMMA FinishingStep ==
  ASSUME TypeOK, Placed, Finishing, [Next]_vars  PROVE Finishing'
<1>a. \A p \in Uploads, why \in Asked : Gives(p, why) => Gave(p, why)
  BY GivesOf
<1>b. \A p \in Uploads, a \in Actors, why \in Asked : Aborts(p, a, why) =>
        Entered(p, a, why) /\ flag' \in [Ops -> BOOLEAN]
  BY AbortsOf
<1>c. \A p \in Uploads, a \in Actors : Claim(p, a) => Entered(p, a,
    "cleaning") /\ abort[p][a] \in Asked
  BY ClaimOf
<1>d. \A p \in Uploads, a \in Actors : EndsAbort(p, a) => EndedAbort(p, a)
  BY EndsOf
<1> USE Kinds DEF TypeOK, Placed, Finishing, Promoting, vars, remoteVars, slotVars, sessionVars
<1>1. ASSUME NEW o \in Ops, Begin(o)  PROVE Finishing'
  BY <1>1 DEF Begin, Goto
<1>2. ASSUME NEW o \in Ops, Register(o)  PROVE Finishing'
  BY <1>2 DEF Register, Goto, Becomes, Answers
<1>3. ASSUME NEW o \in Ops, NotRegistered(o)  PROVE Finishing'
  BY <1>3 DEF NotRegistered, Goto, Answers
<1>4. ASSUME NEW o \in Uploads, Chunk(o)  PROVE Finishing'
  BY <1>4 DEF Chunk, Answers, SlotFree
<1>5. ASSUME NEW o \in Uploads, FeedFails(o)  PROVE Finishing'
  <2>1. PICK why \in Asked : Gives(o, why)
    BY <1>5 DEF FeedFails, Fails, Asked
  <2>2. Gave(o, why)
    BY <2>1, <1>a
  <2>3. UNCHANGED state
    BY <1>5 DEF FeedFails, Fails
  <2> QED BY <2>2, <2>3 DEF Gave
<1>6. ASSUME NEW o \in Ops, Refused(o)  PROVE Finishing'
  BY <1>6 DEF Refused, Goto, SlotFree
<1>7. ASSUME NEW o \in Ops, FinishFed(o)  PROVE Finishing'
  BY <1>7 DEF FinishFed, Goto, SlotFree
<1>8. ASSUME NEW o \in Ops, CloseFed(o)  PROVE Finishing'
  <2>1. o \in Fed /\ o \in Uploads /\ step[o] = "closing"
    BY <1>8 DEF CloseFed
  <2>2. ASSUME NEW why \in Asked, Gives(o, why)  PROVE Finishing'
    <3>1. Gave(o, why)  BY <2>1, <2>2, <1>a
    <3>2. UNCHANGED state  BY <1>8 DEF CloseFed
    <3> QED BY <2>1, <3>1, <3>2 DEF Gave
  <2>3. CASE Goto(o, "promote") /\ UNCHANGED <<held, flag, abort>>
    BY <1>8, <2>1, <2>3 DEF CloseFed, Goto
  <2> QED BY <1>8, <2>2, <2>3 DEF CloseFed, Asked
<1>9. ASSUME NEW o \in Ops, CloseDropped(o)  PROVE Finishing'
  BY <1>9 DEF CloseDropped, Goto, SlotFree, Answers
<1>10. ASSUME NEW o \in Uploads, Look(o)  PROVE Finishing'
  BY <1>10 DEF Look, Goto, Quiet, Answers
<1>11. ASSUME NEW o \in Uploads, RenameNew(o)  PROVE Finishing'
  BY <1>11 DEF RenameNew, Goto, Quiet, Published, Answers
<1>12. ASSUME NEW o \in Uploads, Protect(o)  PROVE Finishing'
  BY <1>12 DEF Protect, Goto, Quiet, PutAside, Answers
<1>13. ASSUME NEW o \in Uploads, Replace(o)  PROVE Finishing'
  BY <1>13 DEF Replace, Goto, Quiet, Published, Answers
<1>14. ASSUME NEW o \in Uploads, Unprotect(o)  PROVE Finishing'
  BY <1>14 DEF Unprotect, Goto, Quiet, Answers
<1>15. ASSUME NEW o \in Uploads, PromoteFails(o)  PROVE Finishing'
  <2>1. PICK why \in Asked : Gives(o, why)
    BY <1>15 DEF PromoteFails, Fails, Asked
  <2>2. Gave(o, why)
    BY <2>1, <1>a
  <2>3. UNCHANGED state
    BY <1>15 DEF PromoteFails, Fails
  <2> QED BY <2>2, <2>3 DEF Gave
<1>16. ASSUME NEW o \in Uploads, RestoreOld(o)  PROVE Finishing'
  <2>1. PICK why \in Asked : Gives(o, why)
    BY <1>16 DEF RestoreOld, Fails, Asked
  <2>2. Gave(o, why)
    BY <2>1, <1>a
  <2>3. UNCHANGED state
    BY <1>16 DEF RestoreOld, Fails
  <2> QED BY <2>2, <2>3 DEF Gave
<1>17. ASSUME NEW o \in Uploads, Mark(o)  PROVE Finishing'
  BY <1>17 DEF Mark, Goto
<1>18. ASSUME NEW o \in Ops, Cancel(o)  PROVE Finishing'
  BY <1>18 DEF Cancel
<1>19. ASSUME NEW o \in Ops, CancelNext(o)  PROVE Finishing'
  BY <1>19 DEF CancelNext
<1>20. ASSUME NEW o \in Ops, Receive(o)  PROVE Finishing'
  BY <1>20 DEF Receive, Answers
<1>21. ASSUME NEW o \in Ops, Received(o)  PROVE Finishing'
  BY <1>21 DEF Received, Goto
<1>22. ASSUME NEW o \in Ops, Publish(o)  PROVE Finishing'
  BY <1>22 DEF Publish, Goto, Becomes
<1>23. ASSUME NEW o \in Ops, DownloadEnds(o)  PROVE Finishing'
  BY <1>23 DEF DownloadEnds, Goto, Becomes
<1>24. ASSUME NEW o \in Uploads, NEW a \in Actors, TooLate(o, a)  PROVE Finishing'
  <2>1. EndedAbort(o, a) /\ UNCHANGED <<state, held>>
    BY <1>24, <1>d DEF TooLate
  <2> QED BY <2>1 DEF EndedAbort
<1>25. ASSUME NEW o \in Uploads, NEW a \in Actors, Claim(o, a)  PROVE Finishing'
  <2>1. ~held[o] /\ UNCHANGED <<step, held>> /\ \A p \in Ops : p # o => state'[p] = state[p]
    BY <1>25 DEF Claim, Becomes, SlotFree
  <2>2. ASSUME NEW p \in Fed, step[p] \in Promoting \cup {"closing"}
        PROVE  held[p] /\ p # o /\ state'[p] = "running"
    BY <2>1, <2>2
  <2> QED BY <2>1, <2>2
<1>26. ASSUME NEW o \in Uploads, NEW a \in Actors, Clean(o, a)  PROVE Finishing'
  <2>1. EndedAbort(o, a) /\ UNCHANGED <<state, held>>
    BY <1>26, <1>d DEF Clean
  <2> QED BY <2>1 DEF EndedAbort
<1>27. CASE Disconnect
  BY <1>27 DEF Disconnect
<1>28. CASE Close
  BY <1>28 DEF Close
<1>29. CASE SomebodySaves
  BY <1>29 DEF SomebodySaves
<1>30. CASE UNCHANGED vars
  BY <1>30
<1> QED BY <1>1, <1>2, <1>3, <1>4, <1>5, <1>6, <1>7, <1>8, <1>9, <1>10, <1>11, <1>12, <1>13,
    <1>14, <1>15, <1>16, <1>17, <1>18, <1>19, <1>20, <1>21, <1>22, <1>23, <1>24, <1>25, <1>26,
    <1>27, <1>28, <1>29, <1>30, Cases



LEMMA RenamedStep ==
  ASSUME TypeOK, Placed, Aborting, Finishing, Renamed, [Next]_vars  PROVE Renamed'
<1>a. \A p \in Uploads, why \in Asked : Gives(p, why) => Gave(p, why)
  BY GivesOf
<1>b. \A p \in Uploads, a \in Actors, why \in Asked : Aborts(p, a, why) =>
        Entered(p, a, why) /\ flag' \in [Ops -> BOOLEAN]
  BY AbortsOf
<1>c. \A p \in Uploads, a \in Actors : Claim(p, a) => Entered(p, a,
    "cleaning") /\ abort[p][a] \in Asked
  BY ClaimOf
<1>d. \A p \in Uploads, a \in Actors : EndsAbort(p, a) => EndedAbort(p, a)
  BY EndsOf
<1>t. /\ state \in [Ops -> {"none", "running"} \cup Ended] /\ step \in [Ops -> Steps]
      /\ backup \in [Uploads -> Uploads \cup {None, "old"}]
  BY DEF TypeOK
<1> USE Kinds, <1>t DEF Placed, Renamed, Promoting, vars, remoteVars, slotVars, sessionVars
<1>1. ASSUME NEW o \in Ops, Begin(o)  PROVE Renamed'
  BY <1>1 DEF Begin, Goto
<1>2. ASSUME NEW o \in Ops, Register(o)  PROVE Renamed'
  BY <1>2 DEF Register, Goto, Becomes, Answers
<1>3. ASSUME NEW o \in Ops, NotRegistered(o)  PROVE Renamed'
  BY <1>3 DEF NotRegistered, Goto, Answers
<1>4. ASSUME NEW o \in Uploads, Chunk(o)  PROVE Renamed'
  BY <1>4 DEF Chunk, Answers, SlotFree
<1>5. ASSUME NEW o \in Uploads, FeedFails(o)  PROVE Renamed'
  <2>1. PICK why \in Asked : Gives(o, why)
    BY <1>5 DEF FeedFails, Fails, Asked
  <2>2. Gave(o, why)
    BY <2>1, <1>a
  <2>3. UNCHANGED <<state, remoteVars, broken>> /\ step[o] = "feed"
    BY <1>5 DEF FeedFails, Fails
  <2>4. step'[o] = "aborting" /\ \A p \in Ops : p # o => step'[p] = step[p]
    BY <2>2 DEF Gave
  <2> QED BY <2>3, <2>4
<1>6. ASSUME NEW o \in Ops, Refused(o)  PROVE Renamed'
  BY <1>6 DEF Refused, Goto, SlotFree
<1>7. ASSUME NEW o \in Ops, FinishFed(o)  PROVE Renamed'
  BY <1>7 DEF FinishFed, Goto, SlotFree
<1>8. ASSUME NEW o \in Ops, CloseFed(o)  PROVE Renamed'
  <2>1. o \in Fed /\ o \in Uploads /\ step[o] = "closing"
    BY <1>8 DEF CloseFed
  <2>2. ASSUME NEW why \in Asked, Gives(o, why)  PROVE Renamed'
    <3>1. Gave(o, why)  BY <2>1, <2>2, <1>a
    <3>2. UNCHANGED <<state, remoteVars, broken>>  BY <1>8 DEF CloseFed
    <3>3. step'[o] = "aborting" /\ \A p \in Ops : p # o => step'[p] = step[p]
      BY <3>1 DEF Gave
    <3> QED BY <2>1, <3>2, <3>3
  <2>3. CASE Goto(o, "promote") /\ UNCHANGED <<held, flag, abort>>
    BY <1>8, <2>1, <2>3 DEF CloseFed, Goto
  <2> QED BY <1>8, <2>2, <2>3 DEF CloseFed, Asked
<1>9. ASSUME NEW o \in Ops, CloseDropped(o)  PROVE Renamed'
  BY <1>9 DEF CloseDropped, Goto, SlotFree, Answers
<1>10. ASSUME NEW o \in Uploads, Look(o)  PROVE Renamed'
  <2>1. step'[o] \in {"rename", "protect"} /\ step[o] = "promote" /\ UNCHANGED <<state,
      remoteVars, broken>>
        /\ \A p \in Ops : p # o => step'[p] = step[p]
    BY <1>10 DEF Look, Goto, Quiet
  <2> QED BY <2>1
<1>11. ASSUME NEW o \in Uploads, RenameNew(o)  PROVE Renamed'
  BY <1>11 DEF RenameNew, Goto, Quiet, Published, Answers
<1>12. ASSUME NEW o \in Uploads, Protect(o)  PROVE Renamed'
  BY <1>12 DEF Protect, Goto, Quiet, PutAside, Answers
<1>13. ASSUME NEW o \in Uploads, Replace(o)  PROVE Renamed'
  BY <1>13 DEF Replace, Goto, Quiet, Published, Answers
<1>14. ASSUME NEW o \in Uploads, Unprotect(o)  PROVE Renamed'
  BY <1>14 DEF Unprotect, Goto, Quiet, Answers
<1>15. ASSUME NEW o \in Uploads, PromoteFails(o)  PROVE Renamed'
  <2>1. PICK why \in Asked : Gives(o, why)
    BY <1>15 DEF PromoteFails, Fails, Asked
  <2>2. Gave(o, why)
    BY <2>1, <1>a
  <2>3. broken' = broken \cup {o} /\ UNCHANGED state
    BY <1>15 DEF PromoteFails, Fails
  <2>4. \A p \in Uploads : p # o => backup'[p] = backup[p] /\ (p \in published' => p \in published)
    BY <1>15 DEF PromoteFails, Published, PutAside
  <2>5. staging' \subseteq staging /\ published \subseteq published'
    BY <1>15 DEF PromoteFails, Published, PutAside
  <2>6. step'[o] = "aborting" /\ \A p \in Ops : p # o => step'[p] = step[p]
    BY <2>2 DEF Gave
  <2> QED BY <2>3, <2>4, <2>5, <2>6
<1>16. ASSUME NEW o \in Uploads, RestoreOld(o)  PROVE Renamed'
  <2>1. PICK why \in Asked : Gives(o, why)
    BY <1>16 DEF RestoreOld, Fails, Asked
  <2>2. Gave(o, why)
    BY <2>1, <1>a
  <2>3. broken' = broken \cup {o} /\ UNCHANGED state
    BY <1>16 DEF RestoreOld, Fails
  <2>4. \A p \in Uploads : p # o => backup'[p] = backup[p] /\ (p \in published' => p \in published)
    BY <1>16 DEF RestoreOld, Published, PutAside
  <2>5. staging' \subseteq staging /\ published \subseteq published'
    BY <1>16 DEF RestoreOld, Published, PutAside
  <2>6. step'[o] = "aborting" /\ \A p \in Ops : p # o => step'[p] = step[p]
    BY <2>2 DEF Gave
  <2> QED BY <2>3, <2>4, <2>5, <2>6
<1>17. ASSUME NEW o \in Uploads, Mark(o)  PROVE Renamed'
  <2>1. step[o] = "mark" /\ UNCHANGED <<remoteVars, broken>>
        /\ \A p \in Ops : p # o => state'[p] = state[p] /\ step'[p] = step[p]
    BY <1>17 DEF Mark, Goto
  <2>2. step'[o] = "over" /\ (state[o] = "running" => state'[o] = "done")
    BY <1>17 DEF Mark, Goto
  <2>3. o \in Fed => state'[o] = "done"
    BY <2>1, <2>2 DEF Finishing
  <2>4. ASSUME NEW p \in Fed \ broken, p \in published \/ backup[p] # None
        PROVE  step'[p] \in {"replace", "unprotect", "mark"} \/ state'[p] = "done"
    <3>1. CASE p = o  BY <2>3, <3>1
    <3>2. CASE p # o  BY <2>1, <2>4, <3>2
    <3> QED BY <3>1, <3>2
  <2>5. \A p \in Uploads : step'[p] \in {"unprotect", "mark", "replace"} =>
          p # o /\ step[p] = step'[p]
    BY <2>1, <2>2
  <2> QED BY <2>1, <2>4, <2>5
<1>18. ASSUME NEW o \in Ops, Cancel(o)  PROVE Renamed'
  BY <1>18 DEF Cancel, Cancels, Aborts
<1>19. ASSUME NEW o \in Ops, CancelNext(o)  PROVE Renamed'
  BY <1>19 DEF CancelNext, Cancels, Aborts
<1>20. ASSUME NEW o \in Ops, Receive(o)  PROVE Renamed'
  BY <1>20 DEF Receive, Answers
<1>21. ASSUME NEW o \in Ops, Received(o)  PROVE Renamed'
  BY <1>21 DEF Received, Goto
<1>22. ASSUME NEW o \in Ops, Publish(o)  PROVE Renamed'
  BY <1>22 DEF Publish, Goto, Becomes
<1>23. ASSUME NEW o \in Ops, DownloadEnds(o)  PROVE Renamed'
  BY <1>23 DEF DownloadEnds, Goto, Becomes
<1>24. ASSUME NEW o \in Uploads, NEW a \in Actors, TooLate(o, a)  PROVE Renamed'
  <2>1. EndedAbort(o, a) /\ abort[o][a] # "none"
    BY <1>24, <1>d DEF TooLate, Asked
  <2>2. a = "worker" => step[o] = "aborting"
    BY <2>1 DEF Aborting
  <2>3. \A p \in Ops : step'[p] = step[p] \/ (step[p] = "aborting" /\ step'[p] = "over")
    BY <2>1, <2>2 DEF EndedAbort
  <2>4. UNCHANGED <<state, target, backup, published, broken>> /\ staging' \subseteq staging
    BY <1>24 DEF TooLate
  <2> QED BY <2>3, <2>4
<1>25. ASSUME NEW o \in Uploads, NEW a \in Actors, Claim(o, a)  PROVE Renamed'
  <2>1. ~held[o] /\ state[o] = "running" /\ UNCHANGED <<step, remoteVars, broken>>
        /\ \A p \in Ops : p # o => state'[p] = state[p]
    BY <1>25 DEF Claim, Becomes, SlotFree
  <2>2. o \in Fed => step[o] \notin Promoting
    BY <2>1 DEF Finishing
  <2>3. ASSUME NEW p \in Fed \ broken, p \in published \/ backup[p] # None
        PROVE  step[p] \in {"replace", "unprotect", "mark"} \/ state'[p] = "done"
    BY <2>1, <2>2, <2>3
  <2> QED BY <2>1, <2>3
<1>26. ASSUME NEW o \in Uploads, NEW a \in Actors, Clean(o, a)  PROVE Renamed'
  <2>1. EndedAbort(o, a) /\ abort[o][a] # "none"
    BY <1>26, <1>d DEF Clean, Asked
  <2>2. a = "worker" => step[o] = "aborting"
    BY <2>1 DEF Aborting
  <2>3. \A p \in Ops : step'[p] = step[p] \/ (step[p] = "aborting" /\ step'[p] = "over")
    BY <2>1, <2>2 DEF EndedAbort
  <2>4. UNCHANGED <<state, target, backup, published, broken>> /\ staging' \subseteq staging
    BY <1>26 DEF Clean
  <2> QED BY <2>3, <2>4
<1>27. CASE Disconnect
  BY <1>27 DEF Disconnect
<1>28. CASE Close
  BY <1>28 DEF Close
<1>29. CASE SomebodySaves
  BY <1>29 DEF SomebodySaves
<1>30. CASE UNCHANGED vars
  BY <1>30
<1> QED BY <1>1, <1>2, <1>3, <1>4, <1>5, <1>6, <1>7, <1>8, <1>9, <1>10, <1>11, <1>12, <1>13,
    <1>14, <1>15, <1>16, <1>17, <1>18, <1>19, <1>20, <1>21, <1>22, <1>23, <1>24, <1>25, <1>26,
    <1>27, <1>28, <1>29, <1>30, Cases



LEMMA CleaningStep ==
  ASSUME TypeOK, Placed, Aborting, Renamed, Cleaning, [Next]_vars  PROVE Cleaning'
<1>a. \A p \in Uploads, why \in Asked : Gives(p, why) => Gave(p, why)
  BY GivesOf
<1>b. \A p \in Uploads, a \in Actors, why \in Asked : Aborts(p, a, why) =>
        Entered(p, a, why) /\ flag' \in [Ops -> BOOLEAN]
  BY AbortsOf
<1>c. \A p \in Uploads, a \in Actors : Claim(p, a) => Entered(p, a,
    "cleaning") /\ abort[p][a] \in Asked
  BY ClaimOf
<1>d. \A p \in Uploads, a \in Actors : EndsAbort(p, a) => EndedAbort(p, a)
  BY EndsOf
<1>t. state \in [Ops -> {"none",
    "running"} \cup Ended] /\ step \in [Ops -> Steps] /\ staging \subseteq Uploads
  BY DEF TypeOK
<1> USE Kinds, <1>t DEF Placed, Cleaning, Promoting, vars, remoteVars, slotVars, sessionVars
<1>1. ASSUME NEW o \in Ops, Begin(o)  PROVE Cleaning'
  BY <1>1 DEF Begin, Goto
<1>2. ASSUME NEW o \in Ops, Register(o)  PROVE Cleaning'
  BY <1>2 DEF Register, Goto, Becomes, Answers
<1>3. ASSUME NEW o \in Ops, NotRegistered(o)  PROVE Cleaning'
  BY <1>3 DEF NotRegistered, Goto, Answers
<1>4. ASSUME NEW o \in Uploads, Chunk(o)  PROVE Cleaning'
  BY <1>4 DEF Chunk, Answers, SlotFree
<1>5. ASSUME NEW o \in Uploads, FeedFails(o)  PROVE Cleaning'
  <2>1. PICK why \in Asked : Gives(o, why)
    BY <1>5 DEF FeedFails, Fails, Asked
  <2>2. Gave(o, why)
    BY <2>1, <1>a
  <2>3. UNCHANGED <<state, warned>> /\ staging' \subseteq staging /\ step[o] # "aborting"
    BY <1>5 DEF FeedFails, Fails, Published, PutAside
  <2>4. abort[o]["worker"] = "none"
    BY <2>3 DEF Aborting
  <2>5. \A p \in Uploads, b \in Actors : abort[p][b] = "cleaning" => abort'[p][b] = "cleaning"
    BY <2>2, <2>4 DEF Gave, Entered
  <2> QED BY <2>3, <2>5
<1>6. ASSUME NEW o \in Ops, Refused(o)  PROVE Cleaning'
  BY <1>6 DEF Refused, Goto, SlotFree
<1>7. ASSUME NEW o \in Ops, FinishFed(o)  PROVE Cleaning'
  BY <1>7 DEF FinishFed, Goto, SlotFree
<1>8. ASSUME NEW o \in Ops, CloseFed(o)  PROVE Cleaning'
  <2>1. o \in Fed /\ o \in Uploads /\ step[o] = "closing"
    BY <1>8 DEF CloseFed
  <2>2. ASSUME NEW why \in Asked, Gives(o, why)  PROVE Cleaning'
    <3>1. Gave(o, why)  BY <2>1, <2>2, <1>a
    <3>2. UNCHANGED <<state, warned, remoteVars>>  BY <1>8 DEF CloseFed
    <3>3. abort[o]["worker"] = "none"  BY <2>1 DEF Aborting
    <3>4. \A p \in Uploads, b \in Actors : abort[p][b] = "cleaning" => abort'[p][b] = "cleaning"
      BY <3>1, <3>3 DEF Gave, Entered
    <3> QED BY <3>2, <3>4
  <2>3. CASE Goto(o, "promote") /\ UNCHANGED <<held, flag, abort>>
    BY <1>8, <2>1, <2>3 DEF CloseFed, Goto
  <2> QED BY <1>8, <2>2, <2>3 DEF CloseFed, Asked
<1>9. ASSUME NEW o \in Ops, CloseDropped(o)  PROVE Cleaning'
  BY <1>9 DEF CloseDropped, Goto, SlotFree, Answers
<1>10. ASSUME NEW o \in Uploads, Look(o)  PROVE Cleaning'
  BY <1>10 DEF Look, Goto, Quiet, Answers
<1>11. ASSUME NEW o \in Uploads, RenameNew(o)  PROVE Cleaning'
  BY <1>11 DEF RenameNew, Goto, Quiet, Published, Answers
<1>12. ASSUME NEW o \in Uploads, Protect(o)  PROVE Cleaning'
  BY <1>12 DEF Protect, Goto, Quiet, PutAside, Answers
<1>13. ASSUME NEW o \in Uploads, Replace(o)  PROVE Cleaning'
  BY <1>13 DEF Replace, Goto, Quiet, Published, Answers
<1>14. ASSUME NEW o \in Uploads, Unprotect(o)  PROVE Cleaning'
  BY <1>14 DEF Unprotect, Goto, Quiet, Answers
<1>15. ASSUME NEW o \in Uploads, PromoteFails(o)  PROVE Cleaning'
  <2>1. PICK why \in Asked : Gives(o, why)
    BY <1>15 DEF PromoteFails, Fails, Asked
  <2>2. Gave(o, why)
    BY <2>1, <1>a
  <2>3. UNCHANGED <<state, warned>> /\ staging' \subseteq staging /\ step[o] # "aborting"
    BY <1>15 DEF PromoteFails, Fails, Published, PutAside
  <2>4. abort[o]["worker"] = "none"
    BY <2>3 DEF Aborting
  <2>5. \A p \in Uploads, b \in Actors : abort[p][b] = "cleaning" => abort'[p][b] = "cleaning"
    BY <2>2, <2>4 DEF Gave, Entered
  <2> QED BY <2>3, <2>5
<1>16. ASSUME NEW o \in Uploads, RestoreOld(o)  PROVE Cleaning'
  <2>1. PICK why \in Asked : Gives(o, why)
    BY <1>16 DEF RestoreOld, Fails, Asked
  <2>2. Gave(o, why)
    BY <2>1, <1>a
  <2>3. UNCHANGED <<state, warned>> /\ staging' \subseteq staging /\ step[o] # "aborting"
    BY <1>16 DEF RestoreOld, Fails, Published, PutAside
  <2>4. abort[o]["worker"] = "none"
    BY <2>3 DEF Aborting
  <2>5. \A p \in Uploads, b \in Actors : abort[p][b] = "cleaning" => abort'[p][b] = "cleaning"
    BY <2>2, <2>4 DEF Gave, Entered
  <2> QED BY <2>3, <2>5
<1>17. ASSUME NEW o \in Uploads, Mark(o)  PROVE Cleaning'
  <2>1. o \notin staging /\ UNCHANGED <<staging, warned, abort>>
        /\ \A p \in Ops : p # o => state'[p] = state[p]
    BY <1>17 DEF Mark, Renamed
  <2> QED BY <2>1
<1>18. ASSUME NEW o \in Ops, Cancel(o)  PROVE Cleaning'
  <2>1. CASE o \in Uploads /\ Cancels(o)
    <3>1. Entered(o, "canceller", "stopped") /\ abort[o]["canceller"] = "none"
      BY <2>1, <1>b DEF Cancels, Asked
    <3> QED BY <1>18, <3>1 DEF Cancel, Entered
  <2>2. CASE UNCHANGED abort
    BY <1>18, <2>2 DEF Cancel
  <2>3. ~(o \in Uploads /\ Cancels(o)) => UNCHANGED abort
    BY <1>18 DEF Cancel, Cancels
  <2> QED BY <2>1, <2>2, <2>3
<1>19. ASSUME NEW o \in Ops, CancelNext(o)  PROVE Cleaning'
  <2>1. CASE o \in Uploads /\ Cancels(o)
    <3>1. Entered(o, "canceller", "stopped") /\ abort[o]["canceller"] = "none"
      BY <2>1, <1>b DEF Cancels, Asked
    <3> QED BY <1>19, <3>1 DEF CancelNext, Entered
  <2>2. CASE UNCHANGED abort
    BY <1>19, <2>2 DEF CancelNext
  <2>3. ~(o \in Uploads /\ Cancels(o)) => UNCHANGED abort
    BY <1>19 DEF CancelNext, Cancels
  <2> QED BY <2>1, <2>2, <2>3
<1>20. ASSUME NEW o \in Ops, Receive(o)  PROVE Cleaning'
  BY <1>20 DEF Receive, Answers
<1>21. ASSUME NEW o \in Ops, Received(o)  PROVE Cleaning'
  BY <1>21 DEF Received, Goto
<1>22. ASSUME NEW o \in Ops, Publish(o)  PROVE Cleaning'
  BY <1>22 DEF Publish, Goto, Becomes
<1>23. ASSUME NEW o \in Ops, DownloadEnds(o)  PROVE Cleaning'
  BY <1>23 DEF DownloadEnds, Goto, Becomes
<1>24. ASSUME NEW o \in Uploads, NEW a \in Actors, TooLate(o, a)  PROVE Cleaning'
  <2>1. Entered(o, a, "none") /\ abort[o][a] # "cleaning" /\ UNCHANGED <<state, staging,
      warned>>
    BY <1>24, <1>d DEF TooLate, Asked, EndedAbort
  <2>2. \A p \in Uploads, b \in Actors : abort[p][b] = "cleaning" => abort'[p][b] = "cleaning"
    BY <2>1 DEF Entered
  <2> QED BY <2>1, <2>2
<1>25. ASSUME NEW o \in Uploads, NEW a \in Actors, Claim(o, a)  PROVE Cleaning'
  <2>1. Entered(o, a, "cleaning") /\ UNCHANGED <<staging, warned>>
        /\ \A p \in Ops : p # o => state'[p] = state[p]
    BY <1>25, <1>c DEF Claim, Becomes
  <2> QED BY <2>1 DEF Entered
<1>26. ASSUME NEW o \in Uploads, NEW a \in Actors, Clean(o, a)  PROVE Cleaning'
  <2>1. Entered(o, a, "none") /\ UNCHANGED state
    BY <1>26, <1>d DEF Clean, EndedAbort
  <2>2. o \notin staging' \/ o \in warned'
    BY <1>26 DEF Clean
  <2>3. staging' \subseteq staging /\ warned \subseteq warned'
    BY <1>26 DEF Clean
  <2>4. \A p \in Uploads, b \in Actors :
          p # o /\ abort[p][b] = "cleaning" => abort'[p][b] = "cleaning"
    BY <2>1 DEF Entered
  <2> QED BY <2>1, <2>2, <2>3, <2>4
<1>27. CASE Disconnect
  BY <1>27 DEF Disconnect
<1>28. CASE Close
  BY <1>28 DEF Close
<1>29. CASE SomebodySaves
  BY <1>29 DEF SomebodySaves
<1>30. CASE UNCHANGED vars
  BY <1>30
<1> QED BY <1>1, <1>2, <1>3, <1>4, <1>5, <1>6, <1>7, <1>8, <1>9, <1>10, <1>11, <1>12, <1>13,
    <1>14, <1>15, <1>16, <1>17, <1>18, <1>19, <1>20, <1>21, <1>22, <1>23, <1>24, <1>25, <1>26,
    <1>27, <1>28, <1>29, <1>30, Cases



LEMMA KeptStep ==
  ASSUME TypeOK, Placed, Aborting, Renamed, Kept, [Next]_vars  PROVE Kept'
<1>a. \A p \in Uploads, why \in Asked : Gives(p, why) => Gave(p, why)
  BY GivesOf
<1>b. \A p \in Uploads, a \in Actors, why \in Asked : Aborts(p, a, why) =>
        Entered(p, a, why) /\ flag' \in [Ops -> BOOLEAN]
  BY AbortsOf
<1>c. \A p \in Uploads, a \in Actors : Claim(p, a) => Entered(p, a,
    "cleaning") /\ abort[p][a] \in Asked
  BY ClaimOf
<1>d. \A p \in Uploads, a \in Actors : EndsAbort(p, a) => EndedAbort(p, a)
  BY EndsOf
<1>t. /\ step \in [Ops -> Steps] /\ backup \in [Uploads -> Uploads \cup {None, "old"}]
      /\ target \in Uploads \cup {None, "old"}
  BY DEF TypeOK
<1> USE Kinds, <1>t DEF Placed, Kept, Promoting, vars, remoteVars, slotVars, sessionVars
<1>1. ASSUME NEW o \in Ops, Begin(o)  PROVE Kept'
  BY <1>1 DEF Begin, Goto
<1>2. ASSUME NEW o \in Ops, Register(o)  PROVE Kept'
  BY <1>2 DEF Register, Goto, Becomes, Answers
<1>3. ASSUME NEW o \in Ops, NotRegistered(o)  PROVE Kept'
  BY <1>3 DEF NotRegistered, Goto, Answers
<1>4. ASSUME NEW o \in Uploads, Chunk(o)  PROVE Kept'
  BY <1>4 DEF Chunk, Answers, SlotFree
<1>5. ASSUME NEW o \in Uploads, FeedFails(o)  PROVE Kept'
  <2>1. PICK why \in Asked : Gives(o, why)
    BY <1>5 DEF FeedFails, Fails, Asked
  <2>2. Gave(o, why)
    BY <2>1, <1>a
  <2>3. UNCHANGED <<target, backup>>
    BY <1>5 DEF FeedFails
  <2>4. step'[o] = "aborting" /\ \A p \in Ops : p # o => step'[p] = step[p]
    BY <2>2 DEF Gave
  <2>5. step[o] = "feed"
    BY <1>5 DEF FeedFails
  <2> QED BY <2>3, <2>4, <2>5
<1>6. ASSUME NEW o \in Ops, Refused(o)  PROVE Kept'
  BY <1>6 DEF Refused, Goto, SlotFree
<1>7. ASSUME NEW o \in Ops, FinishFed(o)  PROVE Kept'
  BY <1>7 DEF FinishFed, Goto, SlotFree
<1>8. ASSUME NEW o \in Ops, CloseFed(o)  PROVE Kept'
  <2>1. o \in Fed /\ o \in Uploads /\ step[o] = "closing"
    BY <1>8 DEF CloseFed
  <2>2. ASSUME NEW why \in Asked, Gives(o, why)  PROVE Kept'
    <3>1. Gave(o, why)  BY <2>1, <2>2, <1>a
    <3>2. UNCHANGED <<target, backup>>  BY <1>8 DEF CloseFed
    <3>3. step'[o] = "aborting" /\ \A p \in Ops : p # o => step'[p] = step[p]
      BY <3>1 DEF Gave
    <3> QED BY <2>1, <3>2, <3>3
  <2>3. CASE Goto(o, "promote") /\ UNCHANGED <<held, flag, abort>>
    BY <1>8, <2>1, <2>3 DEF CloseFed, Goto
  <2> QED BY <1>8, <2>2, <2>3 DEF CloseFed, Asked
<1>9. ASSUME NEW o \in Ops, CloseDropped(o)  PROVE Kept'
  BY <1>9 DEF CloseDropped, Goto, SlotFree, Answers
<1>10. ASSUME NEW o \in Uploads, Look(o)  PROVE Kept'
  BY <1>10 DEF Look, Goto, Quiet, Answers
<1>11. ASSUME NEW o \in Uploads, RenameNew(o)  PROVE Kept'
  <2>1. target' # None  BY <1>11 DEF RenameNew, Published
  <2> QED BY <2>1
<1>12. ASSUME NEW o \in Uploads, Protect(o)  PROVE Kept'
  <2>1. backup'[o] # None /\ step'[o] = "replace"  BY <1>12 DEF Protect, PutAside, Goto
  <2> QED BY <2>1
<1>13. ASSUME NEW o \in Uploads, Replace(o)  PROVE Kept'
  <2>1. target' # None  BY <1>13 DEF Replace, Published
  <2> QED BY <2>1
<1>14. ASSUME NEW o \in Uploads, Unprotect(o)  PROVE Kept'
  <2>1. step[o] = "unprotect" /\ UNCHANGED target
        /\ \A p \in Uploads : p # o => backup'[p] = backup[p] /\ step'[p] = step[p]
    BY <1>14 DEF Unprotect, Goto
  <2>2. CASE target # None  BY <2>1, <2>2
  <2>3. ASSUME NEW p \in Uploads, step[p] # "unprotect", backup[p] # None
        PROVE  Kept'
    BY <2>1, <2>3
  <2> QED BY <2>1, <2>2, <2>3
<1>15. ASSUME NEW o \in Uploads, PromoteFails(o)  PROVE Kept'
  <2>1. PICK why \in Asked : Gives(o, why)
    BY <1>15 DEF PromoteFails, Fails, Asked
  <2>2. Gave(o, why)
    BY <2>1, <1>a
  <2>3. step'[o] = "aborting" /\ \A p \in Ops : p # o => step'[p] = step[p]
    BY <2>2 DEF Gave
  <2>4. CASE UNCHANGED <<target, backup>>
    BY <1>15, <2>3, <2>4 DEF PromoteFails
  <2>5. CASE target' # None
    BY <2>5
  <2>6. CASE backup'[o] # None
    BY <2>3, <2>6
  <2>7. UNCHANGED <<target, backup>> \/ target' # None \/ backup'[o] # None
    BY <1>15 DEF PromoteFails, Published, PutAside
  <2> QED BY <2>4, <2>5, <2>6, <2>7
<1>16. ASSUME NEW o \in Uploads, RestoreOld(o)  PROVE Kept'
  <2>1. PICK why \in Asked : Gives(o, why)
    BY <1>16 DEF RestoreOld, Fails, Asked
  <2>2. Gave(o, why)
    BY <2>1, <1>a
  <2>3. step'[o] = "aborting" /\ step[o] = "replace" /\ \A p \in Ops : p # o => step'[p] = step[p]
    BY <1>16, <2>2 DEF Gave, RestoreOld
  <2>4. CASE UNCHANGED <<target, backup>>
    BY <2>3, <2>4
  <2>5. CASE target' # None
    BY <2>5
  <2>6. UNCHANGED <<target, backup>> \/ target' # None
    BY <1>16, <2>3 DEF RestoreOld, Published, Renamed
  <2> QED BY <2>4, <2>5, <2>6
<1>17. ASSUME NEW o \in Uploads, Mark(o)  PROVE Kept'
  BY <1>17 DEF Mark, Goto
<1>18. ASSUME NEW o \in Ops, Cancel(o)  PROVE Kept'
  BY <1>18 DEF Cancel
<1>19. ASSUME NEW o \in Ops, CancelNext(o)  PROVE Kept'
  BY <1>19 DEF CancelNext
<1>20. ASSUME NEW o \in Ops, Receive(o)  PROVE Kept'
  BY <1>20 DEF Receive, Answers
<1>21. ASSUME NEW o \in Ops, Received(o)  PROVE Kept'
  BY <1>21 DEF Received, Goto
<1>22. ASSUME NEW o \in Ops, Publish(o)  PROVE Kept'
  BY <1>22 DEF Publish, Goto, Becomes
<1>23. ASSUME NEW o \in Ops, DownloadEnds(o)  PROVE Kept'
  BY <1>23 DEF DownloadEnds, Goto, Becomes
<1>24. ASSUME NEW o \in Uploads, NEW a \in Actors, TooLate(o, a)  PROVE Kept'
  <2>1. EndedAbort(o, a) /\ abort[o][a] # "none"
    BY <1>24, <1>d DEF TooLate, Asked
  <2>2. a = "worker" => step[o] = "aborting"
    BY <2>1 DEF Aborting
  <2>3. \A p \in Ops : step'[p] = step[p] \/ (step[p] = "aborting" /\ step'[p] = "over")
    BY <2>1, <2>2 DEF EndedAbort
  <2>4. UNCHANGED <<target, backup>>
    BY <1>24 DEF TooLate
  <2> QED BY <2>3, <2>4
<1>25. ASSUME NEW o \in Uploads, NEW a \in Actors, Claim(o, a)  PROVE Kept'
  BY <1>25 DEF Claim
<1>26. ASSUME NEW o \in Uploads, NEW a \in Actors, Clean(o, a)  PROVE Kept'
  <2>1. EndedAbort(o, a) /\ abort[o][a] # "none"
    BY <1>26, <1>d DEF Clean, Asked
  <2>2. a = "worker" => step[o] = "aborting"
    BY <2>1 DEF Aborting
  <2>3. \A p \in Ops : step'[p] = step[p] \/ (step[p] = "aborting" /\ step'[p] = "over")
    BY <2>1, <2>2 DEF EndedAbort
  <2>4. UNCHANGED <<target, backup>>
    BY <1>26 DEF Clean
  <2> QED BY <2>3, <2>4
<1>27. CASE Disconnect
  BY <1>27 DEF Disconnect
<1>28. CASE Close
  BY <1>28 DEF Close
<1>29. CASE SomebodySaves
  BY <1>29 DEF SomebodySaves
<1>30. CASE UNCHANGED vars
  BY <1>30
<1> QED BY <1>1, <1>2, <1>3, <1>4, <1>5, <1>6, <1>7, <1>8, <1>9, <1>10, <1>11, <1>12, <1>13,
    <1>14, <1>15, <1>16, <1>17, <1>18, <1>19, <1>20, <1>21, <1>22, <1>23, <1>24, <1>25, <1>26,
    <1>27, <1>28, <1>29, <1>30, Cases



LEMMA DoneStep ==
  ASSUME TypeOK, Placed, Renamed, DoneIsTrue, [Next]_vars  PROVE DoneIsTrue'
<1>t. state \in [Ops -> {"none", "running"} \cup Ended] /\ step \in [Ops -> Steps]
  BY DEF TypeOK
<1> USE Kinds, <1>t DEF Placed, DoneIsTrue, Promoting, vars, remoteVars, slotVars, sessionVars
<1>1. ASSUME NEW o \in Ops, Begin(o)  PROVE DoneIsTrue'
  BY <1>1 DEF Begin, Goto
<1>2. ASSUME NEW o \in Ops, Register(o)  PROVE DoneIsTrue'
  BY <1>2 DEF Register, Goto, Becomes, Answers
<1>3. ASSUME NEW o \in Ops, NotRegistered(o)  PROVE DoneIsTrue'
  BY <1>3 DEF NotRegistered, Goto, Answers
<1>4. ASSUME NEW o \in Uploads, Chunk(o)  PROVE DoneIsTrue'
  BY <1>4 DEF Chunk, Answers, SlotFree
<1>5. ASSUME NEW o \in Uploads, FeedFails(o)  PROVE DoneIsTrue'
  <2>1. UNCHANGED state /\ published \subseteq published'
    BY <1>5 DEF FeedFails, Fails, Published, PutAside
  <2> QED BY <2>1
<1>6. ASSUME NEW o \in Ops, Refused(o)  PROVE DoneIsTrue'
  BY <1>6 DEF Refused, Goto, SlotFree
<1>7. ASSUME NEW o \in Ops, FinishFed(o)  PROVE DoneIsTrue'
  BY <1>7 DEF FinishFed, Goto, SlotFree
<1>8. ASSUME NEW o \in Ops, CloseFed(o)  PROVE DoneIsTrue'
  BY <1>8 DEF CloseFed
<1>9. ASSUME NEW o \in Ops, CloseDropped(o)  PROVE DoneIsTrue'
  BY <1>9 DEF CloseDropped, Goto, SlotFree, Answers
<1>10. ASSUME NEW o \in Uploads, Look(o)  PROVE DoneIsTrue'
  BY <1>10 DEF Look, Goto, Quiet, Answers
<1>11. ASSUME NEW o \in Uploads, RenameNew(o)  PROVE DoneIsTrue'
  BY <1>11 DEF RenameNew, Goto, Quiet, Published, Answers
<1>12. ASSUME NEW o \in Uploads, Protect(o)  PROVE DoneIsTrue'
  BY <1>12 DEF Protect, Goto, Quiet, PutAside, Answers
<1>13. ASSUME NEW o \in Uploads, Replace(o)  PROVE DoneIsTrue'
  BY <1>13 DEF Replace, Goto, Quiet, Published, Answers
<1>14. ASSUME NEW o \in Uploads, Unprotect(o)  PROVE DoneIsTrue'
  BY <1>14 DEF Unprotect, Goto, Quiet, Answers
<1>15. ASSUME NEW o \in Uploads, PromoteFails(o)  PROVE DoneIsTrue'
  <2>1. UNCHANGED state /\ published \subseteq published'
    BY <1>15 DEF PromoteFails, Fails, Published, PutAside
  <2> QED BY <2>1
<1>16. ASSUME NEW o \in Uploads, RestoreOld(o)  PROVE DoneIsTrue'
  <2>1. UNCHANGED state /\ published \subseteq published'
    BY <1>16 DEF RestoreOld, Fails, Published, PutAside
  <2> QED BY <2>1
<1>17. ASSUME NEW o \in Uploads, Mark(o)  PROVE DoneIsTrue'
  <2>1. UNCHANGED published /\ o \in published /\ \A p \in Ops : p # o => state'[p] = state[p]
    BY <1>17 DEF Mark, Renamed
  <2> QED BY <2>1
<1>18. ASSUME NEW o \in Ops, Cancel(o)  PROVE DoneIsTrue'
  BY <1>18 DEF Cancel
<1>19. ASSUME NEW o \in Ops, CancelNext(o)  PROVE DoneIsTrue'
  BY <1>19 DEF CancelNext
<1>20. ASSUME NEW o \in Ops, Receive(o)  PROVE DoneIsTrue'
  BY <1>20 DEF Receive, Answers
<1>21. ASSUME NEW o \in Ops, Received(o)  PROVE DoneIsTrue'
  BY <1>21 DEF Received, Goto
<1>22. ASSUME NEW o \in Ops, Publish(o)  PROVE DoneIsTrue'
  BY <1>22 DEF Publish, Goto, Becomes
<1>23. ASSUME NEW o \in Ops, DownloadEnds(o)  PROVE DoneIsTrue'
  BY <1>23 DEF DownloadEnds, Goto, Becomes
<1>24. ASSUME NEW o \in Uploads, NEW a \in Actors, TooLate(o, a)  PROVE DoneIsTrue'
  BY <1>24 DEF TooLate
<1>25. ASSUME NEW o \in Uploads, NEW a \in Actors, Claim(o, a)  PROVE DoneIsTrue'
  <2>1. UNCHANGED published /\ \A p \in Ops : p # o => state'[p] = state[p]
    BY <1>25 DEF Claim, Becomes
  <2>2. state'[o] # "done"
    BY <1>25 DEF Claim, Becomes
  <2> QED BY <2>1, <2>2
<1>26. ASSUME NEW o \in Uploads, NEW a \in Actors, Clean(o, a)  PROVE DoneIsTrue'
  BY <1>26 DEF Clean
<1>27. CASE Disconnect
  BY <1>27 DEF Disconnect
<1>28. CASE Close
  BY <1>28 DEF Close
<1>29. CASE SomebodySaves
  BY <1>29 DEF SomebodySaves
<1>30. CASE UNCHANGED vars
  BY <1>30
<1> QED BY <1>1, <1>2, <1>3, <1>4, <1>5, <1>6, <1>7, <1>8, <1>9, <1>10, <1>11, <1>12, <1>13,
    <1>14, <1>15, <1>16, <1>17, <1>18, <1>19, <1>20, <1>21, <1>22, <1>23, <1>24, <1>25, <1>26,
    <1>27, <1>28, <1>29, <1>30, Cases



\* A transfer that ended stays as it ended.
OnceEnded == \A o \in Ops : state[o] \in Ended => state'[o] = state[o]

LEMMA EndsStep ==
  ASSUME TypeOK, Placed, [Next]_vars  PROVE OnceEnded
<1>t. state \in [Ops -> {"none", "running"} \cup Ended] /\ step \in [Ops -> Steps]
  BY DEF TypeOK
<1> USE Kinds, <1>t DEF Placed, Ended, OnceEnded, vars, remoteVars, slotVars, sessionVars
<1>1. ASSUME NEW o \in Ops, Begin(o)  PROVE OnceEnded
  BY <1>1 DEF Begin, Goto
<1>2. ASSUME NEW o \in Ops, Register(o)  PROVE OnceEnded
  BY <1>2 DEF Register, Goto, Becomes, Answers
<1>3. ASSUME NEW o \in Ops, NotRegistered(o)  PROVE OnceEnded
  BY <1>3 DEF NotRegistered, Goto, Answers
<1>4. ASSUME NEW o \in Uploads, Chunk(o)  PROVE OnceEnded
  BY <1>4 DEF Chunk, Answers, SlotFree
<1>5. ASSUME NEW o \in Uploads, FeedFails(o)  PROVE OnceEnded
  BY <1>5 DEF FeedFails, Fails
<1>6. ASSUME NEW o \in Ops, Refused(o)  PROVE OnceEnded
  BY <1>6 DEF Refused, Goto, SlotFree
<1>7. ASSUME NEW o \in Ops, FinishFed(o)  PROVE OnceEnded
  BY <1>7 DEF FinishFed, Goto, SlotFree
<1>8. ASSUME NEW o \in Ops, CloseFed(o)  PROVE OnceEnded
  BY <1>8 DEF CloseFed
<1>9. ASSUME NEW o \in Ops, CloseDropped(o)  PROVE OnceEnded
  BY <1>9 DEF CloseDropped, Goto, SlotFree, Answers
<1>10. ASSUME NEW o \in Uploads, Look(o)  PROVE OnceEnded
  BY <1>10 DEF Look, Goto, Quiet, Answers
<1>11. ASSUME NEW o \in Uploads, RenameNew(o)  PROVE OnceEnded
  BY <1>11 DEF RenameNew, Goto, Quiet, Published, Answers
<1>12. ASSUME NEW o \in Uploads, Protect(o)  PROVE OnceEnded
  BY <1>12 DEF Protect, Goto, Quiet, PutAside, Answers
<1>13. ASSUME NEW o \in Uploads, Replace(o)  PROVE OnceEnded
  BY <1>13 DEF Replace, Goto, Quiet, Published, Answers
<1>14. ASSUME NEW o \in Uploads, Unprotect(o)  PROVE OnceEnded
  BY <1>14 DEF Unprotect, Goto, Quiet, Answers
<1>15. ASSUME NEW o \in Uploads, PromoteFails(o)  PROVE OnceEnded
  BY <1>15 DEF PromoteFails, Fails
<1>16. ASSUME NEW o \in Uploads, RestoreOld(o)  PROVE OnceEnded
  BY <1>16 DEF RestoreOld, Fails
<1>17. ASSUME NEW o \in Uploads, Mark(o)  PROVE OnceEnded
  BY <1>17 DEF Mark, Goto
<1>18. ASSUME NEW o \in Ops, Cancel(o)  PROVE OnceEnded
  BY <1>18 DEF Cancel
<1>19. ASSUME NEW o \in Ops, CancelNext(o)  PROVE OnceEnded
  BY <1>19 DEF CancelNext
<1>20. ASSUME NEW o \in Ops, Receive(o)  PROVE OnceEnded
  BY <1>20 DEF Receive, Answers
<1>21. ASSUME NEW o \in Ops, Received(o)  PROVE OnceEnded
  BY <1>21 DEF Received, Goto
<1>22. ASSUME NEW o \in Ops, Publish(o)  PROVE OnceEnded
  BY <1>22 DEF Publish, Goto, Becomes
<1>23. ASSUME NEW o \in Ops, DownloadEnds(o)  PROVE OnceEnded
  BY <1>23 DEF DownloadEnds, Goto, Becomes
<1>24. ASSUME NEW o \in Uploads, NEW a \in Actors, TooLate(o, a)  PROVE OnceEnded
  BY <1>24 DEF TooLate
<1>25. ASSUME NEW o \in Uploads, NEW a \in Actors, Claim(o, a)  PROVE OnceEnded
  BY <1>25 DEF Claim, Becomes, SlotFree
<1>26. ASSUME NEW o \in Uploads, NEW a \in Actors, Clean(o, a)  PROVE OnceEnded
  BY <1>26 DEF Clean
<1>27. CASE Disconnect
  BY <1>27 DEF Disconnect
<1>28. CASE Close
  BY <1>28 DEF Close
<1>29. CASE SomebodySaves
  BY <1>29 DEF SomebodySaves
<1>30. CASE UNCHANGED vars
  BY <1>30
<1> QED BY <1>1, <1>2, <1>3, <1>4, <1>5, <1>6, <1>7, <1>8, <1>9, <1>10, <1>11, <1>12, <1>13,
    <1>14, <1>15, <1>16, <1>17, <1>18, <1>19, <1>20, <1>21, <1>22, <1>23, <1>24, <1>25, <1>26,
    <1>27, <1>28, <1>29, <1>30, Cases



LEMMA ContentStep ==
  ASSUME TypeOK, Placed, Renamed, Kept, [Next]_vars  PROVE Content => Content'
<1>t. /\ step \in [Ops -> Steps] /\ backup \in [Uploads -> Uploads \cup {None, "old"}]
      /\ target \in Uploads \cup {None, "old"}
  BY DEF TypeOK
<1> USE Kinds, <1>t DEF Placed, Content, vars, remoteVars, slotVars, sessionVars
<1>1. ASSUME NEW o \in Ops, Begin(o)  PROVE Content => Content'
  BY <1>1 DEF Begin, Goto
<1>2. ASSUME NEW o \in Ops, Register(o)  PROVE Content => Content'
  BY <1>2 DEF Register, Goto, Becomes, Answers
<1>3. ASSUME NEW o \in Ops, NotRegistered(o)  PROVE Content => Content'
  BY <1>3 DEF NotRegistered, Goto, Answers
<1>4. ASSUME NEW o \in Uploads, Chunk(o)  PROVE Content => Content'
  BY <1>4 DEF Chunk, Answers, SlotFree
<1>5. ASSUME NEW o \in Uploads, FeedFails(o)  PROVE Content => Content'
  BY <1>5 DEF FeedFails
<1>6. ASSUME NEW o \in Ops, Refused(o)  PROVE Content => Content'
  BY <1>6 DEF Refused, Goto, SlotFree
<1>7. ASSUME NEW o \in Ops, FinishFed(o)  PROVE Content => Content'
  BY <1>7 DEF FinishFed, Goto, SlotFree
<1>8. ASSUME NEW o \in Ops, CloseFed(o)  PROVE Content => Content'
  BY <1>8 DEF CloseFed
<1>9. ASSUME NEW o \in Ops, CloseDropped(o)  PROVE Content => Content'
  BY <1>9 DEF CloseDropped, Goto, SlotFree, Answers
<1>10. ASSUME NEW o \in Uploads, Look(o)  PROVE Content => Content'
  BY <1>10 DEF Look, Goto, Quiet, Answers
<1>11. ASSUME NEW o \in Uploads, RenameNew(o)  PROVE Content => Content'
  BY <1>11 DEF RenameNew, Goto, Quiet, Published, Answers
<1>12. ASSUME NEW o \in Uploads, Protect(o)  PROVE Content => Content'
  BY <1>12 DEF Protect, Goto, Quiet, PutAside, Answers
<1>13. ASSUME NEW o \in Uploads, Replace(o)  PROVE Content => Content'
  BY <1>13 DEF Replace, Goto, Quiet, Published, Answers
<1>14. ASSUME NEW o \in Uploads, Unprotect(o)  PROVE Content => Content'
  <2>1. step[o] = "unprotect" /\ UNCHANGED target
        /\ \A p \in Uploads : p # o => backup'[p] = backup[p]
    BY <1>14 DEF Unprotect
  <2>2. target # None \/ \E p \in Uploads : p # o /\ backup[p] # None
    BY <2>1 DEF Kept
  <2> QED BY <2>1, <2>2
<1>15. ASSUME NEW o \in Uploads, PromoteFails(o)  PROVE Content => Content'
  <2>1. UNCHANGED <<target, backup>> \/ target' # None \/ backup'[o] # None
    BY <1>15 DEF PromoteFails, Published, PutAside
  <2> QED BY <2>1
<1>16. ASSUME NEW o \in Uploads, RestoreOld(o)  PROVE Content => Content'
  <2>1. UNCHANGED <<target, backup>> \/ target' # None
    BY <1>16 DEF RestoreOld, Published, Renamed
  <2> QED BY <2>1
<1>17. ASSUME NEW o \in Uploads, Mark(o)  PROVE Content => Content'
  BY <1>17 DEF Mark
<1>18. ASSUME NEW o \in Ops, Cancel(o)  PROVE Content => Content'
  BY <1>18 DEF Cancel
<1>19. ASSUME NEW o \in Ops, CancelNext(o)  PROVE Content => Content'
  BY <1>19 DEF CancelNext
<1>20. ASSUME NEW o \in Ops, Receive(o)  PROVE Content => Content'
  BY <1>20 DEF Receive, Answers
<1>21. ASSUME NEW o \in Ops, Received(o)  PROVE Content => Content'
  BY <1>21 DEF Received, Goto
<1>22. ASSUME NEW o \in Ops, Publish(o)  PROVE Content => Content'
  BY <1>22 DEF Publish, Goto, Becomes
<1>23. ASSUME NEW o \in Ops, DownloadEnds(o)  PROVE Content => Content'
  BY <1>23 DEF DownloadEnds, Goto, Becomes
<1>24. ASSUME NEW o \in Uploads, NEW a \in Actors, TooLate(o, a)  PROVE Content => Content'
  BY <1>24 DEF TooLate
<1>25. ASSUME NEW o \in Uploads, NEW a \in Actors, Claim(o, a)  PROVE Content => Content'
  BY <1>25 DEF Claim
<1>26. ASSUME NEW o \in Uploads, NEW a \in Actors, Clean(o, a)  PROVE Content => Content'
  BY <1>26 DEF Clean
<1>27. CASE Disconnect
  BY <1>27 DEF Disconnect
<1>28. CASE Close
  BY <1>28 DEF Close
<1>29. CASE SomebodySaves
  BY <1>29 DEF SomebodySaves
<1>30. CASE UNCHANGED vars
  BY <1>30
<1> QED BY <1>1, <1>2, <1>3, <1>4, <1>5, <1>6, <1>7, <1>8, <1>9, <1>10, <1>11, <1>12, <1>13,
    <1>14, <1>15, <1>16, <1>17, <1>18, <1>19, <1>20, <1>21, <1>22, <1>23, <1>24, <1>25, <1>26,
    <1>27, <1>28, <1>29, <1>30, Cases


-------------------------------------------------------------------------------
LEMMA Initially == Init => IInv
<1> SUFFICES ASSUME Init PROVE IInv  OBVIOUS
<1> USE Kinds DEF Init
<1>1. TypeOK  BY SftpAssumption DEF TypeOK, Steps
<1>2. Placed /\ Aborting /\ Finishing  BY DEF Placed, Aborting, Finishing, Promoting
<1>3. Renamed /\ Cleaning /\ Kept /\ DoneIsTrue  BY DEF Renamed, Cleaning, Kept, DoneIsTrue
<1> QED BY <1>1, <1>2, <1>3 DEF IInv

LEMMA Inductive == IInv /\ [Next]_vars => IInv'
<1> SUFFICES ASSUME IInv, [Next]_vars PROVE IInv'  OBVIOUS
<1> USE DEF IInv
<1>1. TypeOK'  BY TypeStep
<1>2. Placed'  BY PlacedStep
<1>3. Aborting'  BY AbortingStep
<1>4. Finishing'  BY FinishingStep
<1>5. Renamed'  BY RenamedStep
<1>6. Cleaning'  BY CleaningStep
<1>7. Kept'  BY KeptStep
<1>8. DoneIsTrue'  BY DoneStep
<1> QED BY <1>1, <1>2, <1>3, <1>4, <1>5, <1>6, <1>7, <1>8

(* The invariant the other results rest on. *)
THEOREM InvariantHolds == Spec => []IInv
BY Initially, Inductive, PTL DEF Spec

(* Every variable of the transfers keeps its type. *)
THEOREM TypeCorrect == Spec => []TypeOK
<1>1. IInv => TypeOK  BY DEF IInv
<1> QED BY <1>1, InvariantHolds, PTL

(* What the list says of a transfer that ended is what happened to the files, *)
(* wherever cancels, errors and lost answers fall (finish_upload,             *)
(* abort_upload, promote_upload).                                             *)
THEOREM TerminalHolds == Spec => []TerminalIsTrue
<1>1. IInv => TerminalIsTrue
  <2> SUFFICES ASSUME IInv PROVE CancelledUntouched  BY DEF IInv, TerminalIsTrue
  <2> SUFFICES ASSUME NEW o \in Fed \ broken, state[o] = "cancelled"
               PROVE  o \notin published /\ backup[o] = None
    BY DEF CancelledUntouched
  <2>1. step[o] \notin Promoting  BY DEF IInv, Finishing
  <2> QED BY <2>1 DEF IInv, Renamed, Promoting
<1> QED BY <1>1, InvariantHolds, PTL

(* An upload at rest has left no staging file that nobody was told of         *)
(* (remove_staging_file).                                                     *)
THEOREM NoOrphanLeft == Spec => []NoOrphan
<1>1. IInv => NoOrphan
  <2> SUFFICES ASSUME IInv, NEW o \in Uploads, AtRest(o), state[o] # "running"
               PROVE  o \notin staging \/ o \in warned
    BY DEF NoOrphan
  <2> QED BY DEF IInv, Cleaning, AtRest
<1> QED BY <1>1, InvariantHolds, PTL

(* A transfer that ended, ended once: whoever claims it second changes        *)
(* nothing (abort_upload, mark_done).                                         *)
THEOREM EndIsFinal == Spec => EndsOnce
<1>1. IInv /\ [Next]_vars => OnceEnded
  BY EndsStep DEF IInv
<1>2. IInv /\ [Next]_vars => [OnceEnded]_vars
  BY <1>1
<1> QED BY <1>2, InvariantHolds, PTL DEF Spec, EndsOnce, OnceEnded

(* Once there is a content of the target, a whole one stays on the server,    *)
(* under the name or as a backup, whichever request fails (promote_upload).   *)
THEOREM ContentIsKept == Spec => ContentStays
<1>1. IInv /\ [Next]_vars => (Content => Content')
  BY ContentStep DEF IInv
<1>2. IInv /\ [Next]_vars => [Content => Content']_vars
  BY <1>1
<1> QED BY <1>2, InvariantHolds, PTL DEF Spec, ContentStays
==============================================================================
