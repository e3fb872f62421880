----------------------- MODULE SensitiveClipboardProofs -----------------------
(***************************************************************************)
(* Proofs about SensitiveClipboard, for any number of operations and texts. *)
(* The ticket gives one operation at a time its turn (InTurn); while nobody *)
(* is between writing and tracking, the record is that of the copy the      *)
(* clipboard still holds (Recorded), which is what a clear compares with.   *)
(***************************************************************************)
EXTENDS SensitiveClipboard, TLAPS

InTurn(o) == at[o] \in {"write", "track", "pick", "read", "check", "erase", "forget", "close",
                        "hung"}
InLine(o) == at[o] = "wait" \/ InTurn(o)

\* Which steps an operation of each kind can stand at.
Placed ==
  /\ \A o \in Ops : at[o] = "write" => o \in Copies \cup Writes
  /\ \A o \in Ops : at[o] = "track" => o \in Copies /\ arg[o].text \in Texts
  /\ \A o \in Ops : at[o] = "read" => o \in Reads \cup Clearing
  /\ \A o \in Ops : at[o] \in {"pick", "check", "erase", "forget"} => o \in Clearing

\* Tickets are distinct and called one after the other.
Ticketed ==
  /\ serving <= nextTicket
  /\ \A o \in Ops : InLine(o) => serving <= ticket[o] /\ ticket[o] < nextTicket
  /\ \A o \in Ops : InTurn(o) => ticket[o] = serving
  /\ \A o, p \in Ops : InLine(o) /\ InLine(p) /\ ticket[o] = ticket[p] => o = p

\* Generations tell the copies apart.
Numbered ==
  /\ \A c \in Copies : tracked[c] <= generation
  /\ \A c, d \in Copies : tracked[c] = tracked[d] /\ tracked[c] # 0 => c = d
  /\ tracker # None => tracker.gen # 0 /\ tracker.gen <= generation

\* The clipboard holds a copy only as long as the tracker has its record.
Recorded ==
  board.by \in Copies =>
    /\ board.text = arg[board.by].text
    /\ at[board.by] # "track" =>
         tracker # None /\ tracker = [gen |-> tracked[board.by], text |-> arg[board.by].text,
                                    auto |-> arg[board.by].auto]

\* What the operation whose turn it is may rely on.
Turned(o) ==
  /\ at[o] = "track" => board.by \in {o, None}
  /\ at[o] \in {"read", "check", "erase", "forget"} /\ o \in Clearing =>
       tracker # None /\ record[o] = tracker /\ (AutoOnly(o) => tracker.auto)
  /\ at[o] \in {"read", "check", "erase", "forget"} =>
       \A c \in Copies : o = Timer(c) => record[o].gen = tracked[c]
  /\ at[o] \in {"check", "erase"} /\ board.by # None => seen[o] = board.text
  /\ at[o] = "erase" => seen[o] = record[o].text
  /\ at[o] = "forget" => board.by \notin Copies

\* Who was admitted and has not left; and what the exit worker waited for.
Admitted ==
  /\ \A o \in Ops \ {Exit} : at[o] \notin {"unarmed", "idle", "over"} => o \in active
  /\ ~sealed => at[Exit] = "unarmed"
  /\ at[Exit] \in {"unarmed", "idle"} => outcome = None
  /\ at[Exit] \notin {"unarmed", "idle", "over"} => active = {}
  /\ outcome \in Done => active = {}

IInv ==
  /\ TypeOK /\ Placed /\ Ticketed /\ Numbered /\ Recorded /\ Admitted
  /\ \A o \in Ops : Turned(o)
  /\ NothingLeft
-------------------------------------------------------------------------------
LEMMA CopyIsOp == Copies \subseteq Ops /\ Exit \in Ops /\ Clearing \subseteq Ops
BY DEF Ops, Commands, Clearing

LEMMA Kinds ==
  /\ Copies \cap Clearing = {} /\ Writes \cap Clearing = {} /\ Reads \cap Clearing = {}
  /\ Exit \notin Copies \cup Writes \cup Reads /\ None \notin Ops
  /\ Ops = Copies \cup Writes \cup Reads \cup Clearing
BY ClipboardAssumption DEF Ops, Commands, Clearing

LEMMA TimersDiffer == \A c, d \in Copies : Timer(c) = Timer(d) => c = d
BY DEF Timer

LEMMA Cases ==
  Next <=> \/ \E o \in Ops : \/ TakeTicket(o) \/ TakeTurn(o) \/ CloseTurn(o) \/ Leave(o)
                             \/ WriteText(o) \/ (o \in Copies /\ Track(o))
                             \/ Pick(o) \/ ReadText(o) \/ Check(o) \/ Erase(o) \/ Cleared(o)
                             \/ CallFails(o) \/ CallHangs(o)
           \/ \E o \in Ops \ {Exit} : Begin(o) \/ BeginRefused(o)
           \/ OtherCopies \/ WaitIdle \/ GiveUp \/ Close \/ Restart
           \/ Awaited \/ MarkReady \/ RequestExit
BY DEF Next, Step, Turn, Copying, Clear, Call, Leaving

LEMMA TypeStep ==
  ASSUME TypeOK, Placed, [Next]_vars PROVE TypeOK'
<1> USE CopyIsOp, Kinds DEF TypeOK, Placed, Labels, Records, Done, vars, gateVars, trackVars,
    exitVars
<1>1. ASSUME NEW o \in Ops \ {Exit}, Begin(o) PROVE TypeOK'
  BY <1>1 DEF Begin, Goto
<1>2. ASSUME NEW o \in Ops \ {Exit}, BeginRefused(o) PROVE TypeOK'
  BY <1>2 DEF BeginRefused, Goto
<1>3. ASSUME NEW o \in Ops, TakeTicket(o) PROVE TypeOK'
  BY <1>3 DEF TakeTicket, Goto
<1>4. ASSUME NEW o \in Ops, TakeTurn(o) PROVE TypeOK'
  BY <1>4 DEF TakeTurn, Goto, Reports, FirstStep
<1>5. ASSUME NEW o \in Ops, CloseTurn(o) PROVE TypeOK'
  BY <1>5 DEF CloseTurn, Goto
<1>6. ASSUME NEW o \in Ops, Leave(o) PROVE TypeOK'
  BY <1>6 DEF Leave, Goto
<1>7. ASSUME NEW o \in Ops, WriteText(o) PROVE TypeOK'
  <2>1. PICK t \in Texts, auto \in BOOLEAN :
          /\ arg' = [arg EXCEPT ![o] = [text |-> t, auto |-> auto]]
          /\ board' = [text |-> t, by |-> o]
    BY <1>7 DEF WriteText
  <2>2. board' \in [text : Texts \cup Foreign \cup {None}, by : Ops \cup {None}]
    BY <2>1
  <2>3. arg' \in [Ops -> [text : Texts \cup {None}, auto : BOOLEAN]]
    BY <2>1
  <2>4. at' \in [Ops -> Labels]
    BY <1>7 DEF WriteText, Goto
  <2> QED BY <1>7, <2>2, <2>3, <2>4 DEF WriteText
<1>8. ASSUME NEW o \in Copies, Track(o) PROVE TypeOK'
  <2>1. at' \in [Ops -> Labels]  BY <1>8 DEF Track
  <2>2. tracked' \in [Copies -> Nat] /\ generation' \in Nat  BY <1>8 DEF Track
  <2>3. arg[o].text \in Texts /\ arg[o].auto \in BOOLEAN  BY <1>8 DEF Track
  <2>4. tracker' \in Records  BY <1>8, <2>3 DEF Track
  <2> QED BY <1>8, <2>1, <2>2, <2>4 DEF Track
<1>9. ASSUME NEW o \in Ops, Pick(o) PROVE TypeOK'
  BY <1>9 DEF Pick, Goto, Reports, Lookup
<1>10. ASSUME NEW o \in Ops, ReadText(o) PROVE TypeOK'
  BY <1>10 DEF ReadText, Goto
<1>11. ASSUME NEW o \in Ops, Check(o) PROVE TypeOK'
  BY <1>11 DEF Check, Goto, Forget, Reports, Holds
<1>12. ASSUME NEW o \in Ops, Erase(o) PROVE TypeOK'
  BY <1>12 DEF Erase, Goto
<1>13. ASSUME NEW o \in Ops, Cleared(o) PROVE TypeOK'
  BY <1>13 DEF Cleared, Goto, Forget, Reports
<1>14. ASSUME NEW o \in Ops, CallFails(o) PROVE TypeOK'
  BY <1>14 DEF CallFails, Goto, Reports
<1>15. ASSUME NEW o \in Ops, CallHangs(o) PROVE TypeOK'
  BY <1>15 DEF CallHangs, Goto
<1>16. CASE OtherCopies
  BY <1>16 DEF OtherCopies
<1>17. CASE WaitIdle
  BY <1>17 DEF WaitIdle, Goto
<1>18. CASE GiveUp
  BY <1>18 DEF GiveUp, Goto, Reports
<1>19. CASE Close
  <2>1. CASE Seal(FALSE)  BY <2>1 DEF Seal
  <2>2. CASE ready /\ Ends /\ UNCHANGED <<sealed, stage>>  BY <2>2 DEF Ends
  <2> QED BY <1>19, <2>1, <2>2 DEF Close
<1>20. CASE Restart
  <2>1. CASE Seal(TRUE)  BY <2>1 DEF Seal
  <2>2. CASE ready /\ Ends /\ UNCHANGED <<sealed, stage>>  BY <2>2 DEF Ends
  <2>3. CASE Unprepared  BY <2>3 DEF Unprepared, Ends
  <2> QED BY <1>20, <2>1, <2>2, <2>3 DEF Restart
<1>21. CASE Awaited
  BY <1>21 DEF Awaited
<1>22. CASE MarkReady
  BY <1>22 DEF MarkReady
<1>23. CASE RequestExit
  <2>1. stage' \in {"none", "await", "mark", "leave", "left"} /\ gone' \in BOOLEAN
    BY <1>23 DEF RequestExit, Ends
  <2>2. UNCHANGED <<board, at, arg, active, gateVars, trackVars, record, seen, sealed, ready,
                    restarting, outcome>>
    BY <1>23 DEF RequestExit, Ends
  <2> QED BY <2>1, <2>2
<1>24. CASE UNCHANGED vars
  BY <1>24
<1> QED BY <1>1, <1>2, <1>3, <1>4, <1>5, <1>6, <1>7, <1>8, <1>9, <1>10, <1>11, <1>12, <1>13,
    <1>14, <1>15, <1>16, <1>17, <1>18, <1>19, <1>20, <1>21, <1>22, <1>23, <1>24, CopyIsOp, Cases

LEMMA PlacedStep ==
  ASSUME TypeOK, Placed, [Next]_vars PROVE Placed'
<1> USE CopyIsOp, Kinds DEF TypeOK, Placed, vars, gateVars, trackVars, exitVars
<1>1. ASSUME NEW o \in Ops \ {Exit}, Begin(o) PROVE Placed'
  BY <1>1 DEF Begin, Goto
<1>2. ASSUME NEW o \in Ops \ {Exit}, BeginRefused(o) PROVE Placed'
  BY <1>2 DEF BeginRefused, Goto
<1>3. ASSUME NEW o \in Ops, TakeTicket(o) PROVE Placed'
  BY <1>3 DEF TakeTicket, Goto
<1>4. ASSUME NEW o \in Ops, TakeTurn(o) PROVE Placed'
  BY <1>4 DEF TakeTurn, Goto, Reports, FirstStep
<1>5. ASSUME NEW o \in Ops, CloseTurn(o) PROVE Placed'
  BY <1>5 DEF CloseTurn, Goto
<1>6. ASSUME NEW o \in Ops, Leave(o) PROVE Placed'
  BY <1>6 DEF Leave, Goto
<1>7. ASSUME NEW o \in Ops, WriteText(o) PROVE Placed'
  <2>1. PICK t \in Texts, auto \in BOOLEAN :
          arg' = [arg EXCEPT ![o] = [text |-> t, auto |-> auto]]
    BY <1>7 DEF WriteText
  <2>2. arg'[o].text \in Texts /\ \A p \in Ops : p # o => arg'[p] = arg[p]
    BY <2>1
  <2> QED BY <1>7, <2>2 DEF WriteText, Goto
<1>8. ASSUME NEW o \in Copies, Track(o) PROVE Placed'
  BY <1>8 DEF Track
<1>9. ASSUME NEW o \in Ops, Pick(o) PROVE Placed'
  BY <1>9 DEF Pick, Goto, Reports, Lookup
<1>10. ASSUME NEW o \in Ops, ReadText(o) PROVE Placed'
  BY <1>10 DEF ReadText, Goto
<1>11. ASSUME NEW o \in Ops, Check(o) PROVE Placed'
  BY <1>11 DEF Check, Goto, Forget, Reports, Holds
<1>12. ASSUME NEW o \in Ops, Erase(o) PROVE Placed'
  BY <1>12 DEF Erase, Goto
<1>13. ASSUME NEW o \in Ops, Cleared(o) PROVE Placed'
  BY <1>13 DEF Cleared, Goto, Forget, Reports
<1>14. ASSUME NEW o \in Ops, CallFails(o) PROVE Placed'
  BY <1>14 DEF CallFails, Goto, Reports
<1>15. ASSUME NEW o \in Ops, CallHangs(o) PROVE Placed'
  BY <1>15 DEF CallHangs, Goto
<1>16. CASE OtherCopies
  BY <1>16 DEF OtherCopies
<1>17. CASE WaitIdle
  BY <1>17 DEF WaitIdle, Goto
<1>18. CASE GiveUp
  BY <1>18 DEF GiveUp, Goto, Reports
<1>19. CASE Close
  BY <1>19 DEF Close, Seal, Ends
<1>20. CASE Restart
  BY <1>20 DEF Restart, Unprepared, Seal, Ends
<1>21. CASE Awaited
  BY <1>21 DEF Awaited
<1>22. CASE MarkReady
  BY <1>22 DEF MarkReady
<1>23. CASE RequestExit
  BY <1>23 DEF RequestExit, Ends
<1>24. CASE UNCHANGED vars
  BY <1>24
<1> QED BY <1>1, <1>2, <1>3, <1>4, <1>5, <1>6, <1>7, <1>8, <1>9, <1>10, <1>11, <1>12, <1>13,
    <1>14, <1>15, <1>16, <1>17, <1>18, <1>19, <1>20, <1>21, <1>22, <1>23, <1>24, CopyIsOp, Cases

LEMMA TicketStep ==
  ASSUME TypeOK, Ticketed, [Next]_vars PROVE Ticketed'
<1> USE CopyIsOp, Kinds DEF TypeOK, Ticketed, InLine, InTurn, vars, gateVars, trackVars,
    exitVars
<1>1. ASSUME NEW o \in Ops \ {Exit}, Begin(o) PROVE Ticketed'
  BY <1>1 DEF Begin, Goto
<1>2. ASSUME NEW o \in Ops \ {Exit}, BeginRefused(o) PROVE Ticketed'
  BY <1>2 DEF BeginRefused, Goto
<1>3. ASSUME NEW o \in Ops, TakeTicket(o) PROVE Ticketed'
  <2>1. at' = [at EXCEPT ![o] = "wait"] /\ ticket' = [ticket EXCEPT ![o] = nextTicket]
        /\ nextTicket' = nextTicket + 1 /\ UNCHANGED serving /\ at[o] = "enter"
    BY <1>3 DEF TakeTicket, Goto
  <2>2. ASSUME NEW p \in Ops PROVE InTurn(p)' => p # o /\ InTurn(p)
    BY <2>1
  <2>3. ASSUME NEW p \in Ops, p # o PROVE (InLine(p)' <=> InLine(p)) /\ ticket'[p] = ticket[p]
    BY <2>1, <2>3
  <2>4. ticket'[o] = nextTicket /\ nextTicket \in Nat /\ serving \in Nat
    BY <2>1
  <2>5. serving <= nextTicket /\ serving' <= nextTicket'
    BY <2>1, <2>4
  <2>6. ASSUME NEW p \in Ops, InLine(p)' PROVE serving' <= ticket'[p] /\ ticket'[p] < nextTicket'
    BY <2>1, <2>3, <2>4, <2>5, <2>6
  <2>7. ASSUME NEW p \in Ops, InTurn(p)' PROVE ticket'[p] = serving'
    BY <2>1, <2>2, <2>3, <2>7
  <2>8. ASSUME NEW p \in Ops, NEW q \in Ops, InLine(p)', InLine(q)', ticket'[p] = ticket'[q]
        PROVE p = q
    <3>1. CASE p # o /\ q # o  BY <2>3, <2>8, <3>1
    <3>2. CASE p = o /\ q # o  BY <2>3, <2>4, <2>8, <3>2
    <3>3. CASE p # o /\ q = o  BY <2>3, <2>4, <2>8, <3>3
    <3> QED BY <3>1, <3>2, <3>3
  <2> QED BY <2>5, <2>6, <2>7, <2>8, <2>1
<1>4. ASSUME NEW o \in Ops, TakeTurn(o) PROVE Ticketed'
  <2>1. at[o] = "wait" /\ ticket[o] = serving /\ UNCHANGED gateVars
    BY <1>4 DEF TakeTurn, Goto
  <2>2. ASSUME NEW p \in Ops PROVE (InLine(p)' <=> InLine(p)) /\ (InTurn(p)' => p = o \/ InTurn(p))
    BY <1>4 DEF TakeTurn, Goto, FirstStep
  <2> QED BY <2>1, <2>2
<1>5. ASSUME NEW o \in Ops, CloseTurn(o) PROVE Ticketed'
  <2>1. at' = [at EXCEPT ![o] = "leave"] /\ at[o] = "close" /\ serving' = serving + 1
        /\ UNCHANGED <<ticket, nextTicket>>
    BY <1>5 DEF CloseTurn, Goto
  <2>2. ASSUME NEW p \in Ops
        PROVE /\ InLine(p)' => p # o /\ InLine(p) /\ ticket[p] # ticket[o]
              /\ ~InTurn(p)'
    <3>1. CASE p = o  BY <2>1, <3>1
    <3>2. CASE p # o
      <4>1. at'[p] = at[p]  BY <2>1, <3>2
      <4>2. ~(InLine(p) /\ ticket[p] = ticket[o])  BY <2>1, <3>2
      <4>3. ~InTurn(p)  BY <2>1, <4>2
      <4> QED BY <3>2, <4>1, <4>2, <4>3
    <3> QED BY <3>1, <3>2
  <2>3. ticket[o] = serving /\ ticket[o] < nextTicket /\ serving \in Nat /\ nextTicket \in Nat
    BY <2>1
  <2>4. ASSUME NEW p \in Ops, InLine(p)' PROVE serving' <= ticket'[p] /\ ticket'[p] < nextTicket'
    <3>1. InLine(p) /\ ticket[p] # ticket[o] /\ ticket[p] \in Nat  BY <2>2, <2>4
    <3> QED BY <2>1, <2>3, <3>1
  <2> QED BY <2>1, <2>2, <2>3, <2>4
<1>6. ASSUME NEW o \in Ops, Leave(o) PROVE Ticketed'
  BY <1>6 DEF Leave, Goto
<1>7. ASSUME NEW o \in Ops, WriteText(o) PROVE Ticketed'
  BY <1>7 DEF WriteText, Goto
<1>8. ASSUME NEW o \in Copies, Track(o) PROVE Ticketed'
  BY <1>8 DEF Track
<1>9. ASSUME NEW o \in Ops, Pick(o) PROVE Ticketed'
  BY <1>9 DEF Pick, Goto, Reports, Lookup
<1>10. ASSUME NEW o \in Ops, ReadText(o) PROVE Ticketed'
  BY <1>10 DEF ReadText, Goto
<1>11. ASSUME NEW o \in Ops, Check(o) PROVE Ticketed'
  <2>1. at[o] = "check" /\ UNCHANGED gateVars
    BY <1>11 DEF Check, Goto
  <2>2. ASSUME NEW p \in Ops PROVE (InLine(p)' <=> InLine(p)) /\ (InTurn(p)' <=> InTurn(p))
    BY <1>11 DEF Check, Goto
  <2> QED BY <2>1, <2>2
<1>12. ASSUME NEW o \in Ops, Erase(o) PROVE Ticketed'
  BY <1>12 DEF Erase, Goto
<1>13. ASSUME NEW o \in Ops, Cleared(o) PROVE Ticketed'
  BY <1>13 DEF Cleared, Goto, Forget, Reports
<1>14. ASSUME NEW o \in Ops, CallFails(o) PROVE Ticketed'
  BY <1>14 DEF CallFails, Goto, Reports
<1>15. ASSUME NEW o \in Ops, CallHangs(o) PROVE Ticketed'
  BY <1>15 DEF CallHangs, Goto
<1>16. CASE OtherCopies
  BY <1>16 DEF OtherCopies
<1>17. CASE WaitIdle
  BY <1>17 DEF WaitIdle, Goto
<1>18. CASE GiveUp
  BY <1>18 DEF GiveUp, Goto, Reports
<1>19. CASE Close
  BY <1>19 DEF Close, Seal, Ends
<1>20. CASE Restart
  BY <1>20 DEF Restart, Unprepared, Seal, Ends
<1>21. CASE Awaited
  BY <1>21 DEF Awaited
<1>22. CASE MarkReady
  BY <1>22 DEF MarkReady
<1>23. CASE RequestExit
  BY <1>23 DEF RequestExit, Ends
<1>24. CASE UNCHANGED vars
  BY <1>24
<1> QED BY <1>1, <1>2, <1>3, <1>4, <1>5, <1>6, <1>7, <1>8, <1>9, <1>10, <1>11, <1>12, <1>13,
    <1>14, <1>15, <1>16, <1>17, <1>18, <1>19, <1>20, <1>21, <1>22, <1>23, <1>24, CopyIsOp, Cases

LEMMA NumberStep ==
  ASSUME TypeOK, Numbered, [Next]_vars PROVE Numbered'
<1> USE CopyIsOp, Kinds DEF TypeOK, Numbered, Records, vars, gateVars, trackVars, exitVars
<1>1. ASSUME NEW o \in Ops \ {Exit}, Begin(o) PROVE Numbered'
  BY <1>1 DEF Begin, Goto
<1>2. ASSUME NEW o \in Ops \ {Exit}, BeginRefused(o) PROVE Numbered'
  BY <1>2 DEF BeginRefused, Goto
<1>3. ASSUME NEW o \in Ops, TakeTicket(o) PROVE Numbered'
  BY <1>3 DEF TakeTicket, Goto
<1>4. ASSUME NEW o \in Ops, TakeTurn(o) PROVE Numbered'
  BY <1>4 DEF TakeTurn, Goto, Reports, FirstStep
<1>5. ASSUME NEW o \in Ops, CloseTurn(o) PROVE Numbered'
  BY <1>5 DEF CloseTurn, Goto
<1>6. ASSUME NEW o \in Ops, Leave(o) PROVE Numbered'
  BY <1>6 DEF Leave, Goto
<1>7. ASSUME NEW o \in Ops, WriteText(o) PROVE Numbered'
  BY <1>7 DEF WriteText, Goto
<1>8. ASSUME NEW o \in Copies, Track(o) PROVE Numbered'
  BY <1>8 DEF Track
<1>9. ASSUME NEW o \in Ops, Pick(o) PROVE Numbered'
  BY <1>9 DEF Pick, Goto, Reports, Lookup
<1>10. ASSUME NEW o \in Ops, ReadText(o) PROVE Numbered'
  BY <1>10 DEF ReadText, Goto
<1>11. ASSUME NEW o \in Ops, Check(o) PROVE Numbered'
  BY <1>11 DEF Check, Goto, Forget, Reports, Holds
<1>12. ASSUME NEW o \in Ops, Erase(o) PROVE Numbered'
  BY <1>12 DEF Erase, Goto
<1>13. ASSUME NEW o \in Ops, Cleared(o) PROVE Numbered'
  BY <1>13 DEF Cleared, Goto, Forget, Reports
<1>14. ASSUME NEW o \in Ops, CallFails(o) PROVE Numbered'
  BY <1>14 DEF CallFails, Goto, Reports
<1>15. ASSUME NEW o \in Ops, CallHangs(o) PROVE Numbered'
  BY <1>15 DEF CallHangs, Goto
<1>16. CASE OtherCopies
  BY <1>16 DEF OtherCopies
<1>17. CASE WaitIdle
  BY <1>17 DEF WaitIdle, Goto
<1>18. CASE GiveUp
  BY <1>18 DEF GiveUp, Goto, Reports
<1>19. CASE Close
  BY <1>19 DEF Close, Seal, Ends
<1>20. CASE Restart
  BY <1>20 DEF Restart, Unprepared, Seal, Ends
<1>21. CASE Awaited
  BY <1>21 DEF Awaited
<1>22. CASE MarkReady
  BY <1>22 DEF MarkReady
<1>23. CASE RequestExit
  BY <1>23 DEF RequestExit, Ends
<1>24. CASE UNCHANGED vars
  BY <1>24
<1> QED BY <1>1, <1>2, <1>3, <1>4, <1>5, <1>6, <1>7, <1>8, <1>9, <1>10, <1>11, <1>12, <1>13,
    <1>14, <1>15, <1>16, <1>17, <1>18, <1>19, <1>20, <1>21, <1>22, <1>23, <1>24, CopyIsOp, Cases


LEMMA Alone ==
  ASSUME Ticketed, NEW o \in Ops, NEW p \in Ops, InTurn(o), InTurn(p) PROVE o = p
BY DEF Ticketed, InLine

\* The record of a copy that the clipboard still holds is the tracker's, seen
\* by the operation whose turn it is.
LEMMA OwnRecord ==
  ASSUME TypeOK, Placed, Ticketed, Recorded, NEW o \in Clearing, InTurn(o),
         board.by \in Copies
  PROVE  /\ tracker # None
         /\ tracker = [gen |-> tracked[board.by], text |-> arg[board.by].text,
                       auto |-> arg[board.by].auto]
         /\ board.text = tracker.text
<1>1. board.by # o /\ o \in Ops /\ board.by \in Ops  BY CopyIsOp, Kinds
<1>2. at[board.by] # "track"  BY <1>1, Alone DEF InTurn
<1> QED BY <1>2 DEF Recorded

LEMMA RecordStep ==
  ASSUME TypeOK, Placed, Ticketed, Numbered, Recorded, \A p \in Ops : Turned(p),
         [Next]_vars PROVE Recorded'
<1> USE CopyIsOp, Kinds DEF TypeOK, Recorded, vars, gateVars, trackVars, exitVars
<1>1. ASSUME NEW o \in Ops \ {Exit}, Begin(o) PROVE Recorded'
  BY <1>1 DEF Begin, Goto
<1>2. ASSUME NEW o \in Ops \ {Exit}, BeginRefused(o) PROVE Recorded'
  BY <1>2 DEF BeginRefused, Goto
<1>3. ASSUME NEW o \in Ops, TakeTicket(o) PROVE Recorded'
  BY <1>3 DEF TakeTicket, Goto
<1>4. ASSUME NEW o \in Ops, TakeTurn(o) PROVE Recorded'
  BY <1>4 DEF TakeTurn, Goto, Reports, FirstStep
<1>5. ASSUME NEW o \in Ops, CloseTurn(o) PROVE Recorded'
  BY <1>5 DEF CloseTurn, Goto
<1>6. ASSUME NEW o \in Ops, Leave(o) PROVE Recorded'
  BY <1>6 DEF Leave, Goto
<1>7. ASSUME NEW o \in Ops, WriteText(o) PROVE Recorded'
  <2>1. PICK t \in Texts, auto \in BOOLEAN :
          /\ arg' = [arg EXCEPT ![o] = [text |-> t, auto |-> auto]]
          /\ board' = [text |-> t, by |-> o]
    BY <1>7 DEF WriteText
  <2>2. board'.by = o /\ board'.text = arg'[o].text  BY <2>1
  <2>3. o \in Copies => at'[o] = "track"  BY <1>7 DEF WriteText, Goto
  <2> QED BY <2>2, <2>3
<1>8. ASSUME NEW o \in Copies, Track(o) PROVE Recorded'
  <2>1. board.by \in {o, None}  BY <1>8 DEF Track, Turned
  <2>2. CASE board.by = o
    <3>1. tracked'[o] = generation + 1  BY <1>8 DEF Track
    <3>2. tracker' = [gen |-> tracked'[o], text |-> arg[o].text, auto |-> arg[o].auto]
      BY <1>8, <3>1 DEF Track
    <3>3. UNCHANGED <<board, arg>>  BY <1>8 DEF Track
    <3>4. arg[o].text \in Texts /\ arg[o].auto \in BOOLEAN /\ tracked'[o] \in Nat
      BY <1>8, <3>1 DEF Track, Placed
    <3>5. tracker' \in Records  BY <3>2, <3>4 DEF Records
    <3>6. tracker' # None  BY <3>5, ClipboardAssumption
    <3> QED BY <2>2, <3>2, <3>3, <3>6
  <2>3. CASE board.by = None  BY <1>8, <2>3 DEF Track
  <2> QED BY <2>1, <2>2, <2>3
<1>9. ASSUME NEW o \in Ops, Pick(o) PROVE Recorded'
  BY <1>9 DEF Pick, Goto, Reports, Lookup
<1>10. ASSUME NEW o \in Ops, ReadText(o) PROVE Recorded'
  BY <1>10 DEF ReadText, Goto
<1>11. ASSUME NEW o \in Ops, Check(o) PROVE Recorded'
  <2>1. o \in Clearing /\ InTurn(o)  BY <1>11 DEF Check, Placed, InTurn
  <2>2. ASSUME board.by \in Copies PROVE tracker' = tracker
    <3>1. tracker # None /\ board.text = tracker.text /\ seen[o] = board.text
      BY <1>11, <2>1, <2>2, OwnRecord DEF Check, Turned
    <3> QED BY <1>11, <3>1 DEF Check, Goto, Reports, Holds, Forget
  <2>3. UNCHANGED <<board, arg, tracked>> /\ \A p \in Ops : at'[p] # "track" => at[p] # "track"
    BY <1>11 DEF Check, Goto
  <2> QED BY <2>2, <2>3
<1>12. ASSUME NEW o \in Ops, Erase(o) PROVE Recorded'
  <2>1. o \in Clearing /\ board'.by = o  BY <1>12 DEF Erase, Goto, Placed
  <2> QED BY <2>1
<1>13. ASSUME NEW o \in Ops, Cleared(o) PROVE Recorded'
  <2>1. board.by \notin Copies /\ UNCHANGED board  BY <1>13 DEF Cleared, Goto, Turned
  <2> QED BY <2>1
<1>14. ASSUME NEW o \in Ops, CallFails(o) PROVE Recorded'
  BY <1>14 DEF CallFails, Goto, Reports
<1>15. ASSUME NEW o \in Ops, CallHangs(o) PROVE Recorded'
  BY <1>15 DEF CallHangs, Goto
<1>16. CASE OtherCopies
  BY <1>16 DEF OtherCopies
<1>17. CASE WaitIdle
  BY <1>17 DEF WaitIdle, Goto
<1>18. CASE GiveUp
  BY <1>18 DEF GiveUp, Goto, Reports
<1>19. CASE Close
  BY <1>19 DEF Close, Seal, Ends
<1>20. CASE Restart
  BY <1>20 DEF Restart, Unprepared, Seal, Ends
<1>21. CASE Awaited
  BY <1>21 DEF Awaited
<1>22. CASE MarkReady
  BY <1>22 DEF MarkReady
<1>23. CASE RequestExit
  BY <1>23 DEF RequestExit, Ends
<1>24. CASE UNCHANGED vars
  BY <1>24
<1> QED BY <1>1, <1>2, <1>3, <1>4, <1>5, <1>6, <1>7, <1>8, <1>9, <1>10, <1>11, <1>12, <1>13,
    <1>14, <1>15, <1>16, <1>17, <1>18, <1>19, <1>20, <1>21, <1>22, <1>23, <1>24, CopyIsOp, Cases

LEMMA TurnStep ==
  ASSUME TypeOK, Placed, Ticketed, Numbered, Recorded, \A p \in Ops : Turned(p),
         [Next]_vars PROVE \A p \in Ops : Turned(p)'
<1> USE CopyIsOp, Kinds DEF TypeOK, Placed, vars, gateVars, trackVars, exitVars
<1>1. ASSUME NEW o \in Ops \ {Exit}, Begin(o) PROVE \A p \in Ops : Turned(p)'
  <2>1. ASSUME NEW p \in Ops, p # o PROVE Turned(p)'
    BY <1>1, <2>1 DEF Begin, Goto, Turned, AutoOnly
  <2>2. Turned(o)'
    BY <1>1 DEF Begin, Goto, Turned, AutoOnly
  <2> QED BY <2>1, <2>2
<1>2. ASSUME NEW o \in Ops \ {Exit}, BeginRefused(o) PROVE \A p \in Ops : Turned(p)'
  <2>1. ASSUME NEW p \in Ops, p # o PROVE Turned(p)'
    BY <1>2, <2>1 DEF BeginRefused, Goto, Turned, AutoOnly
  <2>2. Turned(o)'
    BY <1>2 DEF BeginRefused, Goto, Turned, AutoOnly
  <2> QED BY <2>1, <2>2
<1>3. ASSUME NEW o \in Ops, TakeTicket(o) PROVE \A p \in Ops : Turned(p)'
  <2>1. ASSUME NEW p \in Ops, p # o PROVE Turned(p)'
    BY <1>3, <2>1 DEF TakeTicket, Goto, Turned, AutoOnly
  <2>2. Turned(o)'
    BY <1>3 DEF TakeTicket, Goto, Turned, AutoOnly
  <2> QED BY <2>1, <2>2
<1>4. ASSUME NEW o \in Ops, TakeTurn(o) PROVE \A p \in Ops : Turned(p)'
  <2>1. UNCHANGED <<board, trackVars, record, seen>>  BY <1>4 DEF TakeTurn
  <2>2. \A p \in Ops : p # o => at'[p] = at[p]  BY <1>4 DEF TakeTurn, Goto
  <2>3. at'[o] \in {"write", "read", "pick", "close"} /\ (at'[o] = "read" => o \in Reads)
    BY <1>4 DEF TakeTurn, Goto, FirstStep
  <2>4. ASSUME NEW p \in Ops, p # o PROVE Turned(p)'
    BY <2>1, <2>2, <2>4 DEF Turned, AutoOnly
  <2>5. \A c \in Copies : Timer(c) \in Clearing  BY DEF Clearing, Timers
  <2>6. Turned(o)'
    BY <2>3, <2>5 DEF Turned
  <2> QED BY <2>4, <2>6
<1>5. ASSUME NEW o \in Ops, CloseTurn(o) PROVE \A p \in Ops : Turned(p)'
  <2>1. ASSUME NEW p \in Ops, p # o PROVE Turned(p)'
    BY <1>5, <2>1 DEF CloseTurn, Goto, Turned, AutoOnly
  <2>2. Turned(o)'
    BY <1>5 DEF CloseTurn, Goto, Turned, AutoOnly
  <2> QED BY <2>1, <2>2
<1>6. ASSUME NEW o \in Ops, Leave(o) PROVE \A p \in Ops : Turned(p)'
  <2>1. UNCHANGED <<board, trackVars>> /\ at'[o] = "over"  BY <1>6 DEF Leave, Goto
  <2>2. \A p \in Ops : p # o => at'[p] = at[p]  BY <1>6 DEF Leave, Goto
  <2>3. \A p \in Clearing : p # o => record'[p] = record[p] /\ seen'[p] = seen[p]
    BY <1>6 DEF Leave
  <2>4. \A c \in Copies : Timer(c) \in Clearing  BY DEF Clearing, Timers
  <2>5. ASSUME NEW p \in Ops, p # o PROVE Turned(p)'
    <3>1. CASE p \in Clearing
      BY <2>1, <2>2, <2>3, <2>5, <3>1 DEF Turned, AutoOnly
    <3>2. CASE p \notin Clearing
      BY <2>1, <2>2, <2>4, <2>5, <3>2 DEF Turned
    <3> QED BY <3>1, <3>2
  <2>6. Turned(o)'  BY <2>1 DEF Turned
  <2> QED BY <2>5, <2>6
<1>7. ASSUME NEW o \in Ops, WriteText(o) PROVE \A p \in Ops : Turned(p)'
  <2>1. ASSUME NEW p \in Ops, p # o PROVE Turned(p)'
    <3>1. InTurn(o)  BY <1>7 DEF WriteText, Goto, InTurn
    <3>2. ~InTurn(p)  BY <2>1, <3>1, Alone
    <3>3. at'[p] \in {at[p], "idle"}  BY <1>7, <2>1 DEF WriteText, Goto
    <3> QED BY <3>2, <3>3 DEF Turned, InTurn
  <2>2. Turned(o)'
    <3>1. board'.by = o /\ at'[o] \in {"track", "close"}  BY <1>7 DEF WriteText, Goto
    <3> QED BY <3>1 DEF Turned
  <2> QED BY <2>1, <2>2
<1>8. ASSUME NEW o \in Copies, Track(o) PROVE \A p \in Ops : Turned(p)'
  <2>1. ASSUME NEW p \in Ops, p # o PROVE Turned(p)'
    <3>1. InTurn(o)  BY <1>8 DEF Track, InTurn
    <3>2. ~InTurn(p)  BY <2>1, <3>1, Alone
    <3>3. at'[p] \in {at[p], "idle"}  BY <1>8, <2>1 DEF Track
    <3> QED BY <3>2, <3>3 DEF Turned, InTurn
  <2>2. Turned(o)'
    <3>1. at'[o] = "close"  BY <1>8 DEF Track
    <3> QED BY <3>1 DEF Turned
  <2> QED BY <2>1, <2>2
<1>9. ASSUME NEW o \in Ops, Pick(o) PROVE \A p \in Ops : Turned(p)'
  <2>1. ASSUME NEW p \in Ops, p # o PROVE Turned(p)'
    <3>1. InTurn(o)  BY <1>9 DEF Pick, Goto, Reports, Lookup, InTurn
    <3>2. ~InTurn(p)  BY <2>1, <3>1, Alone
    <3>3. at'[p] \in {at[p], "idle"}  BY <1>9, <2>1 DEF Pick, Goto, Reports, Lookup
    <3> QED BY <3>2, <3>3 DEF Turned, InTurn
  <2>2. Turned(o)'
    <3>1. o \in Clearing /\ at'[o] \in {"close", "read"}  BY <1>9 DEF Pick, Goto, Placed
    <3>2. record'[o] = Lookup(o) /\ UNCHANGED <<board, trackVars>>  BY <1>9, <3>1 DEF Pick
    <3>3. CASE Lookup(o) = None  BY <1>9, <3>3, <3>1 DEF Pick, Goto, Turned
    <3>4. CASE Lookup(o) # None
      <4>1. at'[o] = "read"  BY <1>9, <3>4 DEF Pick, Goto
      <4>2. /\ tracker # None /\ Lookup(o) = tracker /\ (AutoOnly(o) => tracker.auto)
            /\ \A c \in Copies : o = Timer(c) => tracker.gen = tracked[c]
        BY <3>4 DEF Lookup
      <4> QED BY <3>2, <4>1, <4>2 DEF Turned, AutoOnly
    <3> QED BY <3>3, <3>4
  <2> QED BY <2>1, <2>2
<1>10. ASSUME NEW o \in Ops, ReadText(o) PROVE \A p \in Ops : Turned(p)'
  <2>1. ASSUME NEW p \in Ops, p # o PROVE Turned(p)'
    <3>1. InTurn(o)  BY <1>10 DEF ReadText, Goto, InTurn
    <3>2. ~InTurn(p)  BY <2>1, <3>1, Alone
    <3>3. at'[p] \in {at[p], "idle"}  BY <1>10, <2>1 DEF ReadText, Goto
    <3> QED BY <3>2, <3>3 DEF Turned, InTurn
  <2>2. Turned(o)'
    <3>1. CASE o \in Clearing
      <4>1. at[o] = "read" /\ at'[o] = "check" /\ seen'[o] = board.text
        BY <1>10, <3>1 DEF ReadText, Goto
      <4> QED BY <1>10, <3>1, <4>1 DEF ReadText, Turned, AutoOnly
    <3>2. CASE o \notin Clearing
      <4>1. at'[o] = "close"  BY <1>10, <3>2 DEF ReadText, Goto
      <4> QED BY <4>1 DEF Turned
    <3> QED BY <3>1, <3>2
  <2> QED BY <2>1, <2>2
<1>11. ASSUME NEW o \in Ops, Check(o) PROVE \A p \in Ops : Turned(p)'
  <2>1. ASSUME NEW p \in Ops, p # o PROVE Turned(p)'
    <3>1. InTurn(o)  BY <1>11 DEF Check, Goto, Forget, Reports, Holds, InTurn
    <3>2. ~InTurn(p)  BY <2>1, <3>1, Alone
    <3>3. at'[p] \in {at[p], "idle"}  BY <1>11, <2>1 DEF Check, Goto, Forget, Reports, Holds
    <3> QED BY <3>2, <3>3 DEF Turned, InTurn
  <2>2. Turned(o)'
    <3>1. at[o] = "check" /\ at'[o] \in {"close", "erase"} /\ o \in Clearing
      BY <1>11 DEF Check, Goto, Placed
    <3>2. CASE at'[o] = "close"  BY <3>2 DEF Turned
    <3>3. CASE at'[o] = "erase"
      <4>1. seen[o] = tracker.text /\ UNCHANGED tracker  BY <1>11, <3>3 DEF Check, Goto
      <4>2. tracker # None /\ record[o] = tracker  BY <3>1 DEF Turned
      <4> QED BY <1>11, <3>1, <3>3, <4>1, <4>2 DEF Check, Turned, AutoOnly
    <3> QED BY <3>1, <3>2, <3>3
  <2> QED BY <2>1, <2>2
<1>12. ASSUME NEW o \in Ops, Erase(o) PROVE \A p \in Ops : Turned(p)'
  <2>1. ASSUME NEW p \in Ops, p # o PROVE Turned(p)'
    <3>1. InTurn(o)  BY <1>12 DEF Erase, Goto, InTurn
    <3>2. ~InTurn(p)  BY <2>1, <3>1, Alone
    <3>3. at'[p] \in {at[p], "idle"}  BY <1>12, <2>1 DEF Erase, Goto
    <3> QED BY <3>2, <3>3 DEF Turned, InTurn
  <2>2. Turned(o)'
    <3>1. at[o] = "erase" /\ at'[o] = "forget" /\ board'.by = o /\ o \in Clearing
      BY <1>12 DEF Erase, Goto, Placed
    <3> QED BY <1>12, <3>1 DEF Erase, Turned, AutoOnly
  <2> QED BY <2>1, <2>2
<1>13. ASSUME NEW o \in Ops, Cleared(o) PROVE \A p \in Ops : Turned(p)'
  <2>1. ASSUME NEW p \in Ops, p # o PROVE Turned(p)'
    <3>1. InTurn(o)  BY <1>13 DEF Cleared, Goto, Forget, Reports, InTurn
    <3>2. ~InTurn(p)  BY <2>1, <3>1, Alone
    <3>3. at'[p] \in {at[p], "idle"}  BY <1>13, <2>1 DEF Cleared, Goto, Forget, Reports
    <3> QED BY <3>2, <3>3 DEF Turned, InTurn
  <2>2. Turned(o)'
    <3>1. at'[o] = "close"  BY <1>13 DEF Cleared, Goto
    <3> QED BY <3>1 DEF Turned
  <2> QED BY <2>1, <2>2
<1>14. ASSUME NEW o \in Ops, CallFails(o) PROVE \A p \in Ops : Turned(p)'
  <2>1. ASSUME NEW p \in Ops, p # o PROVE Turned(p)'
    BY <1>14, <2>1 DEF CallFails, Goto, Reports, Turned, AutoOnly
  <2>2. Turned(o)'
    BY <1>14 DEF CallFails, Goto, Reports, Turned, AutoOnly
  <2> QED BY <2>1, <2>2
<1>15. ASSUME NEW o \in Ops, CallHangs(o) PROVE \A p \in Ops : Turned(p)'
  <2>1. ASSUME NEW p \in Ops, p # o PROVE Turned(p)'
    BY <1>15, <2>1 DEF CallHangs, Goto, Turned, AutoOnly
  <2>2. Turned(o)'
    BY <1>15 DEF CallHangs, Goto, Turned, AutoOnly
  <2> QED BY <2>1, <2>2
<1>16. CASE OtherCopies
  <2>1. ASSUME NEW p \in Ops PROVE Turned(p)'
    BY <1>16 DEF OtherCopies, Turned, AutoOnly
  <2> QED BY <2>1
<1>17. CASE WaitIdle
  <2>1. ASSUME NEW p \in Ops PROVE Turned(p)'
    BY <1>17 DEF WaitIdle, Goto, Turned, AutoOnly
  <2> QED BY <2>1
<1>18. CASE GiveUp
  <2>1. ASSUME NEW p \in Ops PROVE Turned(p)'
    BY <1>18 DEF GiveUp, Goto, Reports, Turned, AutoOnly
  <2> QED BY <2>1
<1>19. CASE Close
  <2>1. UNCHANGED <<board, tracker, tracked, record, seen>>  BY <1>19 DEF Close, Seal, Ends
  <2>2. \A p \in Ops : at'[p] \in {at[p], "idle"}  BY <1>19 DEF Close, Seal, Ends
  <2> QED BY <2>1, <2>2 DEF Turned, AutoOnly
<1>20. CASE Restart
  <2>1. UNCHANGED <<board, tracker, tracked, record, seen>>
    BY <1>20 DEF Restart, Unprepared, Seal, Ends
  <2>2. \A p \in Ops : at'[p] \in {at[p], "idle"}  BY <1>20 DEF Restart, Unprepared, Seal, Ends
  <2> QED BY <2>1, <2>2 DEF Turned, AutoOnly
<1>21. CASE Awaited
  <2>1. ASSUME NEW p \in Ops PROVE Turned(p)'
    BY <1>21 DEF Awaited, Turned, AutoOnly
  <2> QED BY <2>1
<1>22. CASE MarkReady
  <2>1. ASSUME NEW p \in Ops PROVE Turned(p)'
    BY <1>22 DEF MarkReady, Turned, AutoOnly
  <2> QED BY <2>1
<1>23. CASE RequestExit
  <2>1. UNCHANGED <<at, board, tracker, tracked, record, seen>>  BY <1>23 DEF RequestExit, Ends
  <2> QED BY <2>1 DEF Turned, AutoOnly
<1>24. CASE UNCHANGED vars
  BY <1>24 DEF Turned, AutoOnly
<1> QED BY <1>1, <1>2, <1>3, <1>4, <1>5, <1>6, <1>7, <1>8, <1>9, <1>10, <1>11, <1>12, <1>13,
    <1>14, <1>15, <1>16, <1>17, <1>18, <1>19, <1>20, <1>21, <1>22, <1>23, <1>24, CopyIsOp, Cases

LEMMA AdmitStep ==
  ASSUME TypeOK, Placed, Admitted, [Next]_vars PROVE Admitted'
<1> USE CopyIsOp, Kinds DEF TypeOK, Done, Placed, Admitted, vars, gateVars, trackVars, exitVars
<1>1. ASSUME NEW o \in Ops \ {Exit}, Begin(o) PROVE Admitted'
  <2>1. ~sealed /\ active' = active \cup {o} /\ UNCHANGED <<sealed, outcome>>
        /\ at' = [at EXCEPT ![o] = "enter"]
    BY <1>1 DEF Begin, Goto
  <2>2. at[Exit] = "unarmed" /\ outcome = None /\ outcome \notin Done
    BY <2>1, ClipboardAssumption
  <2>3. at'[Exit] = at[Exit]  BY <2>1
  <2> QED BY <2>1, <2>2, <2>3
<1>2. ASSUME NEW o \in Ops \ {Exit}, BeginRefused(o) PROVE Admitted'
  BY <1>2 DEF BeginRefused, Goto
<1>3. ASSUME NEW o \in Ops, TakeTicket(o) PROVE Admitted'
  BY <1>3 DEF TakeTicket, Goto
<1>4. ASSUME NEW o \in Ops, TakeTurn(o) PROVE Admitted'
  <2>1. at[o] = "wait" /\ UNCHANGED <<active, exitVars>>  BY <1>4 DEF TakeTurn, Goto
  <2>2. at'[o] \notin {"unarmed", "idle", "over"} /\ \A p \in Ops : p # o => at'[p] = at[p]
    BY <1>4 DEF TakeTurn, Goto, FirstStep
  <2>3. outcome' = outcome \/ (o = Exit /\ outcome' = "unavailable")
    BY <1>4 DEF TakeTurn, Reports
  <2> QED BY <2>1, <2>2, <2>3
<1>5. ASSUME NEW o \in Ops, CloseTurn(o) PROVE Admitted'
  BY <1>5 DEF CloseTurn, Goto
<1>6. ASSUME NEW o \in Ops, Leave(o) PROVE Admitted'
  BY <1>6 DEF Leave, Goto
<1>7. ASSUME NEW o \in Ops, WriteText(o) PROVE Admitted'
  BY <1>7 DEF WriteText, Goto
<1>8. ASSUME NEW o \in Copies, Track(o) PROVE Admitted'
  <2>1. UNCHANGED <<active, exitVars, outcome>> /\ at[o] = "track" /\ at'[o] = "close"
    BY <1>8 DEF Track
  <2>2. Exit # o /\ Exit # Timer(o)  BY ClipboardAssumption DEF Timers, Commands
  <2>3. at'[Exit] = at[Exit]  BY <1>8, <2>2 DEF Track
  <2>4. \A p \in Ops : at'[p] \in {at[p], "idle",
      "close"} /\ (at'[p] = "close" => p = o \/ at[p] = "close")
    BY <1>8 DEF Track
  <2> QED BY <2>1, <2>3, <2>4
<1>9. ASSUME NEW o \in Ops, Pick(o) PROVE Admitted'
  BY <1>9 DEF Pick, Goto, Reports, Lookup
<1>10. ASSUME NEW o \in Ops, ReadText(o) PROVE Admitted'
  BY <1>10 DEF ReadText, Goto
<1>11. ASSUME NEW o \in Ops, Check(o) PROVE Admitted'
  <2>1. at[o] = "check" /\ UNCHANGED <<active, exitVars>>  BY <1>11 DEF Check, Goto
  <2>2. at'[o] \notin {"unarmed", "idle", "over"} /\ \A p \in Ops : p # o => at'[p] = at[p]
    BY <1>11 DEF Check, Goto
  <2>3. outcome' = outcome \/ (o = Exit /\ outcome' \in Done)
    BY <1>11 DEF Check, Reports, Done
  <2> QED BY <2>1, <2>2, <2>3
<1>12. ASSUME NEW o \in Ops, Erase(o) PROVE Admitted'
  BY <1>12 DEF Erase, Goto
<1>13. ASSUME NEW o \in Ops, Cleared(o) PROVE Admitted'
  BY <1>13 DEF Cleared, Goto, Forget, Reports
<1>14. ASSUME NEW o \in Ops, CallFails(o) PROVE Admitted'
  BY <1>14 DEF CallFails, Goto, Reports
<1>15. ASSUME NEW o \in Ops, CallHangs(o) PROVE Admitted'
  BY <1>15 DEF CallHangs, Goto
<1>16. CASE OtherCopies
  BY <1>16 DEF OtherCopies
<1>17. CASE WaitIdle
  BY <1>17 DEF WaitIdle, Goto
<1>18. CASE GiveUp
  BY <1>18 DEF GiveUp, Goto, Reports
<1>19. CASE Close
  <2>1. CASE Seal(FALSE)
    BY <2>1 DEF Seal
  <2>2. CASE ready /\ Ends /\ UNCHANGED <<sealed, stage>>  BY <2>2 DEF Ends
  <2> QED BY <1>19, <2>1, <2>2 DEF Close
<1>20. CASE Restart
  <2>1. CASE Seal(TRUE)
    BY <2>1 DEF Seal
  <2>2. CASE ready /\ Ends /\ UNCHANGED <<sealed, stage>>  BY <2>2 DEF Ends
  <2>3. CASE Unprepared  BY <2>3 DEF Unprepared, Ends
  <2> QED BY <1>20, <2>1, <2>2, <2>3 DEF Restart
<1>21. CASE Awaited
  BY <1>21 DEF Awaited
<1>22. CASE MarkReady
  BY <1>22 DEF MarkReady
<1>23. CASE RequestExit
  BY <1>23 DEF RequestExit, Ends
<1>24. CASE UNCHANGED vars
  BY <1>24
<1> QED BY <1>1, <1>2, <1>3, <1>4, <1>5, <1>6, <1>7, <1>8, <1>9, <1>10, <1>11, <1>12, <1>13,
    <1>14, <1>15, <1>16, <1>17, <1>18, <1>19, <1>20, <1>21, <1>22, <1>23, <1>24, CopyIsOp, Cases

\* Once the worker is at work every other operation has left.
LEMMA Quiet ==
  ASSUME Admitted, active = {}, NEW p \in Ops, p # Exit
  PROVE  at[p] \in {"unarmed", "idle", "over"}
BY DEF Admitted

LEMMA LeftStep ==
  ASSUME TypeOK, Placed, Ticketed, Recorded, Admitted, (\A p \in Ops : Turned(p)), NothingLeft,
         [Next]_vars PROVE NothingLeft'
<1> USE CopyIsOp, Kinds DEF TypeOK, Done, Placed, vars, gateVars, trackVars, exitVars
<1>1. ASSUME NEW o \in Ops \ {Exit}, Begin(o) PROVE NothingLeft'
  BY <1>1 DEF Begin, Goto, NothingLeft
<1>2. ASSUME NEW o \in Ops \ {Exit}, BeginRefused(o) PROVE NothingLeft'
  BY <1>2 DEF BeginRefused, Goto, NothingLeft
<1>3. ASSUME NEW o \in Ops, TakeTicket(o) PROVE NothingLeft'
  BY <1>3 DEF TakeTicket, Goto, NothingLeft
<1>4. ASSUME NEW o \in Ops, TakeTurn(o) PROVE NothingLeft'
  <2>1. UNCHANGED <<board, arg>> /\ outcome' \in {outcome, "unavailable"}
    BY <1>4 DEF TakeTurn, Goto, Reports, FirstStep
  <2> QED BY <2>1 DEF NothingLeft
<1>5. ASSUME NEW o \in Ops, CloseTurn(o) PROVE NothingLeft'
  BY <1>5 DEF CloseTurn, Goto, NothingLeft
<1>6. ASSUME NEW o \in Ops, Leave(o) PROVE NothingLeft'
  BY <1>6 DEF Leave, Goto, NothingLeft
<1>7. ASSUME NEW o \in Ops, WriteText(o) PROVE NothingLeft'
  <2>1. at[o] = "write" /\ o # Exit  BY <1>7 DEF WriteText, Goto
  <2>2. active # {}  BY <2>1, Quiet
  <2>3. outcome' \notin Done  BY <1>7, <2>2 DEF WriteText, Admitted
  <2> QED BY <2>3 DEF NothingLeft
<1>8. ASSUME NEW o \in Copies, Track(o) PROVE NothingLeft'
  BY <1>8 DEF Track, NothingLeft
<1>9. ASSUME NEW o \in Ops, Pick(o) PROVE NothingLeft'
  <2>1. UNCHANGED <<board, arg>>  BY <1>9 DEF Pick
  <2>2. CASE outcome' = outcome  BY <2>1, <2>2 DEF NothingLeft
  <2>3. CASE outcome' # outcome
    <3>1. o = Exit /\ Lookup(o) = None /\ at[o] = "pick"  BY <1>9, <2>3 DEF Pick, Goto, Reports
    <3>2. \A c \in Copies : o # Timer(c)  BY <3>1, ClipboardAssumption DEF Timers
    <3>3. tracker = None \/ ~tracker.auto  BY <3>1, <3>2 DEF Lookup, AutoOnly
    <3>4. board.by \in Copies => tracker.auto = arg[board.by].auto /\ tracker # None
      BY <3>1, OwnRecord DEF InTurn, Clearing
    <3> QED BY <2>1, <3>3, <3>4 DEF NothingLeft
  <2> QED BY <2>2, <2>3
<1>10. ASSUME NEW o \in Ops, ReadText(o) PROVE NothingLeft'
  BY <1>10 DEF ReadText, Goto, NothingLeft
<1>11. ASSUME NEW o \in Ops, Check(o) PROVE NothingLeft'
  <2>1. UNCHANGED <<board, arg>>  BY <1>11 DEF Check
  <2>2. CASE outcome' = outcome  BY <2>1, <2>2 DEF NothingLeft
  <2>3. CASE outcome' # outcome
    <3>1. o = Exit /\ at[o] = "check" /\ o \in Clearing /\ InTurn(o)
      BY <1>11, <2>3 DEF Check, Goto, Reports, InTurn, Clearing
    <3>2. Holds(o)  BY <3>1 DEF Holds, Turned
    <3>3. seen[o] # tracker.text  BY <1>11, <2>3, <3>2 DEF Check
    <3>4. board.by \in Copies => seen[o] = tracker.text
      <4>1. HAVE board.by \in Copies
      <4> QED BY <3>1, <4>1, OwnRecord DEF Turned
    <3> QED BY <2>1, <3>3, <3>4 DEF NothingLeft
  <2> QED BY <2>2, <2>3
<1>12. ASSUME NEW o \in Ops, Erase(o) PROVE NothingLeft'
  <2>1. board'.by \notin Copies  BY <1>12 DEF Erase, Goto
  <2> QED BY <2>1 DEF NothingLeft
<1>13. ASSUME NEW o \in Ops, Cleared(o) PROVE NothingLeft'
  <2>1. board.by \notin Copies /\ UNCHANGED board  BY <1>13 DEF Cleared, Goto, Turned
  <2> QED BY <2>1 DEF NothingLeft
<1>14. ASSUME NEW o \in Ops, CallFails(o) PROVE NothingLeft'
  <2>1. UNCHANGED <<board, arg>> /\ outcome' \in {outcome, "unavailable"}
    BY <1>14 DEF CallFails, Goto, Reports
  <2> QED BY <2>1 DEF NothingLeft
<1>15. ASSUME NEW o \in Ops, CallHangs(o) PROVE NothingLeft'
  BY <1>15 DEF CallHangs, Goto, NothingLeft
<1>16. CASE OtherCopies
  BY <1>16 DEF OtherCopies, NothingLeft
<1>17. CASE WaitIdle
  BY <1>17 DEF WaitIdle, Goto, NothingLeft
<1>18. CASE GiveUp
  <2>1. UNCHANGED <<board, arg>> /\ outcome' \in {outcome, "unavailable"}
    BY <1>18 DEF GiveUp, Goto, Reports
  <2> QED BY <2>1 DEF NothingLeft
<1>19. CASE Close
  <2>1. UNCHANGED <<board, arg, outcome>>  BY <1>19 DEF Close, Seal, Ends
  <2> QED BY <2>1 DEF NothingLeft
<1>20. CASE Restart
  <2>1. UNCHANGED <<board, arg, outcome>>  BY <1>20 DEF Restart, Unprepared, Seal, Ends
  <2> QED BY <2>1 DEF NothingLeft
<1>21. CASE Awaited
  BY <1>21 DEF Awaited, NothingLeft
<1>22. CASE MarkReady
  BY <1>22 DEF MarkReady, NothingLeft
<1>23. CASE RequestExit
  <2>1. UNCHANGED <<board, arg, outcome>>  BY <1>23 DEF RequestExit, Ends
  <2> QED BY <2>1 DEF NothingLeft
<1>24. CASE UNCHANGED vars
  BY <1>24 DEF NothingLeft
<1> QED BY <1>1, <1>2, <1>3, <1>4, <1>5, <1>6, <1>7, <1>8, <1>9, <1>10, <1>11, <1>12, <1>13,
    <1>14, <1>15, <1>16, <1>17, <1>18, <1>19, <1>20, <1>21, <1>22, <1>23, <1>24, CopyIsOp, Cases

-------------------------------------------------------------------------------
LEMMA Initially == Init => IInv
<1> SUFFICES ASSUME Init PROVE IInv  OBVIOUS
<1> USE CopyIsOp, Kinds DEF Init
<1>1. PICK called \in SUBSET Commands : at = [o \in Ops |-> IF o \in called THEN "idle" ELSE "unarmed"]
  OBVIOUS
<1>2. \A o \in Ops : at[o] \in {"idle", "unarmed"}  BY <1>1
<1>3. at[Exit] = "unarmed"  BY <1>1, ClipboardAssumption
<1>4. TypeOK  BY <1>1 DEF TypeOK, Labels
<1>5. Placed /\ Recorded  BY <1>2 DEF Placed, Recorded
<1>9. Ticketed
  <2>1. \A o \in Ops : ~InLine(o) /\ ~InTurn(o)  BY <1>2 DEF InLine, InTurn
  <2>2. serving <= nextTicket  OBVIOUS
  <2> QED BY <2>1, <2>2 DEF Ticketed
<1>6. Numbered  BY DEF Numbered
<1>7. \A o \in Ops : Turned(o)  BY <1>2 DEF Turned
<1>8. Admitted /\ NothingLeft
  BY <1>2, <1>3, ClipboardAssumption DEF Admitted, NothingLeft
<1> QED BY <1>4, <1>5, <1>6, <1>7, <1>8, <1>9 DEF IInv

LEMMA Inductive == IInv /\ [Next]_vars => IInv'
<1> SUFFICES ASSUME IInv, [Next]_vars PROVE IInv'  OBVIOUS
<1> USE DEF IInv
<1>1. TypeOK'  BY TypeStep
<1>2. Placed'  BY PlacedStep
<1>3. Ticketed'  BY TicketStep
<1>4. Numbered'  BY NumberStep
<1>5. Recorded'  BY RecordStep
<1>6. Admitted'  BY AdmitStep
<1>7. \A p \in Ops : Turned(p)'  BY TurnStep
<1>8. NothingLeft'  BY LeftStep
<1> QED BY <1>1, <1>2, <1>3, <1>4, <1>5, <1>6, <1>7, <1>8

(* The invariant the other results rest on. *)
THEOREM InvariantHolds == Spec => []IInv
BY Initially, Inductive, PTL DEF Spec

(* Every variable of the clipboard keeps its type. *)
THEOREM TypeCorrect == Spec => []TypeOK
<1>1. IInv => TypeOK  BY DEF IInv
<1> QED BY <1>1, InvariantHolds, PTL

(* The exit worker, when it says it is done, leaves no copy that was to be   *)
(* cleared in the clipboard, and none is put there any more                  *)
(* (clear_auto_on_exit_timeboxed, seal_for_exit).                            *)
THEOREM NothingIsLeft == Spec => []NothingLeft
<1>1. IInv => NothingLeft  BY DEF IInv
<1> QED BY <1>1, InvariantHolds, PTL

(* A clear erases the text of the record it looked up and the copy of that   *)
(* record's generation only; a timer no copy but its own                     *)
(* (clear_matching_with_io).                                                 *)
THEOREM OnlyItsOwn == Spec => ErasesItsOwn
<1> DEFINE Step1 == \A o \in Clearing : board'.by = o /\ board # board' /\ board.by # None =>
               /\ board.text = record[o].text
               /\ board.by \in Copies => tracked[board.by] = record[o].gen
               /\ \A c \in Copies : o = Timer(c) => board.by \notin Copies \ {c}
<1>1. IInv /\ [Next]_vars => Step1
  <2> SUFFICES ASSUME IInv, [Next]_vars, NEW o \in Clearing, board'.by = o, board # board',
                      board.by # None
               PROVE  /\ board.text = record[o].text
                      /\ board.by \in Copies => tracked[board.by] = record[o].gen
                      /\ \A c \in Copies : o = Timer(c) => board.by \notin Copies \ {c}
    OBVIOUS
  <2> USE CopyIsOp, Kinds DEF IInv
  <2>1. Next /\ o \in Ops  BY DEF vars
  <2>2. Erase(o)
    <3> USE DEF gateVars, trackVars, exitVars
    <3>1. ASSUME NEW p \in Ops, Erase(p) PROVE p = o  BY <3>1 DEF Erase
    <3>2. ASSUME NEW p \in Ops, WriteText(p) PROVE FALSE
      <4>1. board'.by = p /\ p \in Copies \cup Writes  BY <3>2 DEF WriteText, Goto, Placed
      <4> QED BY <4>1
    <3>3. ASSUME NEW p \in Ops, \/ TakeTicket(p) \/ TakeTurn(p) \/ CloseTurn(p) \/ Leave(p)
                                \/ (p \in Copies /\ Track(p)) \/ Pick(p) \/ ReadText(p) \/ Check(p)
                                \/ Cleared(p) \/ CallFails(p) \/ CallHangs(p) \/ Begin(p)
                                \/ BeginRefused(p)
          PROVE FALSE
      BY <3>3 DEF TakeTicket, TakeTurn, CloseTurn, Leave, Track, Pick, ReadText, Check, Cleared,
                  CallFails, CallHangs, Begin, BeginRefused
    <3>4. ~OtherCopies  BY DEF OtherCopies
    <3>5. ~(WaitIdle \/ GiveUp \/ Close \/ Restart \/ Awaited \/ MarkReady \/ RequestExit)
      BY DEF WaitIdle, GiveUp, Close, Restart, Unprepared, Seal, Ends, Awaited, MarkReady,
             RequestExit
    <3> QED BY <2>1, <3>1, <3>2, <3>3, <3>4, <3>5, Cases
  <2>3. at[o] = "erase" /\ InTurn(o)  BY <2>2 DEF Erase, Goto, InTurn
  <2>4. /\ seen[o] = board.text /\ seen[o] = record[o].text /\ tracker # None
        /\ record[o] = tracker
        /\ \A c \in Copies : o = Timer(c) => record[o].gen = tracked[c]
    BY <2>1, <2>3 DEF Turned
  <2>5. board.by \in Copies => tracked[board.by] = record[o].gen /\ tracked[board.by] # 0
    <3>1. HAVE board.by \in Copies
    <3>2. tracker.gen = tracked[board.by]  BY <2>3, <3>1, OwnRecord
    <3> QED BY <2>4, <3>2 DEF Numbered
  <2>6. ASSUME NEW c \in Copies, o = Timer(c), board.by \in Copies PROVE board.by = c
    BY <2>4, <2>5, <2>6 DEF Numbered
  <2> QED BY <2>4, <2>5, <2>6
<1>2. IInv /\ [Next]_vars => [Step1]_vars  BY <1>1
<1> QED BY <1>2, InvariantHolds, PTL DEF Spec, ErasesItsOwn
-------------------------------------------------------------------------------
(* Nobody waits for a turn that nobody has, and the exit is not put off.     *)

\* A ticket that was drawn and not given back is held by an operation in line.
TicketHeld(n) ==
  serving <= n /\ n < nextTicket => \E o \in Ops : InLine(o) /\ ticket[o] = n
TurnsHeld == \A n \in Nat : TicketHeld(n)

\* A copy arms its timer when it is tracked, and not before.
Armed(c) ==
  at[c] \in {"unarmed", "idle", "enter", "wait", "write", "track"} => at[Timer(c)] = "unarmed"

\* Whoever won the seal is about to ask for an exit that is not put off.
ExitDue ==
  /\ ~sealed => stage = "none"
  /\ sealed /\ ~gone => stage \in {"await", "mark"} \/ (stage = "leave" /\ ready)

LEMMA ArmedStep ==
  ASSUME TypeOK, NEW d \in Copies, Armed(d), [Next]_vars
  PROVE  Armed(d)'
<1> USE CopyIsOp, Kinds DEF TypeOK, Labels, Armed, vars, gateVars, exitVars
<1>0. /\ Timer(d) \in Ops /\ Timer(d) # Exit /\ d # Exit
      /\ \A c \in Copies : Timer(d) # c /\ Timer(c) # d
  BY ClipboardAssumption DEF Timers, Ops, Commands, Clearing
<1>1. ASSUME NEW o \in Ops \ {Exit}, Begin(o)
      PROVE  Armed(d)'
  BY <1>0, TimersDiffer, <1>1 DEF Begin, Goto
<1>2. ASSUME NEW o \in Ops \ {Exit}, BeginRefused(o)
      PROVE  Armed(d)'
  BY <1>0, TimersDiffer, <1>2 DEF BeginRefused, Goto
<1>3. ASSUME NEW o \in Ops, TakeTicket(o)
      PROVE  Armed(d)'
  BY <1>0, TimersDiffer, <1>3 DEF TakeTicket, Goto
<1>4. ASSUME NEW o \in Ops, TakeTurn(o)
      PROVE  Armed(d)'
  BY <1>0, TimersDiffer, <1>4 DEF TakeTurn, Goto, FirstStep
<1>5. ASSUME NEW o \in Ops, CloseTurn(o)
      PROVE  Armed(d)'
  BY <1>0, TimersDiffer, <1>5 DEF CloseTurn, Goto
<1>6. ASSUME NEW o \in Ops, Leave(o)
      PROVE  Armed(d)'
  BY <1>0, TimersDiffer, <1>6 DEF Leave, Goto
<1>7. ASSUME NEW o \in Ops, WriteText(o)
      PROVE  Armed(d)'
  BY <1>0, TimersDiffer, <1>7 DEF WriteText, Goto
<1>8. ASSUME NEW c \in Copies, Track(c)
      PROVE  Armed(d)'
  <2>1. CASE c = d
    BY <1>0, <1>8, <2>1 DEF Track
  <2>2. CASE c # d
    <3>1. Timer(c) # Timer(d)
      BY TimersDiffer, <2>2
    <3>2. at'[d] = at[d] /\ at'[Timer(d)] = at[Timer(d)]
      BY <1>0, <1>8, <2>2, <3>1 DEF Track
    <3> QED BY <3>2
  <2> QED BY <2>1, <2>2
<1>9. ASSUME NEW o \in Ops, Pick(o)
      PROVE  Armed(d)'
  BY <1>0, TimersDiffer, <1>9 DEF Pick, Goto
<1>10. ASSUME NEW o \in Ops, ReadText(o)
      PROVE  Armed(d)'
  BY <1>0, TimersDiffer, <1>10 DEF ReadText, Goto
<1>11. ASSUME NEW o \in Ops, Check(o)
      PROVE  Armed(d)'
  BY <1>0, TimersDiffer, <1>11 DEF Check, Goto
<1>12. ASSUME NEW o \in Ops, Erase(o)
      PROVE  Armed(d)'
  BY <1>0, TimersDiffer, <1>12 DEF Erase, Goto
<1>13. ASSUME NEW o \in Ops, Cleared(o)
      PROVE  Armed(d)'
  BY <1>0, TimersDiffer, <1>13 DEF Cleared, Goto
<1>14. ASSUME NEW o \in Ops, CallFails(o)
      PROVE  Armed(d)'
  BY <1>0, TimersDiffer, <1>14 DEF CallFails, Goto
<1>15. ASSUME NEW o \in Ops, CallHangs(o)
      PROVE  Armed(d)'
  BY <1>0, TimersDiffer, <1>15 DEF CallHangs, Goto
<1>16. CASE OtherCopies
  BY <1>0, TimersDiffer, <1>16 DEF OtherCopies
<1>17. CASE WaitIdle
  BY <1>0, TimersDiffer, <1>17 DEF WaitIdle, Goto
<1>18. CASE GiveUp
  BY <1>0, TimersDiffer, <1>18 DEF GiveUp, Goto
<1>19. CASE Close
  BY <1>0, TimersDiffer, <1>19 DEF Close, Seal, Ends
<1>20. CASE Restart
  BY <1>0, TimersDiffer, <1>20 DEF Restart, Unprepared, Seal, Ends
<1>21. CASE Awaited
  BY <1>0, TimersDiffer, <1>21 DEF Awaited
<1>22. CASE MarkReady
  BY <1>0, TimersDiffer, <1>22 DEF MarkReady
<1>23. CASE RequestExit
  BY <1>0, TimersDiffer, <1>23 DEF RequestExit, Ends
<1>24. CASE UNCHANGED vars
  BY <1>0, TimersDiffer, <1>24
<1> QED BY <1>1, <1>2, <1>3, <1>4, <1>5, <1>6, <1>7, <1>8, <1>9, <1>10, <1>11, <1>12,
    <1>13, <1>14, <1>15, <1>16, <1>17, <1>18, <1>19, <1>20, <1>21, <1>22, <1>23, <1>24, Cases

LEMMA TicketHeldStep ==
  ASSUME TypeOK, Ticketed, Admitted, Placed, \A c \in Copies : Armed(c),
         NEW n \in Nat, TicketHeld(n), serving' <= n, n < nextTicket', [Next]_vars
  PROVE  \E p \in Ops : InLine(p)' /\ ticket'[p] = n
<1> USE CopyIsOp, Kinds DEF TypeOK, Labels, InLine, InTurn, vars, gateVars, exitVars
<1>0. ASSUME UNCHANGED <<serving, nextTicket>>
      PROVE  \E p \in Ops : InLine(p) /\ ticket[p] = n
  BY <1>0 DEF TicketHeld
<1>1. ASSUME NEW o \in Ops \ {Exit}, Begin(o)
      PROVE  \E p \in Ops : InLine(p)' /\ ticket'[p] = n
  BY <1>0, <1>1 DEF Begin, Goto
<1>2. ASSUME NEW o \in Ops \ {Exit}, BeginRefused(o)
      PROVE  \E p \in Ops : InLine(p)' /\ ticket'[p] = n
  BY <1>0, <1>2 DEF BeginRefused, Goto
<1>3. ASSUME NEW o \in Ops, TakeTicket(o)
      PROVE  \E p \in Ops : InLine(p)' /\ ticket'[p] = n
  <2>1. CASE n = nextTicket
    BY <1>3, <2>1 DEF TakeTicket, Goto
  <2>2. CASE n # nextTicket
    <3>1. serving <= n /\ n < nextTicket
      BY <1>3, <2>2 DEF TakeTicket
    <3>2. PICK p \in Ops : InLine(p) /\ ticket[p] = n
      BY <3>1 DEF TicketHeld
    <3>3. p # o
      BY <1>3, <3>2 DEF TakeTicket, Goto
    <3>4. InLine(p)' /\ ticket'[p] = n
      BY <1>3, <3>2, <3>3 DEF TakeTicket, Goto
    <3> QED BY <3>4
  <2> QED BY <2>1, <2>2
<1>4. ASSUME NEW o \in Ops, TakeTurn(o)
      PROVE  \E p \in Ops : InLine(p)' /\ ticket'[p] = n
  BY <1>0, <1>4 DEF TakeTurn, Goto, FirstStep
<1>5. ASSUME NEW o \in Ops, CloseTurn(o)
      PROVE  \E p \in Ops : InLine(p)' /\ ticket'[p] = n
  <2>1. serving <= n /\ n < nextTicket /\ n # serving
    BY <1>5 DEF CloseTurn
  <2>2. PICK p \in Ops : InLine(p) /\ ticket[p] = n
    BY <2>1 DEF TicketHeld
  <2>3. ticket[o] = serving
    BY <1>5 DEF CloseTurn, Goto, Ticketed
  <2>4. InLine(p)' /\ ticket'[p] = n
    BY <1>5, <2>1, <2>2, <2>3 DEF CloseTurn, Goto
  <2> QED BY <2>4
<1>6. ASSUME NEW o \in Ops, Leave(o)
      PROVE  \E p \in Ops : InLine(p)' /\ ticket'[p] = n
  BY <1>0, <1>6 DEF Leave, Goto
<1>7. ASSUME NEW o \in Ops, WriteText(o)
      PROVE  \E p \in Ops : InLine(p)' /\ ticket'[p] = n
  BY <1>0, <1>7 DEF WriteText, Goto
<1>8. ASSUME NEW c \in Copies, Track(c)
      PROVE  \E p \in Ops : InLine(p)' /\ ticket'[p] = n
  <2>1. UNCHANGED <<serving, nextTicket, ticket>>
    BY <1>8 DEF Track
  <2>2. PICK p \in Ops : InLine(p) /\ ticket[p] = n
    BY <1>0, <2>1
  <2>3. at[Timer(c)] = "unarmed"
    BY <1>8 DEF Track, Armed
  <2>4. p # Timer(c)
    BY <2>2, <2>3
  <2>5. at'[p] = IF p = c THEN "close" ELSE at[p]
    BY <1>8, <2>4 DEF Track
  <2> QED BY <2>1, <2>2, <2>5
<1>9. ASSUME NEW o \in Ops, Pick(o)
      PROVE  \E p \in Ops : InLine(p)' /\ ticket'[p] = n
  BY <1>0, <1>9 DEF Pick, Goto
<1>10. ASSUME NEW o \in Ops, ReadText(o)
      PROVE  \E p \in Ops : InLine(p)' /\ ticket'[p] = n
  BY <1>0, <1>10 DEF ReadText, Goto
<1>11. ASSUME NEW o \in Ops, Check(o)
      PROVE  \E p \in Ops : InLine(p)' /\ ticket'[p] = n
  BY <1>0, <1>11 DEF Check, Goto
<1>12. ASSUME NEW o \in Ops, Erase(o)
      PROVE  \E p \in Ops : InLine(p)' /\ ticket'[p] = n
  BY <1>0, <1>12 DEF Erase, Goto
<1>13. ASSUME NEW o \in Ops, Cleared(o)
      PROVE  \E p \in Ops : InLine(p)' /\ ticket'[p] = n
  BY <1>0, <1>13 DEF Cleared, Goto
<1>14. ASSUME NEW o \in Ops, CallFails(o)
      PROVE  \E p \in Ops : InLine(p)' /\ ticket'[p] = n
  BY <1>0, <1>14 DEF CallFails, Goto
<1>15. ASSUME NEW o \in Ops, CallHangs(o)
      PROVE  \E p \in Ops : InLine(p)' /\ ticket'[p] = n
  BY <1>0, <1>15 DEF CallHangs, Goto
<1>16. CASE OtherCopies
  BY <1>0, <1>16 DEF OtherCopies
<1>17. CASE WaitIdle
  BY <1>0, <1>17 DEF WaitIdle, Goto
<1>18. CASE GiveUp
  BY <1>0, <1>18 DEF GiveUp, Goto
<1>19. CASE Close
  <2>1. UNCHANGED <<serving, nextTicket, ticket>>
    BY <1>19 DEF Close, Seal, Ends
  <2>2. PICK p \in Ops : InLine(p) /\ ticket[p] = n
    BY <1>0, <2>1
  <2>3. UNCHANGED at \/ (at[Exit] = "unarmed" /\ at' = [at EXCEPT ![Exit] = "idle"])
    BY <1>19 DEF Close, Seal, Ends, Admitted
  <2>4. at'[p] = at[p]
    BY <2>2, <2>3
  <2> QED BY <2>1, <2>2, <2>4
<1>20. CASE Restart
  <2>1. UNCHANGED <<serving, nextTicket, ticket>>
    BY <1>20 DEF Restart, Unprepared, Seal, Ends
  <2>2. PICK p \in Ops : InLine(p) /\ ticket[p] = n
    BY <1>0, <2>1
  <2>3. UNCHANGED at \/ (at[Exit] = "unarmed" /\ at' = [at EXCEPT ![Exit] = "idle"])
    BY <1>20 DEF Restart, Unprepared, Seal, Ends, Admitted
  <2>4. at'[p] = at[p]
    BY <2>2, <2>3
  <2> QED BY <2>1, <2>2, <2>4
<1>21. CASE Awaited
  BY <1>0, <1>21 DEF Awaited
<1>22. CASE MarkReady
  BY <1>0, <1>22 DEF MarkReady
<1>23. CASE RequestExit
  BY <1>0, <1>23 DEF RequestExit, Ends
<1>24. CASE UNCHANGED vars
  BY <1>0, <1>24
<1> QED BY <1>1, <1>2, <1>3, <1>4, <1>5, <1>6, <1>7, <1>8, <1>9, <1>10, <1>11, <1>12,
    <1>13, <1>14, <1>15, <1>16, <1>17, <1>18, <1>19, <1>20, <1>21, <1>22, <1>23, <1>24, Cases

LEMMA ExitDueStep ==
  ASSUME TypeOK, ExitDue, [Next]_vars
  PROVE  ExitDue'
<1> USE CopyIsOp, Kinds DEF TypeOK, ExitDue, vars, gateVars, exitVars
<1>1. ASSUME NEW o \in Ops \ {Exit}, Begin(o)
      PROVE  ExitDue'
  BY <1>1 DEF Begin, Goto
<1>2. ASSUME NEW o \in Ops \ {Exit}, BeginRefused(o)
      PROVE  ExitDue'
  BY <1>2 DEF BeginRefused, Goto
<1>3. ASSUME NEW o \in Ops, TakeTicket(o)
      PROVE  ExitDue'
  BY <1>3 DEF TakeTicket, Goto
<1>4. ASSUME NEW o \in Ops, TakeTurn(o)
      PROVE  ExitDue'
  BY <1>4 DEF TakeTurn, Goto, FirstStep
<1>5. ASSUME NEW o \in Ops, CloseTurn(o)
      PROVE  ExitDue'
  BY <1>5 DEF CloseTurn, Goto
<1>6. ASSUME NEW o \in Ops, Leave(o)
      PROVE  ExitDue'
  BY <1>6 DEF Leave, Goto
<1>7. ASSUME NEW o \in Ops, WriteText(o)
      PROVE  ExitDue'
  BY <1>7 DEF WriteText, Goto
<1>8. ASSUME NEW c \in Copies, Track(c)
      PROVE  ExitDue'
  BY <1>8 DEF Track
<1>9. ASSUME NEW o \in Ops, Pick(o)
      PROVE  ExitDue'
  BY <1>9 DEF Pick, Goto
<1>10. ASSUME NEW o \in Ops, ReadText(o)
      PROVE  ExitDue'
  BY <1>10 DEF ReadText, Goto
<1>11. ASSUME NEW o \in Ops, Check(o)
      PROVE  ExitDue'
  BY <1>11 DEF Check, Goto
<1>12. ASSUME NEW o \in Ops, Erase(o)
      PROVE  ExitDue'
  BY <1>12 DEF Erase, Goto
<1>13. ASSUME NEW o \in Ops, Cleared(o)
      PROVE  ExitDue'
  BY <1>13 DEF Cleared, Goto
<1>14. ASSUME NEW o \in Ops, CallFails(o)
      PROVE  ExitDue'
  BY <1>14 DEF CallFails, Goto
<1>15. ASSUME NEW o \in Ops, CallHangs(o)
      PROVE  ExitDue'
  BY <1>15 DEF CallHangs, Goto
<1>16. CASE OtherCopies
  BY <1>16 DEF OtherCopies
<1>17. CASE WaitIdle
  BY <1>17 DEF WaitIdle, Goto
<1>18. CASE GiveUp
  BY <1>18 DEF GiveUp, Goto
<1>19. CASE Close
  BY <1>19 DEF Close, Seal, Ends
<1>20. CASE Restart
  BY <1>20 DEF Restart, Unprepared, Seal, Ends
<1>21. CASE Awaited
  BY <1>21 DEF Awaited
<1>22. CASE MarkReady
  BY <1>22 DEF MarkReady
<1>23. CASE RequestExit
  BY <1>23 DEF RequestExit, Ends
<1>24. CASE UNCHANGED vars
  BY <1>24
<1> QED BY <1>1, <1>2, <1>3, <1>4, <1>5, <1>6, <1>7, <1>8, <1>9, <1>10, <1>11, <1>12,
    <1>13, <1>14, <1>15, <1>16, <1>17, <1>18, <1>19, <1>20, <1>21, <1>22, <1>23, <1>24, Cases

LEMMA Heldfast ==
  IInv /\ TurnsHeld /\ ExitDue /\ (\A c \in Copies : Armed(c)) /\ [Next]_vars
    => (TurnsHeld /\ ExitDue /\ \A c \in Copies : Armed(c))'
<1> SUFFICES ASSUME IInv, TurnsHeld, ExitDue, \A c \in Copies : Armed(c), [Next]_vars
             PROVE  (TurnsHeld /\ ExitDue /\ \A c \in Copies : Armed(c))'
  OBVIOUS
<1>1. ExitDue'
  BY ExitDueStep DEF IInv
<1>2. ASSUME NEW c \in Copies
      PROVE  Armed(c)'
  BY ArmedStep DEF IInv
<1>3. ASSUME NEW n \in Nat
      PROVE  TicketHeld(n)'
  <2>1. TicketHeld(n)
    BY DEF TurnsHeld
  <2> QED BY <2>1, TicketHeldStep DEF IInv, TicketHeld
<1> QED BY <1>1, <1>2, <1>3 DEF TurnsHeld

(* Every ticket from the one that is called to the last one drawn is held by  *)
(* an operation that waits for its turn or has it: an operation in line never *)
(* waits behind one that has left (ClipboardIoGate).  And once the clipboard  *)
(* is sealed the application is about to ask for an exit that prevent_exit    *)
(* does not stop (seal_for_exit, exit_ready).  The safety half of AllEnd.     *)
THEOREM NobodyWaitsInVain == Spec => [](TurnsHeld /\ ExitDue)
<1>1. Init => TurnsHeld /\ ExitDue /\ \A c \in Copies : Armed(c)
  <2> SUFFICES ASSUME Init
               PROVE  TurnsHeld /\ ExitDue /\ \A c \in Copies : Armed(c)
    OBVIOUS
  <2>1. TurnsHeld
    BY DEF Init, TurnsHeld, TicketHeld
  <2>2. ExitDue
    BY DEF Init, ExitDue
  <2>3. ASSUME NEW c \in Copies
        PROVE  at[Timer(c)] = "unarmed"
    BY ClipboardAssumption DEF Init, Ops, Timers
  <2> QED BY <2>1, <2>2, <2>3 DEF Armed
<1> QED BY <1>1, Heldfast, InvariantHolds, PTL DEF Spec
===============================================================================
