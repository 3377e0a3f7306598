---------------------------- MODULE Loops_proofs ----------------------------
(***************************************************************************)
(* Proofs about AccountLoops, for any number of moods and faults: types,   *)
(* the row against the loops, the spacing of logins, and what it takes to  *)
(* believe a rejection.                                                    *)
(***************************************************************************)
EXTENDS AccountLoops, TLAPS

USE LoopsAssumption DEF maxAuthFailures, maxProbeFailures

-----------------------------------------------------------------------------
(* Types. *)

LEMMA AnswersTyped ==
  ASSUME TypeOK
  PROVE  LoginAnswers \subseteq Failures \cup {"ok"} /\ SessionAnswers \subseteq Failures \cup {"ok"}
         /\ CommandAnswers \subseteq Failures \cup {"ok"}
<1>1. mood \in {"ok", "offline", "throttling", "refusing", "vague", "revoked"}
  BY DEF TypeOK, Moods
<1>2. LoginAnswers \subseteq Failures \cup {"ok"} /\ CommandAnswers \subseteq Failures \cup {"ok"}
  BY <1>1 DEF LoginAnswers, CommandAnswers, Failures
<1> QED
  BY <1>2 DEF SessionAnswers, Failures

\* A loop's record, field by field and moved.
LEMMA CmdTyped ==
  ASSUME TypeOK
  PROVE  /\ cmd.pc \in CmdPcs /\ cmd.err \in Errs /\ cmd.v \in Verdicts
         /\ \A pc \in CmdPcs, err \in Errs, v \in Verdicts :
              /\ [cmd EXCEPT !.pc = pc] \in [pc : CmdPcs, err : Errs, v : Verdicts]
              /\ [cmd EXCEPT !.pc = pc, !.v = v] \in [pc : CmdPcs, err : Errs, v : Verdicts]
              /\ [cmd EXCEPT !.pc = pc, !.err = err] \in [pc : CmdPcs, err : Errs, v : Verdicts]
              /\ [cmd EXCEPT !.pc = pc, !.err = err, !.v = v] \in [pc : CmdPcs, err : Errs, v : Verdicts]
BY DEF TypeOK

LEMMA IdleTyped ==
  ASSUME TypeOK
  PROVE  /\ idle.pc \in IdlePcs /\ idle.err \in Errs
         /\ \A pc \in IdlePcs, err \in Errs :
              /\ [idle EXCEPT !.pc = pc] \in [pc : IdlePcs, err : Errs]
              /\ [idle EXCEPT !.pc = pc, !.err = err] \in [pc : IdlePcs, err : Errs]
BY DEF TypeOK

LEMMA ClassifyTyped == \A err \in Errs : Classify(err) \in Verdicts \ {"none"}
BY DEF Classify, Errs, Failures, Verdicts

-----------------------------------------------------------------------------
(* The invariant.                                                          *)

\* What the command loop's place says of its runtime and of its probes.
PlaceInv ==
  /\ reg = "none" => cmd.pc = "off" /\ idle.pc = "off"
  /\ cmd.pc \notin {"serving", "closing"} => probes = 0
  /\ cmd.pc = "serving" => probes < maxProbeFailures

LEMMA TypeInitial == Init => TypeOK /\ PlaceInv
<1> SUFFICES ASSUME Init PROVE TypeOK /\ PlaceInv
  OBVIOUS
<1>1. cmd \in [pc : CmdPcs, err : Errs, v : Verdicts] /\ idle \in [pc : IdlePcs, err : Errs]
  BY DEF Init, CmdOff, IdleOff, CmdPcs, IdlePcs, Ends, Errs, Verdicts
<1>2. catalog \in BOOLEAN /\ dot \in BOOLEAN /\ news \in BOOLEAN /\ spaced \in BOOLEAN
  BY Zenon DEF Init
<1>3. handlers \in [create : {"idle", "inserted"}, delete : {"idle", "stopped"}]
  BY DEF Init
<1>4. PlaceInv
  BY DEF Init, PlaceInv, CmdOff, IdleOff
<1> QED
  BY <1>1, <1>2, <1>3, <1>4 DEF Init, TypeOK, Moods

LEMMA TypeStep == TypeOK /\ PlaceInv /\ [Next]_vars => TypeOK' /\ PlaceInv'
<1> SUFFICES ASSUME TypeOK, PlaceInv, [Next]_vars PROVE TypeOK' /\ PlaceInv'
  OBVIOUS
<1> USE DEF TypeOK, PlaceInv, CmdPcs, IdlePcs, Ends, Errs, Failures, Verdicts, Stored
<1>1. CASE CmdTop
  BY <1>1 DEF CmdTop, SetStatus, AtTop, userVars, observers
<1>2. CASE CmdLogin
  <2>1. PICK answer \in LoginAnswers :
          /\ cmd' = IF answer = "ok" THEN [cmd EXCEPT !.pc = "authenticated"]
                                     ELSE [cmd EXCEPT !.pc = "failed", !.err = answer]
          /\ sock' = IF answer = "ok" THEN "good" ELSE "none"
          /\ Struck(answer)
    BY <1>2 DEF CmdLogin
  <2>2. answer \in Failures \cup {"ok"}
    BY AnswersTyped
  <2>3. cmd' \in [pc : CmdPcs, err : Errs, v : Verdicts] /\ cmd'.pc = IF answer = "ok" THEN "authenticated" ELSE "failed"
    BY <2>1, <2>2
  <2>4. strikes' \in 0 .. maxAuthFailures
    BY <2>1 DEF Struck, Saturating
  <2> QED
    <3>1. /\ spaced' \in BOOLEAN
          /\ UNCHANGED <<mood, idle, probes, rejections, catalog, reg, row, handlers, news, dot, causes>>
      BY <1>2, Zenon DEF CmdLogin, userVars
    <3>2. sock' \in {"none", "good"} /\ (cmd.pc = "login" /\ probes = 0 /\ reg # "none")
      BY <1>2, <2>1 DEF CmdLogin
    <3> QED
      BY <2>3, <2>4, <3>1, <3>2
<1>3. CASE CmdFailed
  <2>1. Classify(cmd.err) \in Verdicts
    BY ClassifyTyped
  <2>2. cmd' = [cmd EXCEPT !.pc = IF sock = "none" THEN "report" ELSE "closing",
                           !.err = "none", !.v = Classify(cmd.err)]
    BY <1>3 DEF CmdFailed
  <2>3. cmd' \in [pc : CmdPcs, err : Errs, v : Verdicts] /\ cmd'.pc = IF sock = "none" THEN "report" ELSE "closing"
    <3>1. CASE sock = "none"
      BY <2>1, <2>2, <3>1
    <3>2. CASE sock # "none"
      BY <2>1, <2>2, <3>2
    <3> QED
      BY <3>1, <3>2
  <2>4. rejections' \in 0 .. maxAuthFailures
    BY <1>3 DEF CmdFailed, Counted, Saturating
  <2>5. UNCHANGED <<mood, idle, sock, probes, catalog, reg, row, handlers, userVars, observers>>
    BY <1>3 DEF CmdFailed
  <2> QED
    BY <1>3, <2>3, <2>4, <2>5 DEF CmdFailed, userVars, observers
<1>4. CASE CmdReport
  BY <1>4 DEF CmdReport, SetStatus, StatusOf, observers
<1>5. CASE CmdWait
  <2>1. cmd' \in [pc : CmdPcs, err : Errs, v : Verdicts] /\ cmd'.pc \in {"top", "done"}
    BY <1>5 DEF CmdWait, AtTop
  <2> QED
    BY <1>5, <2>1 DEF CmdWait, userVars
<1>6. CASE CmdAuthenticated
  BY <1>6 DEF CmdAuthenticated, SetStatus, userVars, observers
<1>7. CASE CmdCatalogFails
  <2>1. cmd' \in [pc : CmdPcs, err : Errs, v : Verdicts] /\ cmd'.pc = "closing"
    BY <1>7 DEF CmdCatalogFails
  <2>2. UNCHANGED <<mood, idle, sock, probes, rejections, catalog, reg, row, handlers, userVars, observers>>
    BY <1>7 DEF CmdCatalogFails
  <2> QED
    BY <1>7, <2>1, <2>2 DEF CmdCatalogFails, userVars, observers
<1>8. CASE CmdOpening
  <2>1. PICK answer \in SessionAnswers :
          /\ cmd' = IF answer = "ok" THEN [cmd EXCEPT !.pc = "announce"]
                                     ELSE [cmd EXCEPT !.pc = "failed", !.err = answer]
          /\ strikes' = IF answer = "auth" THEN Saturating(strikes) ELSE strikes
    BY <1>8 DEF CmdOpening
  <2>2. answer \in Failures \cup {"ok"}
    BY AnswersTyped
  <2>3. cmd' \in [pc : CmdPcs, err : Errs, v : Verdicts] /\ cmd'.pc \in {"announce", "failed"}
    BY <2>1, <2>2
  <2>4. strikes' \in 0 .. maxAuthFailures
    BY <2>1 DEF Saturating
  <2> QED
    BY <1>8, <2>3, <2>4 DEF CmdOpening, userVars
<1>9. CASE CmdAnnounce
  BY <1>9 DEF CmdAnnounce, SetStatus
<1>10. CASE CmdClose
  BY <1>10 DEF CmdClose, AtTop, userVars, observers
<1>11. CASE CmdProbe
  BY <1>11 DEF CmdProbe, userVars, observers
<1>12. CASE CmdSyncFails
  BY <1>12 DEF CmdSyncFails, userVars, observers
<1>13. CASE CmdEnd
  BY <1>13 DEF CmdEnd, userVars, observers
<1>14. CASE IdleLogin
  <2>1. PICK answer \in LoginAnswers :
          /\ idle' = IF answer = "ok" THEN [idle EXCEPT !.pc = "authenticated"]
                                      ELSE [idle EXCEPT !.pc = "failed", !.err = answer]
          /\ Struck(answer)
    BY <1>14 DEF IdleLogin
  <2>2. answer \in Failures \cup {"ok"}
    BY AnswersTyped
  <2>3. idle' \in [pc : IdlePcs, err : Errs]
    BY <2>1, <2>2
  <2>4. strikes' \in 0 .. maxAuthFailures
    BY <2>1 DEF Struck, Saturating
  <2> QED
    BY <1>14, <2>3, <2>4 DEF IdleLogin, IdleOnly, userVars
<1>15. CASE IdleAuthenticated
  BY <1>15 DEF IdleAuthenticated, IdleOnly, userVars
<1>16. CASE IdleInbox
  BY <1>16 DEF IdleInbox, IdleOnly, AtTop, userVars
<1>17. CASE IdleSelect
  <2>1. PICK answer \in CommandAnswers :
          /\ \/ answer # "ok" /\ idle' = [idle EXCEPT !.pc = "failed", !.err = answer]
             \/ answer = "ok" /\ idle' = [idle EXCEPT !.pc = "idling"]
          /\ strikes' = IF answer = "auth" THEN Saturating(strikes) ELSE strikes
    BY <1>17 DEF IdleSelect
  <2>2. answer \in Failures \cup {"ok"}
    BY AnswersTyped
  <2>3. idle' \in [pc : IdlePcs, err : Errs]
    BY <2>1, <2>2
  <2>4. strikes' \in 0 .. maxAuthFailures
    BY <2>1 DEF Saturating
  <2> QED
    BY <1>17, <2>3, <2>4 DEF IdleSelect, IdleOnly, userVars
<1>18. CASE IdleFailed
  <2>1. idle' \in [pc : IdlePcs, err : Errs]
    BY <1>18 DEF IdleFailed
  <2> QED
    BY <1>18, <2>1 DEF IdleFailed, IdleOnly, Counted, Saturating, userVars
<1>19. CASE IdleWait
  BY <1>19 DEF IdleWait, IdleOnly, AtTop, userVars
<1>20. CASE IdleEnd
  BY <1>20 DEF IdleEnd, IdleOnly, AtTop, userVars
<1>21. CASE CmdPanics
  <2>1. cmd' \in [pc : CmdPcs, err : Errs, v : Verdicts] /\ cmd'.pc = "panicked"
    BY <1>21 DEF CmdPanics
  <2> QED
    BY <1>21, <2>1 DEF CmdPanics, userVars
<1>22. CASE IdlePanics
  BY <1>22 DEF IdlePanics, userVars
<1>23. CASE PanicReport
  BY <1>23 DEF PanicReport
<1>24. CASE PanicStop
  BY <1>24 DEF PanicStop, StopAccount, userVars, observers
<1>25. CASE CreateRow
  BY <1>25 DEF CreateRow, loopVars, userVars, observers
<1>26. CASE CreateStarts
  BY <1>26 DEF CreateStarts, StartAccount, userVars, observers, CmdOff, IdleOff
<1>27. CASE DeleteStops
  BY <1>27 DEF DeleteStops, StopAccount, userVars, observers
<1>28. CASE DeleteRow
  <2>1. handlers' \in [create : {"idle", "inserted"}, delete : {"idle", "stopped"}]
    BY <1>28 DEF DeleteRow
  <2>2. causes' \subseteq {"panicked", "overtaken", "deleteFailed", "shutdown"}
    BY <1>28 DEF DeleteRow
  <2> QED
    <3>1. /\ row' = "none" /\ catalog' \in BOOLEAN
          /\ UNCHANGED <<mood, cmd, idle, sock, probes, rejections, reg, news, dot, strikes, spaced>>
      BY <1>28, Zenon DEF DeleteRow, userVars
    <3> QED
      BY <2>1, <2>2, <3>1
<1>29. CASE DeleteFails
  BY <1>29 DEF DeleteFails, loopVars, userVars
<1>30. CASE Stop
  BY <1>30 DEF Stop, StopAccount, userVars
<1>31. CASE Restart
  BY <1>31 DEF Restart, CmdOff, IdleOff
<1>32. CASE MoodChanges
  BY <1>32 DEF MoodChanges, loopVars, userVars
<1>33. CASE SocketFails
  BY <1>33 DEF SocketFails, userVars
<1>34. CASE Reread
  <2>1. dot' \in BOOLEAN /\ news' \in BOOLEAN
    BY <1>34, Zenon DEF Reread
  <2> QED
    BY <1>34, <2>1 DEF Reread, loopVars, observers
<1>35. CASE UNCHANGED vars
  BY <1>35 DEF vars, loopVars, userVars, observers
<1> QED
  BY <1>1, <1>2, <1>3, <1>4, <1>5, <1>6, <1>7, <1>8, <1>9, <1>10, <1>11, <1>12, <1>13, <1>14, <1>15, <1>16, <1>17, <1>18, <1>19, <1>20, <1>21, <1>22, <1>23, <1>24, <1>25, <1>26, <1>27, <1>28, <1>29, <1>30, <1>31, <1>32, <1>33, <1>34, <1>35 DEF Next, CmdStep, IdleStep, RecoverStep

\* The command loop has waited, or has done its work, whenever it is about to log in.
SpacedInv ==
  /\ cmd.pc \in {"off", "top", "login", "serving"} => spaced
  /\ cmd.pc = "closing" /\ cmd.v = "none" => spaced

LEMMA SpacedStep == TypeOK /\ PlaceInv /\ SpacedInv /\ [Next]_vars => SpacedInv'
<1> SUFFICES ASSUME TypeOK, PlaceInv, SpacedInv, [Next]_vars PROVE SpacedInv'
  OBVIOUS
<1> USE DEF TypeOK, PlaceInv, SpacedInv
<1>1. CASE CmdTop
  BY <1>1 DEF CmdTop, SetStatus, AtTop, userVars, observers
<1>2. CASE CmdLogin
  BY <1>2 DEF CmdLogin, Struck, userVars, Saturating
<1>3. CASE CmdFailed
  <2>1. cmd' = [cmd EXCEPT !.pc = IF sock = "none" THEN "report" ELSE "closing",
                           !.err = "none", !.v = Classify(cmd.err)] /\ Classify(cmd.err) # "none"
    BY <1>3, ClassifyTyped DEF CmdFailed, TypeOK
  <2> QED
    BY <2>1 DEF TypeOK
<1>4. CASE CmdReport
  BY <1>4 DEF CmdReport, SetStatus, StatusOf, observers
<1>5. CASE CmdWait
  BY <1>5 DEF CmdWait, AtTop, userVars
<1>6. CASE CmdAuthenticated
  BY <1>6 DEF CmdAuthenticated, SetStatus, userVars, observers
<1>7. CASE CmdCatalogFails
  BY <1>7 DEF CmdCatalogFails, userVars, observers
<1>8. CASE CmdOpening
  BY <1>8 DEF CmdOpening, Saturating, userVars
<1>9. CASE CmdAnnounce
  BY <1>9 DEF CmdAnnounce, SetStatus
<1>10. CASE CmdClose
  BY <1>10 DEF CmdClose, AtTop, userVars, observers
<1>11. CASE CmdProbe
  BY <1>11 DEF CmdProbe, userVars, observers
<1>12. CASE CmdSyncFails
  BY <1>12 DEF CmdSyncFails, userVars, observers
<1>13. CASE CmdEnd
  BY <1>13 DEF CmdEnd, userVars, observers
<1>14. CASE CmdPanics
  BY <1>14 DEF CmdPanics, userVars
<1>15. CASE PanicReport
  BY <1>15 DEF PanicReport
<1>16. CASE PanicStop
  BY <1>16 DEF PanicStop, StopAccount, userVars, observers
<1>17. CASE CreateStarts
  BY <1>17 DEF CreateStarts, StartAccount, userVars, observers, CmdOff, IdleOff
<1>18. CASE Restart
  BY <1>18 DEF Restart, CmdOff, IdleOff
<1>19. CASE IdleLogin \/ IdleAuthenticated \/ IdleInbox \/ IdleSelect \/ IdleFailed \/ IdleWait
     \/ IdleEnd \/ IdlePanics \/ CreateRow \/ DeleteStops \/ DeleteRow \/ DeleteFails \/ Stop \/
     MoodChanges \/ SocketFails \/ Reread \/ UNCHANGED vars
  <2>1. UNCHANGED <<cmd, spaced>>
    BY <1>19 DEF IdleLogin, IdleOnly, Struck, userVars, Saturating, IdleAuthenticated,
         IdleInbox, AtTop, IdleSelect, IdleFailed, Counted, IdleWait, IdleEnd, IdlePanics,
         CreateRow, loopVars, observers, DeleteStops, StopAccount, DeleteRow, DeleteFails, Stop,
         MoodChanges, SocketFails, Reread, vars, loopVars, userVars, observers
  <2> QED
    BY <2>1
<1> QED
  BY <1>1, <1>2, <1>3, <1>4, <1>5, <1>6, <1>7, <1>8, <1>9, <1>10, <1>11, <1>12, <1>13, <1>14,
       <1>15, <1>16, <1>17, <1>18, <1>19 DEF Next, CmdStep, IdleStep, RecoverStep

\* Loops and row, with what keeps them together: a row inserted is about to be started, and a
\* loop that stops its sibling has reported a panic.
RowInv ==
  /\ LoopsMatchRow
  /\ handlers.create = "inserted" => reg = "none" /\ (row # "none" \/ "overtaken" \in causes)
  /\ cmd.pc = "parking" \/ idle.pc = "parking" => "panicked" \in causes

LEMMA RowStep == TypeOK /\ PlaceInv /\ RowInv /\ [Next]_vars => RowInv'
<1> SUFFICES ASSUME TypeOK, PlaceInv, RowInv, [Next]_vars PROVE RowInv'
  OBVIOUS
<1> USE DEF TypeOK, PlaceInv, RowInv, LoopsMatchRow
<1>1. CASE CmdTop
  BY <1>1 DEF CmdTop, SetStatus, AtTop, userVars, observers
<1>2. CASE CmdLogin
  BY <1>2 DEF CmdLogin, Struck, userVars, Saturating
<1>3. CASE CmdFailed
  BY <1>3 DEF CmdFailed, Counted, userVars, observers, Saturating
<1>4. CASE CmdReport
  BY <1>4 DEF CmdReport, SetStatus, StatusOf, observers
<1>5. CASE CmdWait
  BY <1>5 DEF CmdWait, AtTop, userVars
<1>6. CASE CmdAuthenticated
  BY <1>6 DEF CmdAuthenticated, SetStatus, userVars, observers
<1>7. CASE CmdCatalogFails
  BY <1>7 DEF CmdCatalogFails, userVars, observers
<1>8. CASE CmdOpening
  BY <1>8 DEF CmdOpening, Saturating, userVars
<1>9. CASE CmdAnnounce
  BY <1>9 DEF CmdAnnounce, SetStatus
<1>10. CASE CmdClose
  BY <1>10 DEF CmdClose, AtTop, userVars, observers
<1>11. CASE CmdProbe
  BY <1>11 DEF CmdProbe, userVars, observers
<1>12. CASE CmdSyncFails
  BY <1>12 DEF CmdSyncFails, userVars, observers
<1>13. CASE CmdEnd
  BY <1>13 DEF CmdEnd, userVars, observers
<1>14. CASE IdleLogin
  BY <1>14 DEF IdleLogin, IdleOnly, Struck, userVars, Saturating
<1>15. CASE IdleAuthenticated
  BY <1>15 DEF IdleAuthenticated, IdleOnly, userVars
<1>16. CASE IdleInbox
  BY <1>16 DEF IdleInbox, IdleOnly, AtTop, userVars
<1>17. CASE IdleSelect
  BY <1>17 DEF IdleSelect, IdleOnly, Saturating, userVars
<1>18. CASE IdleFailed
  BY <1>18 DEF IdleFailed, IdleOnly, Counted, userVars, Saturating
<1>19. CASE IdleWait
  BY <1>19 DEF IdleWait, IdleOnly, AtTop, userVars
<1>20. CASE IdleEnd
  BY <1>20 DEF IdleEnd, IdleOnly, AtTop, userVars
<1>21. CASE CmdPanics
  BY <1>21 DEF CmdPanics, userVars
<1>22. CASE IdlePanics
  BY <1>22 DEF IdlePanics, userVars
<1>23. CASE PanicReport
  BY <1>23 DEF PanicReport
<1>24. CASE PanicStop
  BY <1>24 DEF PanicStop, StopAccount, userVars, observers
<1>25. CASE CreateRow
  BY <1>25 DEF CreateRow, loopVars, userVars, observers
<1>26. CASE CreateStarts
  BY <1>26 DEF CreateStarts, StartAccount, userVars, observers, CmdOff, IdleOff
<1>27. CASE DeleteStops
  BY <1>27 DEF DeleteStops, StopAccount, userVars, observers
<1>28. CASE DeleteRow
  BY <1>28 DEF DeleteRow, userVars
<1>29. CASE DeleteFails
  BY <1>29 DEF DeleteFails, loopVars, userVars
<1>30. CASE Stop
  BY <1>30 DEF Stop, StopAccount, userVars
<1>31. CASE Restart
  BY <1>31 DEF Restart, CmdOff, IdleOff
<1>32. CASE MoodChanges
  BY <1>32 DEF MoodChanges, loopVars, userVars
<1>33. CASE SocketFails
  BY <1>33 DEF SocketFails, userVars
<1>34. CASE Reread
  BY <1>34 DEF Reread, loopVars, observers
<1>35. CASE UNCHANGED vars
  <2>1. UNCHANGED <<cmd, idle, reg, row, handlers, causes>>
    BY <1>35 DEF vars, loopVars, userVars, observers
  <2> QED
    BY <2>1
<1> QED
  BY <1>1, <1>2, <1>3, <1>4, <1>5, <1>6, <1>7, <1>8, <1>9, <1>10, <1>11, <1>12, <1>13, <1>14,
       <1>15, <1>16, <1>17, <1>18, <1>19, <1>20, <1>21, <1>22, <1>23, <1>24, <1>25, <1>26,
       <1>27, <1>28, <1>29, <1>30, <1>31, <1>32, <1>33, <1>34, <1>35 DEF Next, CmdStep,
       IdleStep, RecoverStep

\* Rejections counted and still to be counted, against the rejections answered since the last
\* login: one answered before the other loop's login may be counted after it.
Pending(l) == IF l.pc = "failed" /\ l.err \in {"auth", "vague"} THEN 1 ELSE 0
EvidenceInv ==
  \/ cmd.pc = "authenticated" \/ idle.pc = "authenticated"
  \/ strikes >= maxAuthFailures - 1
  \/ rejections + Pending(cmd) + Pending(idle) <= strikes + 1

\* A command is never refused in the vague way a login may be.
LEMMA CommandsAnswered ==
  ASSUME TypeOK PROVE "vague" \notin CommandAnswers \cup SessionAnswers
BY DEF TypeOK, Moods, CommandAnswers, SessionAnswers

LEMMA EvidenceStep == TypeOK /\ PlaceInv /\ EvidenceInv /\ [Next]_vars => EvidenceInv'
<1> SUFFICES ASSUME TypeOK, PlaceInv, EvidenceInv, [Next]_vars PROVE EvidenceInv'
  OBVIOUS
<1> USE DEF TypeOK, PlaceInv, EvidenceInv, Pending
<1>1. CASE CmdTop
  BY <1>1 DEF CmdTop, SetStatus, AtTop, userVars, observers
<1>2. CASE CmdLogin
  BY <1>2 DEF CmdLogin, Struck, userVars, Saturating
<1>3. CASE CmdFailed
  BY <1>3 DEF CmdFailed, Counted, userVars, observers, Saturating
<1>4. CASE CmdReport
  BY <1>4 DEF CmdReport, SetStatus, StatusOf, observers
<1>5. CASE CmdWait
  BY <1>5 DEF CmdWait, AtTop, userVars
<1>6. CASE CmdAuthenticated
  BY <1>6 DEF CmdAuthenticated, SetStatus, userVars, observers
<1>7. CASE CmdCatalogFails
  BY <1>7 DEF CmdCatalogFails, userVars, observers
<1>8. CASE CmdOpening
  <2>1. PICK answer \in SessionAnswers :
          /\ cmd' = IF answer = "ok" THEN [cmd EXCEPT !.pc = "announce"]
                                     ELSE [cmd EXCEPT !.pc = "failed", !.err = answer]
          /\ strikes' = IF answer = "auth" THEN Saturating(strikes) ELSE strikes
    BY <1>8 DEF CmdOpening
  <2>2. answer # "vague"
    BY CommandsAnswered
  <2> QED
    <3>1. cmd.pc = "opening" /\ UNCHANGED <<idle, rejections>>
      BY <1>8 DEF CmdOpening
    <3>2. CASE answer = "auth"
      BY <2>1, <3>1, <3>2 DEF Saturating
    <3>3. CASE answer # "auth"
      <4>1. cmd'.pc # "authenticated" /\ Pending(cmd') = 0 /\ strikes' = strikes
        BY <2>1, <2>2, <3>3
      <4> QED
        BY <3>1, <4>1
    <3> QED
      BY <3>2, <3>3
<1>9. CASE CmdAnnounce
  BY <1>9 DEF CmdAnnounce, SetStatus
<1>10. CASE CmdClose
  BY <1>10 DEF CmdClose, AtTop, userVars, observers
<1>11. CASE CmdProbe
  BY <1>11 DEF CmdProbe, userVars, observers
<1>12. CASE CmdSyncFails
  BY <1>12 DEF CmdSyncFails, userVars, observers
<1>13. CASE CmdEnd
  BY <1>13 DEF CmdEnd, userVars, observers
<1>14. CASE IdleLogin
  BY <1>14 DEF IdleLogin, IdleOnly, Struck, userVars, Saturating
<1>15. CASE IdleAuthenticated
  BY <1>15 DEF IdleAuthenticated, IdleOnly, userVars
<1>16. CASE IdleInbox
  BY <1>16 DEF IdleInbox, IdleOnly, AtTop, userVars
<1>17. CASE IdleSelect
  <2>1. PICK answer \in CommandAnswers :
          /\ \/ answer # "ok" /\ idle' = [idle EXCEPT !.pc = "failed", !.err = answer]
             \/ answer = "ok" /\ idle' = [idle EXCEPT !.pc = "idling"]
          /\ strikes' = IF answer = "auth" THEN Saturating(strikes) ELSE strikes
    BY <1>17 DEF IdleSelect
  <2>2. answer # "vague"
    BY CommandsAnswered
  <2> QED
    <3>1. idle.pc = "select" /\ UNCHANGED <<cmd, rejections>>
      BY <1>17 DEF IdleSelect, IdleOnly
    <3>2. CASE answer = "auth"
      BY <2>1, <3>1, <3>2 DEF Saturating
    <3>3. CASE answer # "auth"
      <4>1. idle'.pc # "authenticated" /\ Pending(idle') = 0 /\ strikes' = strikes
        BY <2>1, <2>2, <3>3
      <4> QED
        BY <3>1, <4>1
    <3> QED
      BY <3>2, <3>3
<1>18. CASE IdleFailed
  BY <1>18 DEF IdleFailed, IdleOnly, Counted, userVars, Saturating
<1>19. CASE IdleWait
  BY <1>19 DEF IdleWait, IdleOnly, AtTop, userVars
<1>20. CASE IdleEnd
  BY <1>20 DEF IdleEnd, IdleOnly, AtTop, userVars
<1>21. CASE CmdPanics
  BY <1>21 DEF CmdPanics, userVars
<1>22. CASE IdlePanics
  BY <1>22 DEF IdlePanics, userVars
<1>23. CASE PanicReport
  BY <1>23 DEF PanicReport
<1>24. CASE PanicStop
  BY <1>24 DEF PanicStop, StopAccount, userVars, observers
<1>25. CASE CreateRow
  BY <1>25 DEF CreateRow, loopVars, userVars, observers
<1>26. CASE CreateStarts
  BY <1>26 DEF CreateStarts, StartAccount, userVars, observers, CmdOff, IdleOff
<1>27. CASE DeleteStops
  BY <1>27 DEF DeleteStops, StopAccount, userVars, observers
<1>28. CASE DeleteRow
  BY <1>28 DEF DeleteRow, userVars
<1>29. CASE DeleteFails
  BY <1>29 DEF DeleteFails, loopVars, userVars
<1>30. CASE Stop
  BY <1>30 DEF Stop, StopAccount, userVars
<1>31. CASE Restart
  BY <1>31 DEF Restart, CmdOff, IdleOff
<1>32. CASE MoodChanges
  BY <1>32 DEF MoodChanges, loopVars, userVars
<1>33. CASE SocketFails
  BY <1>33 DEF SocketFails, userVars
<1>34. CASE Reread
  BY <1>34 DEF Reread, loopVars, observers
<1>35. CASE UNCHANGED vars
  <2>1. UNCHANGED <<cmd, idle, strikes, rejections>>
    BY <1>35 DEF vars, loopVars, userVars, observers
  <2> QED
    BY <2>1
<1> QED
  BY <1>1, <1>2, <1>3, <1>4, <1>5, <1>6, <1>7, <1>8, <1>9, <1>10, <1>11, <1>12, <1>13, <1>14,
       <1>15, <1>16, <1>17, <1>18, <1>19, <1>20, <1>21, <1>22, <1>23, <1>24, <1>25, <1>26,
       <1>27, <1>28, <1>29, <1>30, <1>31, <1>32, <1>33, <1>34, <1>35 DEF Next, CmdStep,
       IdleStep, RecoverStep

-----------------------------------------------------------------------------
(* The theorems. *)

LoopsInv == TypeOK /\ PlaceInv /\ SpacedInv /\ RowInv /\ EvidenceInv

LEMMA LoopsInvariant == Spec => []LoopsInv
<1>1. Init => LoopsInv
  <2>1. Init => SpacedInv /\ RowInv
    BY DEF Init, SpacedInv, RowInv, LoopsMatchRow, CmdOff, IdleOff
  <2>2. Init => EvidenceInv
    BY DEF Init, EvidenceInv, Pending, CmdOff, IdleOff
  <2> QED
    BY <2>1, <2>2, TypeInitial DEF LoopsInv
<1>2. LoopsInv /\ [Next]_vars => LoopsInv'
  BY TypeStep, SpacedStep, RowStep, EvidenceStep DEF LoopsInv
<1> QED
  BY <1>1, <1>2, PTL DEF Spec

\* Every part of the state keeps its type, and the command connection is only there while the
\* loop that made it holds it: commandLoop leaks no connection, however it ends.
THEOREM TypeCorrect == Spec => []TypeOK
BY LoopsInvariant, PTL DEF LoopsInv

\* A live runtime has a row and two running loops, and a row its runtime, apart from the causes
\* the code knows of: StartAccount and StopAccount against creation and deletion.
THEOREM RowsAndLoops == Spec => []LoopsMatchRow
BY LoopsInvariant, PTL DEF LoopsInv, RowInv

\* commandLoop never logs in twice without a wait or a working session in between, whatever
\* fails in the session or panics.
THEOREM LoginsSpaced == Spec => []CommandLoginsSpaced
<1>1. LoopsInv => CommandLoginsSpaced
  BY DEF LoopsInv, SpacedInv, CommandLoginsSpaced
<1> QED
  BY <1>1, LoopsInvariant, PTL

\* A rejection is believed only on the token endpoint's word or when both loops together have
\* met maxAuthFailures - 1 rejections with no login in between: classifyFailure.
THEOREM Parked == Spec => ParkedOnEvidence
<1> DEFINE Evidence ==
      /\ (cmd.v # "park" /\ cmd'.v = "park" /\ cmd.err # "rejected") =>
             strikes >= maxAuthFailures - 1 \/ idle.pc = "authenticated"
      /\ (idle.pc = "failed" /\ idle'.pc = "waiting" /\ idle.err # "rejected"
            /\ Classify(idle.err) = "park") =>
             strikes >= maxAuthFailures - 1 \/ cmd.pc = "authenticated"
<1>1. LoopsInv /\ [Next]_vars => [Evidence]_vars
  <2> SUFFICES ASSUME LoopsInv, Next PROVE Evidence
    BY DEF LoopsInv
  <2> USE DEF LoopsInv, TypeOK
  <2>1. \A l \in {cmd, idle} : l.pc = "failed" /\ l.err # "rejected" /\ Classify(l.err) = "park"
           => l.err \in {"vague", "auth"} /\ rejections + 1 >= maxAuthFailures
    BY DEF Classify
  <2>2. cmd.v # "park" /\ cmd'.v = "park" => cmd.pc = "failed" /\ Classify(cmd.err) = "park"
    <3>1. CASE CmdFailed
      BY <3>1 DEF CmdFailed
    <3>2. CASE CmdTop
      BY <3>2 DEF CmdTop, AtTop
    <3>3. CASE CmdLogin
      BY <3>3 DEF CmdLogin
    <3>4. CASE CmdReport
      BY <3>4 DEF CmdReport
    <3>5. CASE CmdWait
      BY <3>5 DEF CmdWait, AtTop
    <3>6. CASE CmdAuthenticated
      BY <3>6 DEF CmdAuthenticated
    <3>7. CASE CmdCatalogFails
      BY <3>7 DEF CmdCatalogFails
    <3>8. CASE CmdOpening
      BY <3>8 DEF CmdOpening
    <3>9. CASE CmdAnnounce
      BY <3>9 DEF CmdAnnounce
    <3>10. CASE CmdClose
      BY <3>10 DEF CmdClose, AtTop
    <3>11. CASE CmdProbe
      BY <3>11 DEF CmdProbe
    <3>12. CASE CmdSyncFails
      BY <3>12 DEF CmdSyncFails
    <3>13. CASE CmdEnd
      BY <3>13 DEF CmdEnd
    <3>14. CASE CmdPanics
      BY <3>14 DEF CmdPanics
    <3>15. CASE PanicReport
      BY <3>15 DEF PanicReport
    <3>16. CASE PanicStop
      BY <3>16 DEF PanicStop
    <3>17. CASE CreateStarts
      BY <3>17 DEF CreateStarts, StartAccount, CmdOff
    <3>18. CASE Restart
      BY <3>18 DEF Restart, CmdOff
    <3>19. CASE IdleLogin \/ IdleAuthenticated \/ IdleInbox \/ IdleSelect \/ IdleFailed \/
         IdleWait \/ IdleEnd \/ IdlePanics \/ CreateRow \/ DeleteStops \/ DeleteRow \/
         DeleteFails \/ Stop \/ MoodChanges \/ SocketFails \/ Reread
      BY <3>19 DEF IdleLogin, IdleOnly, Struck, userVars, Saturating, IdleAuthenticated,
           IdleInbox, AtTop, IdleSelect, IdleFailed, Counted, IdleWait, IdleEnd, IdlePanics,
           CreateRow, loopVars, observers, DeleteStops, StopAccount, DeleteRow, DeleteFails,
           Stop, MoodChanges, SocketFails, Reread
    <3> QED
      BY <3>1, <3>2, <3>3, <3>4, <3>5, <3>6, <3>7, <3>8, <3>9, <3>10, <3>11, <3>12, <3>13,
           <3>14, <3>15, <3>16, <3>17, <3>18, <3>19 DEF Next, CmdStep, IdleStep, RecoverStep
  <2>3. cmd.pc = "failed" /\ cmd.err # "rejected" /\ Classify(cmd.err) = "park"
           => strikes >= maxAuthFailures - 1 \/ idle.pc = "authenticated"
    BY <2>1 DEF EvidenceInv, Pending
  <2>4. idle.pc = "failed" /\ idle.err # "rejected" /\ Classify(idle.err) = "park"
           => strikes >= maxAuthFailures - 1 \/ cmd.pc = "authenticated"
    BY <2>1 DEF EvidenceInv, Pending
  <2> QED
    BY <2>2, <2>3, <2>4
<1> QED
  BY <1>1, LoopsInvariant, PTL DEF ParkedOnEvidence, Spec
=============================================================================
