------------------------------ MODULE CodePairing ------------------------------
(***************************************************************************)
(* Pairing with a code (validator/code_pairing.py): one walkthrough step of *)
(* the validator, the server SDK that runs its attempts, the client under   *)
(* test, the person who types codes and opens the pairing window, and the   *)
(* verdicts the step reads off the connection's record                      *)
(* (validator/code_pairing_checks.py).                                      *)
(*                                                                          *)
(* The client conforms, or has one fault. Messages keep their order; the    *)
(* validator's deadlines pass only while nobody has anything left to send.  *)
(***************************************************************************)
EXTENDS Integers, Sequences, FiniteSets, SequencesExt

CONSTANTS Attempts,  \* LOCKOUT_ATTEMPTS
          Faults,    \* the faults a client may have, "none" with them
          MaxRounds  \* rounds of one attempt

VARIABLES step, fault,
          log,       \* the connection's frames and events since the step began
          toC, toS,  \* frames under way
          att,       \* the SDK's attempt: [ph, idx, err]
          cli,       \* the client: [ph, idx, open, fails]
          pc,        \* where the step is
          tried,     \* attempts begun
          round,     \* rounds of the attempt: codes entered
          wrongAt,   \* DynamicEntry.wrong_mark, 0 until a wrong code is entered
          asRight,   \* right_entered_as_wrong
          closed, skipped,
          slow,      \* the person did not act before an attempt timed out
          did        \* ghost: the client has committed its fault

vars == <<step, fault, log, toC, toS, att, cli, pc, tried, round, wrongAt, asRight, closed,
          skipped, slow, did>>
entry == <<round, wrongAt, asRight, skipped>>
fixed == <<step, fault>>

Steps == {"digits", "qr", "static", "cancel", "timeout", "lockout"}
Dynamic == step \in {"digits", "qr", "cancel", "timeout"}

Frame(out, t, i, r) == [out |-> out, t |-> t, i |-> i, r |-> r]
In(f, ts) == ~f.out /\ f.t \in ts
Out(f, t) == f.out /\ f.t = t

Init ==
    /\ step \in Steps /\ fault \in Faults
    /\ log = <<>> /\ toC = <<>> /\ toS = <<>>
    /\ att = [ph |-> "none", idx |-> 0, err |-> "none"]
    /\ cli = [ph |-> "idle", idx |-> 0, open |-> FALSE, fails |-> 0]
    /\ pc = "begin" /\ tried = 0 /\ round = 0 /\ wrongAt = 0
    /\ asRight = FALSE /\ closed = FALSE /\ skipped = FALSE /\ slow = FALSE /\ did = FALSE

Quiet == toC = <<>> /\ toS = <<>>

-----------------------------------------------------------------------------
(* The server SDK: what it sends is recorded as it goes out.                 *)

Sends(fs) == log' = log \o fs /\ toC' = toC \o fs

Activation == Frame(TRUE, "activate", 0, "pairing")
Leaves == Frame(TRUE, "activate", 0, "playback")
Event(t, r) == Frame(TRUE, t, 0, r)

\* initiate_pairing, up to the activation.
Begin ==
    /\ Sends(<<Activation>>)
    /\ att' = [ph |-> "await", idx |-> att.idx + 1, err |-> "none"]
    /\ tried' = tried + 1

\* The attempt ended: PAIRING_FAILED is recorded once initiate_pairing has left pairing.
Fails(err, got, sends) ==
    /\ att' = [att EXCEPT !.ph = "over", !.err = err]
    /\ log' = log \o got \o sends \o <<Leaves, Event("failed", err)>>
    /\ toC' = toC \o sends \o <<Leaves>>
    /\ UNCHANGED closed

\* Any other failure ends the connection too.
Breaks(err, got) ==
    /\ att' = [att EXCEPT !.ph = "over", !.err = err]
    /\ log' = log \o got \o <<Event("failed", err)>>
    /\ closed' = TRUE
    /\ UNCHANGED toC

Stays(got) == log' = log \o got /\ UNCHANGED <<att, toC, closed>>
Goes(ph, got, sends) ==
    /\ att' = [att EXCEPT !.ph = ph]
    /\ log' = log \o got \o sends /\ toC' = toC \o sends
    /\ UNCHANGED closed

WrongEntered == tried = 1 /\ round = 1 /\ wrongAt # 0

\* A frame of the client reaches the attempt.
Reaches(f) ==
    CASE att.ph = "over" -> log' = Append(log, f) /\ closed' = (f.t = "goodbye") /\ UNCHANGED <<att, toC>>
      [] f.t = "abort" /\ att.ph # "over" -> Fails(f.r, <<f>>, <<>>)
      [] f.t = "goodbye" /\ att.ph # "over" -> Breaks("lost", <<f>>)
      [] att.ph = "await" /\ f.t \in {"pending", "init"} ->
            IF f.i < att.idx THEN Stays(<<f>>)
            ELSE IF f.i > att.idx \/ (f.t = "init" /\ f.r # (IF Dynamic THEN "commit" ELSE "plain"))
                 THEN Breaks("malformed", <<f>>)
            ELSE IF f.t = "pending" THEN Stays(<<f>>)
            ELSE Goes("code", <<f>>, IF Dynamic THEN <<Frame(TRUE, "pair-init", 0, "")>> ELSE <<>>)
      [] att.ph = "auth" /\ f.t = "auth" ->
            IF f.r = "short" THEN Breaks("malformed", <<f>>)
            ELSE Goes("confirm", <<f>>, <<Frame(TRUE, "confirm", 0, IF WrongEntered \/ step = "lockout"
                                                                    THEN "wrong" ELSE "right")>>)
      [] att.ph = "confirm" /\ f.t = "retry" /\ Dynamic ->
            Goes("code", <<f>>, <<Frame(TRUE, "pair-init", 0, "")>>)
      [] att.ph = "confirm" /\ f.t = "confirm" ->
            IF f.r = "kc" \/ WrongEntered \/ step = "lockout"
            THEN Fails("kc", <<f>>, <<Frame(TRUE, "abort", 0, "pairing_code_mismatch")>>)
            ELSE IF f.r = "reveal" THEN Breaks("reveal", <<f>>)
            ELSE Goes("final", <<f>>, <<>>)
      [] att.ph = "final" /\ f.t = "finalize" ->
            IF f.r = "unwrap" THEN Breaks("unwrap", <<f>>)
            ELSE Goes("rekey", <<f>>, <<Frame(TRUE, "finalize", 0, "")>>)
      [] OTHER -> Breaks("malformed", <<f>>)

ServerReads ==
    /\ toS # <<>> /\ ~closed
    /\ toS' = Tail(toS)
    /\ Reaches(Head(toS))
    /\ UNCHANGED <<fixed, cli, pc, tried, entry, slow, did>>

\* The promotion to the delivered key, with the event note_keying records.
Rekeyed ==
    /\ att.ph = "rekey" /\ Quiet /\ ~closed
    /\ IF fault = "norekey"
       THEN Breaks("lost", <<>>) /\ did' = TRUE
       ELSE /\ att' = [att EXCEPT !.ph = "over", !.err = "paired"]
            /\ log' = log \o <<Leaves, Event("keyed", "long_term")>> /\ toC' = toC \o <<Leaves>>
            /\ UNCHANGED <<closed, did>>
    /\ UNCHANGED <<fixed, toS, cli, pc, tried, entry, slow>>

\* _server_timeout, after the client's own: of an attempt in which the client waits for the person.
ServerTimeout ==
    /\ att.ph \in {"await", "code", "auth", "confirm", "final"} /\ Quiet /\ ~closed
    /\ pc \in {"task", "holding"} \cup (IF wrongAt = 0 THEN {"entering"} ELSE {}) /\ (step = "lockout" => att.ph # "code")
    /\ Fails("timeout", <<>>, <<>>)
    /\ slow' = (slow \/ step # "timeout" \/ cli.ph = "pending")
    /\ UNCHANGED <<fixed, toS, cli, pc, tried, entry, did>>

-----------------------------------------------------------------------------
(* The person.                                                               *)

\* The codes a step has the person enter; the others never answer.
Asks == step \in {"digits", "qr", "static", "lockout"} /\ (step = "lockout" => tried <= Attempts)

EnterCode(wrong) ==
    /\ att.ph = "code" /\ Asks /\ toC = <<>> /\ round < MaxRounds /\ ~closed
    /\ wrong => step \in {"digits", "qr"} /\ tried = 1 /\ round = 0
    /\ round' = round + 1
    /\ wrongAt' = IF wrong THEN Len(log) ELSE wrongAt
    /\ asRight' = (asRight \/ (~wrong /\ step = "digits" /\ tried = 1 /\ round = 0))
    /\ step = "qr" /\ tried = 1 /\ round = 0 => wrong      \* the validator enters that one itself
    /\ Goes("auth", <<>>, <<Frame(TRUE, "auth", 0, "")>>)
    /\ did' = (did \/ (fault = "newcode" /\ step = "digits" /\ tried = 1 /\ round = 1))
    /\ UNCHANGED <<fixed, toS, cli, pc, tried, skipped, slow>>

\* Skipped: the attempt ends as for a malformed entry.
Skip ==
    /\ att.ph = "code" /\ step \in {"digits", "qr", "static"} /\ ~closed
    /\ skipped' = TRUE
    /\ Fails("skipped", <<>>, <<>>)
    /\ UNCHANGED <<fixed, toS, cli, pc, tried, round, wrongAt, asRight, slow, did>>

\* The window gesture, or the act a client holds a dynamic attempt back for.
Gesture ==
    /\ cli.ph = "pending" /\ step # "cancel" /\ ~closed
    /\ step = "lockout" => tried = 1
    /\ cli' = [cli EXCEPT !.ph = "begun", !.open = TRUE]
    /\ toS' = Append(toS, Frame(FALSE, "init", cli.idx, IF Dynamic THEN "commit" ELSE "plain"))
    /\ UNCHANGED <<fixed, log, toC, att, pc, tried, entry, closed, slow, did>>

-----------------------------------------------------------------------------
(* The client.                                                               *)

Replies(fs, ph) == toS' = toS \o fs /\ cli' = [cli EXCEPT !.ph = ph]

\* The opening of an attempt: held back or begun.
Opens ==
    LET idx == cli.idx + 1
        i == IF fault = "index" THEN idx + 1 ELSE idx
        r == IF Dynamic THEN (IF fault = "commit" THEN "plain" ELSE "commit")
             ELSE (IF fault = "shape" THEN "commit" ELSE "plain")
        holds == ~Dynamic /\ ~cli.open /\ fault # "open"
        wrong == fault \in {"index"} \/ (fault = "commit" /\ Dynamic) \/ (fault = "shape" /\ ~Dynamic)
                 \/ (fault = "open" /\ ~Dynamic /\ ~cli.open)
    IN  \/ /\ holds \/ (Dynamic /\ fault = "none")
           /\ toS' = Append(toS, Frame(FALSE, "pending", i, ""))
           /\ cli' = [cli EXCEPT !.ph = "pending", !.idx = idx]
           /\ did' = (did \/ fault = "index")
        \/ /\ ~holds
           /\ toS' = Append(toS, Frame(FALSE, "init", i, r))
           /\ cli' = [cli EXCEPT !.ph = "begun", !.idx = idx]
           /\ did' = (did \/ wrong)

\* A wrong server_kc: another round, or the end of the attempt; five ends close the window.
Mismatch ==
    \/ /\ fault = "mute" /\ Dynamic /\ did' = TRUE /\ cli' = [cli EXCEPT !.ph = "mute"] /\ UNCHANGED toS
    \/ /\ fault = "confirms" /\ did' = TRUE /\ Replies(<<Frame(FALSE, "confirm", 0, "")>>, "confirmed")
    \/ /\ ~(fault = "mute" /\ Dynamic) /\ fault # "confirms" /\ Dynamic /\ UNCHANGED did
       /\ Replies(<<Frame(FALSE, "retry", 0, "")>>, "begun")
    \/ /\ ~(fault = "mute" /\ Dynamic) /\ fault # "confirms" /\ UNCHANGED did
       /\ toS' = Append(toS, Frame(FALSE, "abort", 0, "pairing_code_mismatch"))
       /\ cli' = [cli EXCEPT !.ph = "idle", !.fails = @ + 1,
                             !.open = @ /\ cli.fails + 1 < Attempts]

ClientReads ==
    LET f == Head(toC)
    IN  /\ toC # <<>> /\ ~closed
        /\ toC' = Tail(toC)
        /\ CASE f.t = "activate" /\ f.r = "pairing" -> Opens
             [] f.t \in {"activate", "abort"} /\ f.r # "pairing" /\ f.r # "user_cancelled" ->
                   cli' = [cli EXCEPT !.ph = "idle"] /\ UNCHANGED <<toS, did>>
             [] f.t = "abort" /\ f.r = "user_cancelled" ->
                   IF fault = "goodbye"
                   THEN Replies(<<Frame(FALSE, "goodbye", 0, "")>>, "gone") /\ did' = TRUE
                   ELSE cli' = [cli EXCEPT !.ph = "idle"] /\ UNCHANGED <<toS, did>>
             [] f.t = "auth" /\ cli.ph = "begun" ->
                   /\ Replies(<<Frame(FALSE, "auth", 0, IF fault = "length" THEN "short" ELSE "")>>, "auth")
                   /\ did' = (did \/ fault = "length")
             [] f.t = "confirm" /\ cli.ph = "auth" /\ f.r = "wrong" -> Mismatch
             [] f.t = "confirm" /\ cli.ph = "auth" /\ f.r = "right" ->
                   LET bad == IF fault \in {"kc", "reveal"} /\ (fault = "reveal" => Dynamic) THEN fault ELSE ""
                       end == IF fault = "unwrap" THEN "unwrap" ELSE ""
                   IN  /\ Replies(<<Frame(FALSE, "confirm", 0, bad), Frame(FALSE, "finalize", 0, end)>>, "confirmed")
                       /\ did' = (did \/ bad # "" \/ end # "")
             [] OTHER -> UNCHANGED <<toS, cli, did>>
        /\ UNCHANGED <<fixed, log, att, pc, tried, entry, closed, slow>>

\* The client's attempt timeout, while the person is asked.
AttemptTimeout ==
    /\ cli.ph = "begun" /\ Quiet /\ att.ph = "code" /\ ~closed
    /\ step \in {"digits", "qr", "static", "timeout"}
    /\ IF fault = "drop"
       THEN /\ did' = TRUE /\ toS' = Append(toS, Frame(FALSE, "goodbye", 0, ""))
            /\ cli' = [cli EXCEPT !.ph = "gone"]
       ELSE Replies(<<Frame(FALSE, "abort", 0, "attempt_timeout")>>, "idle") /\ UNCHANGED did
    /\ slow' = (slow \/ step # "timeout")
    /\ UNCHANGED <<fixed, log, toC, att, pc, tried, entry, closed>>

-----------------------------------------------------------------------------
(* The step.                                                                 *)

TaskDone == att.ph = "over"
After(mark, p(_)) == \E i \in DOMAIN log : i > mark /\ p(log[i])

\* The conditions the steps wait for on the record.
Answered(mark) == closed \/ After(mark, LAMBDA f : In(f, {"retry", "confirm", "abort", "goodbye"}))
Mark == Max({i \in DOMAIN log : log[i] = Activation})
Started == closed \/ After(Mark, LAMBDA f : In(f, {"pending", "init", "abort", "goodbye"}) \/ Out(f, "pair-init"))
Held == closed \/ After(Mark, LAMBDA f : In(f, {"pending"}))

\* end_pairing, if the connection is still there.
End ==
    IF closed \/ TaskDone
    THEN UNCHANGED <<att, log, toC, closed>>
    ELSE Fails("cancelled", <<>>, <<Frame(TRUE, "abort", 0, "user_cancelled")>>)

Move(to) == pc' = to /\ UNCHANGED <<fixed, toS, cli, entry, slow, did>>

\* What a step does once its attempt is under way.
Waits ==
    CASE step \in {"digits", "qr"} -> "entering"
      [] step = "cancel" -> "started"
      [] step \in {"static", "timeout"} -> "task"
      [] step = "lockout" -> IF tried = 0 THEN "task" ELSE IF tried = Attempts THEN "started" ELSE "holding"

Start ==
    /\ pc \in {"begin", "again"} /\ ~closed
    /\ Begin /\ pc' = IF pc = "again" /\ step # "lockout" THEN "task" ELSE Waits
    /\ round' = 0
    /\ UNCHANGED <<fixed, toS, cli, wrongAt, asRight, closed, skipped, slow, did>>

\* _first_of the attempt and a wrong code; then the client's answer to it, or the deadline.
Entered ==
    /\ pc = "entering" /\ (TaskDone \/ wrongAt # 0)
    /\ Move(IF wrongAt # 0 THEN "answering" ELSE "task")
    /\ UNCHANGED <<att, log, toC, tried, closed>>

\* Faulty variant: the answer to the wrong code is awaited without a deadline.
ResponseUntimed ==
    /\ pc = "answering" /\ Answered(wrongAt)
    /\ UNCHANGED <<att, log, toC, closed>>
    /\ Move("task") /\ UNCHANGED tried

Response ==
    /\ pc = "answering" /\ (Answered(wrongAt) \/ Quiet)
    /\ IF Answered(wrongAt) THEN UNCHANGED <<att, log, toC, closed>> ELSE End
    /\ Move("task") /\ UNCHANGED tried

\* An attempt of the cancel step, and the sixth of the lockout, is ended once it has begun, or at the deadline.
EndBegun ==
    /\ pc = "started" /\ (Started \/ TaskDone \/ Quiet)
    /\ End /\ Move("task") /\ UNCHANGED tried

\* A lockout attempt that the client holds back is ended; one it does not is left to itself at the deadline.
Holding == TaskDone \/ Held \/ Quiet

EndHeld ==
    /\ pc = "holding" /\ Holding
    /\ IF Held THEN End ELSE UNCHANGED <<att, log, toC, closed>>
    /\ Move("task") /\ UNCHANGED tried

Mismatched == att.err = "pairing_code_mismatch"

\* The attempt is over: another one, or the settling watch of the connection.
Ended ==
    /\ pc = "task" /\ TaskDone
    /\ LET again == \/ step \in {"digits", "qr"} /\ Mismatched /\ wrongAt # 0 /\ tried = 1
                    \/ step = "lockout" /\ Mismatched /\ ~closed /\ tried <= Attempts
       IN  Move(IF again THEN "again" ELSE "settle")
    /\ UNCHANGED <<att, log, toC, tried, closed>>

Settled ==
    /\ pc = "settle" \/ (pc = "again" /\ closed)
    /\ Quiet \/ closed
    /\ Move("done")
    /\ UNCHANGED <<att, log, toC, tried, closed>>

Protocol == ServerReads \/ Rekeyed \/ ServerTimeout \/ ClientReads \/ AttemptTimeout
Walkthrough == Start \/ Entered \/ Response \/ EndBegun \/ EndHeld \/ Ended \/ Settled
Person == Skip \/ Gesture \/ \E wrong \in BOOLEAN : EnterCode(wrong)

Next == Protocol \/ Walkthrough \/ Person

\* The person need not act; the codes of the lockout step are the validator's own.
Spec ==
    /\ Init /\ [][Next]_vars
    /\ WF_vars(Protocol) /\ WF_vars(Walkthrough) /\ WF_vars(step = "lockout" /\ EnterCode(FALSE))

-----------------------------------------------------------------------------
(* The verdicts, on the frames and events of the log.                        *)

First(mark, p(_)) == LET S == {i \in DOMAIN log : i > mark /\ p(log[i])} IN IF S = {} THEN 0 ELSE Min(S)
FirstIn(mark, ts) == First(mark, LAMBDA f : In(f, ts))
FirstOut(mark, t, rs) == First(mark, LAMBDA f : Out(f, t) /\ f.r \in rs)

Activations == {i \in DOMAIN log : log[i] = Activation}
\* Faulty variant: the answers to an activation are looked for to the end of the record.
UntilTheEnd(i) == Len(log) + 1

\* Where the answers to activation i end: at the next one.
Until(i) == IF \E j \in Activations : j > i THEN Min({j \in Activations : j > i}) ELSE Len(log) + 1
Starts == {"init", "pending"}
Refusals == {"abort", "goodbye"}

Unanswered == "FAIL"
NotReached == "N/A"

\* check_commit
Commit ==
    LET i == FirstIn(0, {"init"})
        s == FirstOut(0, "pair-init", {""})
    IN  IF i = 0 THEN Unanswered ELSE IF log[i].r # "commit" THEN "FAIL"
        ELSE IF s # 0 /\ s < i THEN "TOOL_ERROR" ELSE "PASS"

\* pairing_activations_since_handshake
Index(a) == Cardinality({j \in Activations : j <= a})

\* check_pairing_index
PairingIndex ==
    LET ans(a) == {i \in a + 1 .. Until(a) - 1 : In(log[i], Starts)}
        judged == {a \in Activations : ans(a) # {}}
        bad(a) == \/ \E i \in ans(a) : log[i].i > Index(a)
                  \/ \A i \in ans(a) : log[i].i # Index(a)
    IN  IF \E a \in judged : bad(a) THEN "FAIL" ELSE IF judged = {} THEN Unanswered ELSE "PASS"

\* check_cpace_lengths
Lengths ==
    LET auths == {i \in DOMAIN log : In(log[i], {"auth"})}
    IN  IF auths = {} THEN Unanswered ELSE IF \E i \in auths : log[i].r = "short" THEN "FAIL" ELSE "PASS"

\* check_wrong_code
WrongCode ==
    LET c == FirstOut(0, "confirm", {"right", "wrong"})
        a == FirstIn(c, {"retry", "confirm"} \cup Refusals)
    IN  IF wrongAt = 0 THEN "N/A" ELSE IF c = 0 THEN Unanswered ELSE IF a = 0 THEN "FAIL"
        ELSE IF log[a].t = "retry" \/ (log[a].t = "abort" /\ log[a].r = "pairing_code_mismatch") THEN "PASS"
        ELSE "FAIL"

\* failure_stage: the details that name a stage after client/pair-confirm.
FailureStage(err) ==
    CASE err \in {"kc", "pairing_code_mismatch"} -> 0
      [] err = "reveal" -> 1
      [] err \in {"unwrap", "timeout"} -> 3
      [] OTHER -> -1

\* _promotion_failure: 4 when the delivered key keyed the session after another frame, UNWRAP otherwise.
PromotionFailure(ack) ==
    LET k == First(ack, LAMBDA f : f.t = "keyed") IN IF k > ack + 1 /\ log[k].r = "long_term" THEN 4 ELSE 3

\* check_verification: the verdict on stage n, 0 to 3 in the order of class Stage.
Verification(n) ==
    LET confirms == {i \in DOMAIN log : In(log[i], {"confirm"})}
        c == Max(confirms)
        failure == First(c, LAMBDA f : f.t = "failed")
        ack == FirstOut(c, "finalize", {""})
        failed == IF FirstOut(c, "abort", {"pairing_code_mismatch"}) # 0 THEN 0
                  ELSE IF ack # 0 THEN PromotionFailure(ack)
                  ELSE IF failure # 0 THEN FailureStage(log[failure].r) ELSE -1
    IN  IF confirms = {} THEN "N/A" ELSE IF failed = -1 THEN "TOOL_ERROR"
        ELSE IF n < failed THEN "PASS" ELSE IF n = failed THEN "FAIL" ELSE "N/A"

\* check_static_pending
StaticPending ==
    LET a == FirstIn(Min(Activations), Starts \cup Refusals)
    IN  IF a = 0 THEN Unanswered ELSE IF log[a].t = "pending" THEN "PASS" ELSE "FAIL"

\* check_static_shape
StaticShape ==
    IF FirstIn(0, {"init"}) = 0 THEN Unanswered
    ELSE IF First(0, LAMBDA f : In(f, {"retry"}) \/ (In(f, {"init"}) /\ f.r = "commit")) # 0
         THEN "FAIL" ELSE "PASS"

\* check_static_order
StaticOrder ==
    LET i == FirstIn(0, {"init"})
        a == FirstOut(0, "auth", {""})
    IN  IF a # 0 /\ (i = 0 \/ a < i) THEN "TOOL_ERROR" ELSE IF i = 0 THEN Unanswered ELSE "PASS"

\* check_lockout: PAIR-STATIC-009 on the attempts with a wrong code, -010 on the one after them.
Nth(n) == CHOOSE a \in Activations : Index(a) = n
Aborted(a) == \E i \in a + 1 .. Until(a) - 1 :
                /\ In(log[i], {"abort"}) /\ log[i].r = "pairing_code_mismatch"
                /\ \A j \in a + 1 .. i - 1 : ~In(log[j], {"abort"})
Lockout ==
    LET n == Cardinality(Activations)
        unclean == \E k \in 1 .. Attempts : k <= n /\ ~Aborted(Nth(k))
        sixth == FirstIn(Nth(Attempts + 1), Starts \cup Refusals)
    IN  <<IF unclean THEN "FAIL" ELSE IF n < Attempts THEN NotReached ELSE "PASS",
          IF unclean \/ n <= Attempts THEN NotReached
          ELSE IF sixth # 0 /\ log[sixth].t = "pending" THEN "PASS" ELSE "FAIL">>

\* check_cancel
Cancel ==
    LET a == FirstOut(0, "abort", {"user_cancelled"})
    IN  IF a = 0 THEN "TOOL_ERROR" ELSE IF closed \/ FirstIn(a, {"goodbye"}) # 0 THEN "FAIL"
        ELSE IF FirstOut(a, "activate", {"playback"}) = 0 THEN "TOOL_ERROR" ELSE "PASS"

\* _server_gave_up
GaveUp(mark) == First(mark, LAMBDA f : f.t = "failed" /\ f.r = "timeout") # 0

\* check_timeout
Timeout ==
    LET i == FirstIn(0, {"init"})
        a == FirstIn(i, {"abort"})
    IN  IF i = 0 THEN Unanswered
        ELSE IF a # 0 THEN (IF log[a].r = "attempt_timeout" THEN "PASS" ELSE "FAIL")
        ELSE IF ~closed /\ GaveUp(i) THEN "WARN" ELSE "FAIL"

\* provide: the code asked for in the second round of one attempt.
SameCode ==
    IF step # "digits" \/ wrongAt = 0 \/ FirstIn(0, {"retry"}) = 0 \/ FirstOut(FirstIn(0, {"retry"}), "auth", {""}) = 0
    THEN NotReached ELSE IF fault = "newcode" THEN "FAIL" ELSE "PASS"

\* What dynamic, static, cancel, timeout and lockout return, by the number of the check.
Findings ==
    LET v == IF skipped THEN [k \in 1 .. 10 |-> "SKIPPED"]
             ELSE CASE step \in {"digits", "qr"} ->
                         <<Commit, PairingIndex, Lengths, WrongCode, Verification(0), Verification(1),
                           Verification(2), Verification(3), NotReached, SameCode>>
                    [] step = "static" ->
                         <<StaticPending, PairingIndex, StaticShape, StaticOrder, Lengths,
                           Verification(0), Verification(3)>>
                    [] step = "lockout" -> Lockout
                    [] step = "cancel" -> <<Cancel>>
                    [] step = "timeout" -> <<Timeout>>
    IN  v

Blaming == {"FAIL", "TOOL_ERROR"}

-----------------------------------------------------------------------------
(* Properties                                                                *)

\* A client that has done nothing wrong fails no check, and no check blames the validator, whatever
\* order the person, the client's timeout and the validator's deadlines act in, as long as the person
\* acts before an attempt times out (dynamic, static, cancel, timeout and lockout of CodePairing).
ConformantNotBlamed ==
    pc = "done" /\ ~did /\ ~slow => \A k \in DOMAIN Findings : Findings[k] \notin Blaming

\* The check of a fault, by its number in the step's list.
Check ==
    CASE step \in {"digits", "qr"} ->
            (CASE fault = "commit" -> 1 [] fault = "index" -> 2 [] fault = "length" -> 3
               [] fault \in {"confirms", "mute"} -> 4 [] fault = "kc" -> 5 [] fault = "reveal" -> 6
               [] fault = "newcode" -> 10 [] OTHER -> 8)
      [] step = "static" ->
            (CASE fault = "open" -> 1 [] fault = "index" -> 2 [] fault = "shape" -> 3
               [] fault = "length" -> 5 [] fault = "kc" -> 6 [] OTHER -> 7)
      [] step = "lockout" -> IF fault = "open" THEN 2 ELSE 1
      [] OTHER -> 1

\* A fault the client has committed fails its own check, unless the person skipped the step or let an
\* attempt time out. The cancel step looks for a client that leaves, and no other step does.
FaultIsFound ==
    pc = "done" /\ did /\ ~slow /\ ~skipped /\ (step = "cancel") = (fault = "goodbye")
        => Findings[Check] = "FAIL"

\* A step ends, whatever the client does and whether or not the person acts: every wait of it has a
\* deadline or ends with the attempt (until, _first_of, the attempt timeout of the SDK).
StepEnds == <>(pc = "done")
=============================================================================
