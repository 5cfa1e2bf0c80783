--------------------------- MODULE PairingRecord ---------------------------
(***************************************************************************)
(* What the validator's suites (SuiteRunner, validator/suites.py) do to    *)
(* the pairing between the validator and the app under test.  U1 and R3    *)
(* forget it and restore it, the pairing suite makes it, R4 dissolves it,  *)
(* and the checks judge the app by the PSK that keys the sessions in       *)
(* between (_judge_keying, validator/suite_checks.py).                     *)
(*                                                                         *)
(* The validator's half is the record in its store: in memory, and in a    *)
(* file that a thread writes (FileServerPairingStore).  The app keeps the  *)
(* spec, as the vendored client does, but may lose its connection.  The    *)
(* user answers or skips every step, and may interrupt the run.            *)
(***************************************************************************)
EXTENDS Naturals

CONSTANTS
    Flaky           \* whether the app loses its connection, or makes a new one

Suites == {"unpaired", "pairing", "post-pairing"}

\* 0: no pairing; 1: of an earlier run; 2: made by the pairing suite.
Records == 0 .. 2

NoFile == 3

Keyings == {"sentinel", "long_term", "fallback"}

Threads == 1 .. 2

\* The steps, named for what comes next; capital letters ask the user first.
Prompts == {"U1", "U2", "PAIR", "R1", "R3", "R5", "R5 restart", "R4"}
Waits   == {"U1 reconnect", "R1 reconnect", "R3 reconnect", "R3 activated",
            "R5 reconnect", "R5 return", "R4 open", "R4 goodbye", "R4 reconnect"}
Ends    == {"over", "stopped"}
Others  == {"unpaired", "U restore", "pairing", "post-pairing", "R3 withhold",
            "R3 restore", "R3 admit", "R4 unpair", "R4 tell", "R4 restore", "R4 forget"}

VARIABLES
    suites,     \* the suites selected
    pc,         \* what SuiteRunner does next
    stopping,   \* the run has been interrupted
    memory,     \* the store's record of the app
    admit,      \* admit_unpaired
    disk,       \* the record in pairing.json
    tmp,        \* the record in pairing.json.tmp, NoFile if it does not exist
    threads,    \* the threads that write the file, and what they write
    saving,     \* the thread whose end SuiteRunner awaits, 0 if none
    earlier,    \* `earlier' of _unpaired
    record,     \* `record' of _r3 and _r4
    number,     \* `number' of _r3: whether it has a connection
    app,        \* the record the app holds of this validator
    session,    \* the app's latest connection
    blamed,     \* the checks that ended in FAIL or TOOL_ERROR
    agreed,     \* ghost: the pairing the two have, but for R4
    unpairing,  \* ghost: R4 has begun to dissolve it
    told,       \* ghost: the app carried out a server/unpair
    cut         \* ghost: Ctrl-C came while a save was awaited

store == <<memory, admit, disk, tmp, threads, saving>>
ghosts == <<agreed, unpairing, told, cut>>
vars == <<suites, pc, stopping, store, earlier, record, number, app, session, blamed, ghosts>>

Sessions == [open : BOOLEAN, trusted : BOOLEAN, initial : Keyings, last : Keyings,
             activated : {"pending", "roles", "nothing"}, unpair : {"none", "sent"},
             goodbye : BOOLEAN]

----------------------------------------------------------------------------
(* Sessions.                                                               *)

\* The server references the record it holds, or else the Sentinel; the app
\* matches that record, or falls back to the Sentinel.
Keying == IF memory = 0 THEN "sentinel" ELSE IF app = memory THEN "long_term" ELSE "fallback"

Session(keying) ==
    [open |-> TRUE, trusted |-> admit, initial |-> keying, last |-> keying,
     activated |-> "pending", unpair |-> "none", goodbye |-> FALSE]

\* Link.reconnect: the session is closed, and the app comes back or not.
Reconnect == session' \in {Session(Keying), [session EXCEPT !.open = FALSE]}

\* What the PSK id in Noise message 1 was, for each keying.
Referenced(keying) == IF keying = "sentinel" THEN "sentinel" ELSE "long_term"

\* Faulty variant: a fallback to the Sentinel is never what a step expects.
JudgeAsMatched(check, expected, keying) ==
    IF keying = expected /\ keying # "fallback" THEN {} ELSE {<<check, "FAIL">>}

\* _judge_keying
Judge(check, expected, keying) ==
    IF keying = expected THEN {}
    ELSE IF Referenced(keying) # Referenced(expected) THEN {<<check, "TOOL_ERROR">>}
    ELSE {<<check, "FAIL">>}

\* The initial keying of a session that reconnect returned, if it did.
JudgeReconnected(check, expected) ==
    blamed' = blamed \cup IF session'.open THEN Judge(check, expected, session'.initial) ELSE {}

\* The server sends server/activate: roles on a long-term session, or on the
\* Sentinel if the validator admitted the app at its hello and the app lets it.
Activate ==
    /\ session.open /\ session.activated = "pending"
    /\ \E what \in {"roles", "nothing"} :
          /\ session.last = "long_term" => what = "roles"
          /\ session.last = "sentinel" /\ ~session.trusted => what = "nothing"
          /\ session.last = "fallback" => what = "nothing"
          /\ session' = [session EXCEPT !.activated = what]
    /\ UNCHANGED <<suites, pc, stopping, store, earlier, record, number, app, blamed, ghosts>>

\* The app handles server/unpair: a session on the Sentinel ignores it.
HandleUnpair ==
    /\ session.open /\ session.unpair = "sent" /\ session.last = "long_term" /\ ~session.goodbye
    /\ app' = 0
    /\ told' = TRUE
    /\ session' = [session EXCEPT !.open = FALSE, !.goodbye = TRUE]
    /\ UNCHANGED <<suites, pc, stopping, store, earlier, record, number, blamed, agreed, unpairing, cut>>

LoseConnection ==
    /\ Flaky /\ session.open
    /\ session' = [session EXCEPT !.open = FALSE]
    /\ UNCHANGED <<suites, pc, stopping, store, earlier, record, number, app, blamed, ghosts>>

\* The app connects by itself.  While a step watches another session this
\* changes nothing it judges, and is left until the next question.
Connect ==
    /\ Flaky /\ pc \in Prompts /\ saving = 0
    /\ session' = Session(Keying)
    /\ UNCHANGED <<suites, pc, stopping, store, earlier, record, number, app, blamed, ghosts>>

----------------------------------------------------------------------------
(* The store.                                                              *)

Idle == [phase |-> "idle", payload |-> 0]

\* _save: a thread gets the state as it is now, SuiteRunner awaits the thread.
Save(rec) ==
    \E t \in Threads :
        /\ threads[t] = Idle
        /\ threads' = [threads EXCEPT ![t] = [phase |-> "write", payload |-> rec]]
        /\ saving' = t

Put(rec) == memory' = rec /\ Save(rec) /\ UNCHANGED <<admit, disk, tmp>>

\* remove_record writes nothing if there was nothing to remove.
Remove ==
    \/ memory # 0 /\ Put(0)
    \/ memory = 0 /\ UNCHANGED store

\* _atomic_write_json, in the thread: the temporary file, then its new name.
WriteTmp(t) ==
    /\ threads[t].phase = "write"
    /\ tmp' = threads[t].payload
    /\ threads' = [threads EXCEPT ![t].phase = "replace"]
    /\ UNCHANGED <<suites, pc, stopping, memory, admit, disk, saving, earlier, record,
                   number, app, session, blamed, ghosts>>

Awaited(t) == saving' = IF saving = t THEN 0 ELSE saving

Replace(t) ==
    /\ threads[t].phase = "replace" /\ tmp # NoFile
    /\ disk' = tmp
    /\ tmp' = NoFile
    /\ threads' = [threads EXCEPT ![t] = Idle]
    /\ Awaited(t)
    /\ UNCHANGED <<suites, pc, stopping, memory, admit, earlier, record, number, app, session,
                   blamed, ghosts>>

\* Another thread has renamed the file away: FileNotFoundError, which ends a
\* run that awaits this thread.
ReplaceFails(t) ==
    /\ threads[t].phase = "replace" /\ tmp = NoFile
    /\ threads' = [threads EXCEPT ![t] = Idle]
    /\ Awaited(t)
    /\ pc' = IF saving = t THEN "stopped" ELSE pc
    /\ stopping' = (stopping \/ saving = t)
    /\ UNCHANGED <<suites, memory, admit, disk, tmp, earlier, record, number, app, session,
                   blamed, ghosts>>

----------------------------------------------------------------------------
Init ==
    /\ suites \in (SUBSET Suites) \ {{}}
    /\ pc = "unpaired" /\ stopping = FALSE
    /\ memory \in {0, 1} /\ disk = memory /\ tmp = NoFile /\ admit = TRUE
    /\ threads = [t \in Threads |-> Idle] /\ saving = 0
    /\ app \in {0, 1} /\ (memory # 0 => app = memory)
    /\ earlier = 0 /\ record = 0 /\ number = FALSE
    /\ session = [Session(Keying) EXCEPT !.activated = "nothing"]
    /\ blamed = {}
    /\ agreed = memory /\ unpairing = FALSE /\ told = FALSE /\ cut = FALSE

\* SuiteRunner runs on only when no save is awaited.
At(label) == pc = label /\ saving = 0

Go(label) == pc' = label

Unpaired ==
    /\ At("unpaired")
    /\ \/ "unpaired" \in suites /\ earlier' = memory /\ Go("U1")
       \/ "unpaired" \notin suites /\ UNCHANGED earlier /\ Go("pairing")
    /\ UNCHANGED <<suites, stopping, store, record, number, app, session, blamed, ghosts>>

\* A question answered with skip, or with no.
Skip(label, next) ==
    /\ At(label) /\ Go(next)
    /\ UNCHANGED <<suites, stopping, store, earlier, record, number, app, session, blamed, ghosts>>

U1 ==
    /\ At("U1")
    /\ \/ /\ memory = 0
          /\ blamed' = blamed \cup Judge("U1", "sentinel", session.initial)
          /\ Go("U2")
       \/ memory # 0 /\ UNCHANGED blamed /\ Go("U1 reconnect")
    /\ Remove
    /\ UNCHANGED <<suites, stopping, earlier, record, number, app, session, ghosts>>

U1Reconnect ==
    /\ At("U1 reconnect") /\ Go("U2")
    /\ Reconnect
    /\ JudgeReconnected("U1", "sentinel")
    /\ UNCHANGED <<suites, stopping, store, earlier, record, number, app, ghosts>>

\* U2, U4 and U3 reconnect until a session suits them, and end it or not.
U2ToU3 ==
    /\ At("U2")
    /\ Reconnect
    /\ UNCHANGED <<suites, pc, stopping, store, earlier, record, number, app, blamed, ghosts>>

\* Faulty variant: the earlier pairing is restored unless the run is stopped.
URestoreIfDone ==
    /\ At("U restore")
    /\ Go(IF stopping THEN "stopped" ELSE "pairing")
    /\ IF earlier # 0 /\ ~stopping THEN Put(earlier) ELSE UNCHANGED store
    /\ UNCHANGED <<suites, stopping, earlier, record, number, app, session, blamed, ghosts>>

\* The finally of _unpaired.
URestore ==
    /\ At("U restore")
    /\ Go(IF stopping THEN "stopped" ELSE "pairing")
    /\ IF earlier # 0 THEN Put(earlier) ELSE UNCHANGED store
    /\ UNCHANGED <<suites, stopping, earlier, record, number, app, session, blamed, ghosts>>

Pairing ==
    /\ At("pairing")
    /\ Go(IF "pairing" \in suites THEN "PAIR" ELSE "post-pairing")
    /\ UNCHANGED <<suites, stopping, store, earlier, record, number, app, session, blamed, ghosts>>

\* The outcome of the pairing suite, if a method succeeds: the session is
\* rekeyed onto a record that both have.
Pair ==
    /\ At("PAIR") /\ session.open /\ Go("post-pairing")
    /\ Put(2)
    /\ app' = 2 /\ agreed' = 2
    /\ session' = [session EXCEPT !.last = "long_term"]
    /\ UNCHANGED <<suites, stopping, earlier, record, number, blamed, unpairing, told, cut>>

PostPairing ==
    /\ At("post-pairing")
    /\ Go(IF "post-pairing" \in suites /\ memory # 0 THEN "R1" ELSE "over")
    /\ UNCHANGED <<suites, stopping, store, earlier, record, number, app, session, blamed, ghosts>>

R1 ==
    /\ At("R1") /\ Go("R3")
    /\ Reconnect
    /\ JudgeReconnected("R1", "long_term")
    /\ UNCHANGED <<suites, stopping, store, earlier, record, number, app, ghosts>>

----------------------------------------------------------------------------
(* R3: the validator forgets the pairing, and restores it.                 *)

R3 ==
    /\ At("R3") /\ Go("R3 withhold")
    /\ record' = memory
    /\ Remove
    /\ UNCHANGED <<suites, stopping, earlier, number, app, session, blamed, ghosts>>

R3Withhold ==
    /\ At("R3 withhold") /\ Go("R3 reconnect")
    /\ admit' = FALSE
    /\ UNCHANGED <<suites, stopping, memory, disk, tmp, threads, saving, earlier, record,
                   number, app, session, blamed, ghosts>>

R3Reconnect ==
    /\ At("R3 reconnect")
    /\ Reconnect
    /\ number' = session'.open
    /\ Go(IF number' THEN "R3 activated" ELSE "R3 restore")
    /\ UNCHANGED <<suites, stopping, store, earlier, record, app, blamed, ghosts>>

\* The session ended, server/activate came, or time ran out.
R3Activated ==
    /\ At("R3 activated") /\ Go("R3 restore")
    /\ UNCHANGED <<suites, stopping, store, earlier, record, number, app, session, blamed, ghosts>>

R3Restore ==
    /\ At("R3 restore") /\ Go("R3 admit")
    /\ Put(record)
    /\ UNCHANGED <<suites, stopping, earlier, record, number, app, session, blamed, ghosts>>

\* check_forgotten_reconnect, in the same step as the end of the finally.
R3Admit ==
    /\ At("R3 admit") /\ Go(IF stopping THEN "stopped" ELSE "R5")
    /\ admit' = TRUE
    /\ number' = FALSE
    /\ blamed' = blamed \cup
          IF stopping \/ ~number THEN {}
          ELSE IF session.activated = "roles" THEN {<<"R3", "TOOL_ERROR">>}
          ELSE Judge("R3", "sentinel", session.initial)
    /\ UNCHANGED <<suites, stopping, memory, disk, tmp, threads, saving, earlier, record,
                   app, session, ghosts>>

----------------------------------------------------------------------------
(* R5: the user restarts the app.  R4: the validator unpairs it.           *)

R5 ==
    /\ At("R5")
    /\ Reconnect
    /\ Go(IF session'.open THEN "R5 restart" ELSE "R4")
    /\ UNCHANGED <<suites, stopping, store, earlier, record, number, app, blamed, ghosts>>

R5Restarted ==
    /\ At("R5 restart") /\ Go("R5 return")
    /\ UNCHANGED <<suites, stopping, store, earlier, record, number, app, session, blamed, ghosts>>

\* await_reconnect returns the session after the restart; or None, whatever
\* became of the session.
R5Return ==
    /\ At("R5 return") /\ Go("R4")
    /\ \/ session' = Session(Keying) /\ JudgeReconnected("R5", "long_term")
       \/ session' \in {session, [session EXCEPT !.open = FALSE]} /\ UNCHANGED blamed
    /\ UNCHANGED <<suites, stopping, store, earlier, record, number, app, ghosts>>

R4 ==
    /\ At("R4") /\ Go(IF session.open THEN "R4 unpair" ELSE "R4 open")
    /\ record' = memory
    /\ UNCHANGED <<suites, stopping, store, earlier, number, app, session, blamed, ghosts>>

R4Open ==
    /\ At("R4 open")
    /\ Reconnect
    /\ Go(IF session'.open THEN "R4 unpair" ELSE "over")
    /\ UNCHANGED <<suites, stopping, store, earlier, record, number, app, blamed, ghosts>>

\* server.unpair, which raises if the connection is lost, forgets the record
\* and then tells the app, if the connection is still there.
R4Unpair ==
    /\ At("R4 unpair")
    /\ \/ ~session.open /\ Go("over") /\ UNCHANGED <<store, unpairing>>
       \/ session.open /\ Go("R4 tell") /\ Remove /\ unpairing' = TRUE
    /\ UNCHANGED <<suites, stopping, earlier, record, number, app, session, blamed, agreed, told,
                   cut>>

R4Tell ==
    /\ At("R4 tell") /\ Go("R4 goodbye")
    /\ session' = [session EXCEPT !.unpair = IF session.open THEN "sent" ELSE "none"]
    /\ UNCHANGED <<suites, stopping, store, earlier, record, number, app, blamed, ghosts>>

Unpairable == session.unpair = "sent" /\ session.last = "long_term"

\* The session ended, or the app had the time to answer and did not.  Then
\* check_unpair_goodbye, and the record back into the store.
R4Goodbye ==
    /\ At("R4 goodbye") /\ Go("R4 reconnect")
    /\ ~(session.open /\ Unpairable)
    /\ blamed' = blamed \cup
          IF Unpairable /\ ~session.goodbye THEN {<<"R4 goodbye", "FAIL">>} ELSE {}
    /\ Put(record)
    /\ UNCHANGED <<suites, stopping, earlier, record, number, app, session, ghosts>>

\* check_record_dropped: the app must miss the lookup of the record.
R4Reconnect ==
    /\ At("R4 reconnect") /\ Go("R4 forget")
    /\ Reconnect
    /\ JudgeReconnected("R4 record", "fallback")
    /\ UNCHANGED <<suites, stopping, store, earlier, record, number, app, ghosts>>

R4Forget ==
    /\ At("R4 forget") /\ Go(IF stopping THEN "stopped" ELSE "over")
    /\ Remove
    /\ UNCHANGED <<suites, stopping, earlier, record, number, app, session, blamed, ghosts>>

\* Ctrl-C cancels SuiteRunner where it waits, and the write it waits for unless
\* the thread has begun it.  A finally around that place runs.
Interrupt ==
    /\ ~stopping
    /\ \/ /\ saving = 0 /\ pc \in Prompts \cup Waits
          /\ UNCHANGED <<threads, cut>>
       \/ /\ saving # 0 /\ cut' = TRUE
          /\ threads' \in {threads}
                \cup {[threads EXCEPT ![t] = Idle] : t \in {t \in Threads :
                         t = saving /\ threads[t].phase = "write"}}
    /\ stopping' = TRUE
    /\ saving' = 0
    /\ pc' = CASE pc \in {"U1", "U1 reconnect", "U2"} -> "U restore"
               [] pc \in {"R3 reconnect", "R3 activated"} -> "R3 restore"
               [] pc \in {"R4 goodbye", "R4 reconnect"} -> "R4 forget"
               [] OTHER -> "stopped"
    /\ UNCHANGED <<suites, memory, admit, disk, tmp, earlier, record, number, app,
                   session, blamed, agreed, unpairing, told>>

----------------------------------------------------------------------------
Skips ==
    \/ Skip("U1", "U2") \/ Skip("U2", "U restore") \/ Skip("PAIR", "post-pairing")
    \/ Skip("R1", "R3") \/ Skip("R3", "R5") \/ Skip("R5", "R4")
    \/ Skip("R5 restart", "R4") \/ Skip("R4", "over")

Steps ==
    \/ Unpaired \/ U1 \/ U1Reconnect \/ U2ToU3 \/ URestore
    \/ Pairing \/ Pair \/ PostPairing
    \/ R1 \/ R3 \/ R3Withhold \/ R3Reconnect \/ R3Activated \/ R3Restore \/ R3Admit
    \/ R5 \/ R5Restarted \/ R5Return
    \/ R4 \/ R4Open \/ R4Unpair \/ R4Tell \/ R4Goodbye \/ R4Reconnect \/ R4Forget

Thread(t) == WriteTmp(t) \/ Replace(t) \/ ReplaceFails(t)

Next ==
    \/ Skips \/ Steps \/ Interrupt
    \/ \E t \in Threads : Thread(t)
    \/ Activate \/ HandleUnpair \/ LoseConnection \/ Connect

Spec == Init /\ [][Next]_vars

----------------------------------------------------------------------------
TypeOK ==
    /\ suites \in (SUBSET Suites) \ {{}}
    /\ pc \in Prompts \cup Waits \cup Others \cup Ends /\ stopping \in BOOLEAN
    /\ memory \in Records /\ admit \in BOOLEAN
    /\ disk \in Records /\ tmp \in Records \cup {NoFile}
    /\ threads \in [Threads -> [phase : {"idle", "write", "replace"}, payload : Records]]
    /\ saving \in {0} \cup Threads /\ (saving # 0 => threads[saving].phase # "idle")
    /\ earlier \in Records /\ record \in Records /\ number \in BOOLEAN
    /\ app \in Records /\ session \in Sessions
    /\ blamed \subseteq {"U1", "R1", "R3", "R5", "R4 goodbye", "R4 record"}
                         \X {"FAIL", "TOOL_ERROR"}
    /\ agreed \in Records /\ unpairing \in BOOLEAN /\ told \in BOOLEAN /\ cut \in BOOLEAN

\* Every later step finds the pairing, in memory and on disk, with the
\* approval of unpaired playback, and so does the next run; once R4 has begun
\* to dissolve it, the next run finds none.
Kept ==
    /\ pc \in Prompts \ {"U2"} /\ saving = 0 /\ ~stopping =>
          memory = agreed /\ disk = agreed /\ admit
    /\ pc \in Ends /\ (\A t \in Threads : threads[t] = Idle) =>
          disk = IF unpairing THEN 0 ELSE agreed

\* Whatever the user skips and the app does, and also if Ctrl-C stops the run
\* at a question or a wait for the app, U1 and R3 give the pairing back.
PairingIsKept == ~cut => Kept

\* What R3 tells the user: "It restores the pairing afterwards."  Once R3 has looked the pairing up, a run that ends, with its
\* threads done, has it in the file, unless R4 has begun to dissolve it.
PairingIsRestored ==
    record # 0 /\ ~unpairing /\ pc \in Ends /\ (\A t \in Threads : threads[t] = Idle) => disk = agreed

\* No step ends in TOOL_ERROR: the sessions it judges reference the PSK the
\* step is about, and the validator never activates an app that it forgot.
ValidatorNotToBlame == \A b \in blamed : b[2] # "TOOL_ERROR"

\* An app that keeps the spec fails nothing but R4, and not even that once it
\* has carried out server/unpair.
FailedAppWasNotTold ==
    \A b \in blamed : b[2] = "FAIL" => b[1] \in {"R4 goodbye", "R4 record"} /\ ~told
=============================================================================
