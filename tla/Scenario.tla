------------------------------- MODULE Scenario -------------------------------
(***************************************************************************)
(* One case of the matrix from the adapters' side: the server adapter       *)
(* (adapters/aiosendspin_server.py) and the client adapter                  *)
(* (adapters/aiosendspin_client.py) find each other through the registry    *)
(* file (registry.py), run a scenario over the implementations under test,  *)
(* write their summaries, and the runner compares them (_compare_summaries  *)
(* of runner.py, chunk_framing.py, declared_formats.py).                    *)
(*                                                                          *)
(* Either implementation may have one fault. A clip is Blocks blocks, a     *)
(* hash is what it is a hash of, and a format is its codec and bit depth.   *)
(* Frames keep their order. The adapters' fixed sleeps are long enough for  *)
(* what is under way to arrive: they end when both directions are empty.    *)
(* "opus" stands for a client adapter that can list it; the checks of the   *)
(* opening messages have modules of their own.                              *)
(***************************************************************************)
EXTENDS Integers, Sequences, SequencesExt

CONSTANTS Blocks,      \* blocks of the clip
          Faults       \* the faults an implementation may have, "none" with them

VARIABLES kind, initiator, fault, adapter,
          reg,         \* the registry file: "absent", "torn" while it is being written, "written"
          spc, cpc,    \* the server adapter and the client adapter
          down, up,    \* frames to the client, frames to the server
          next,        \* the next block the server commits
          fmt,         \* the format of the stream, "none" before it
          clock,       \* the server's clock
          srv, cli,    \* what each adapter has recorded
          ssum, csum,  \* the status of each summary, "none" until it is written
          did          \* ghost: the fault has shown itself

vars == <<kind, initiator, fault, adapter, reg, spc, cpc, down, up, next, fmt, clock, srv, cli, ssum, csum, did>>
case == <<kind, initiator, fault, adapter>>

Kinds == {"pcm", "pcm24", "flac", "opus", "framing", "format", "metadata", "controller", "artwork"}
Audio == {"pcm", "pcm24", "flac", "opus", "framing", "format"}
ServerFaults == {"skip", "swap", "future", "undeclared", "keeps", "header", "long", "short", "depth",
                 "priority", "stale", "wrongart"}
ClientFaults == {"drop", "garble", "unavailable", "nocommand", "othercommand", "readsheader", "nopref"}
\* What the client's adapter can report: one that does not decode, one that sees no raw frame.
Adapters == CASE kind = "flac" -> {"full", "nodecode"} [] kind = "framing" -> {"full", "blind"} [] OTHER -> {"full"}

Codec(f) == CASE f \in {"pcm16", "pcm24", "pcm32"} -> "pcm" [] f = "flac16" -> "flac" [] f = "opus16" -> "opus"
Depth(f) == CASE f = "pcm24" -> 24 [] f = "pcm32" -> 32 [] OTHER -> 16

\* _supported_formats
Declared ==
    CASE kind = "pcm24" -> <<"pcm24">> [] kind = "flac" -> <<"flac16">> [] kind = "opus" -> <<"opus16", "pcm16">>
      [] kind = "format" -> <<"pcm24", "pcm16">> [] OTHER -> <<"pcm16">>

Init ==
    /\ kind \in Kinds /\ initiator \in {"server", "client"} /\ fault \in Faults
    /\ adapter \in Adapters
    /\ reg = "absent" /\ spc = "boot" /\ cpc = "off" /\ down = <<>> /\ up = <<>>
    /\ next = 1 /\ fmt = "none" /\ clock = 0
    /\ srv = [stream |-> "none", sent |-> <<>>, frames |-> <<>>, first |-> <<>>, pref |-> "none",
              command |-> "none", advertised |-> <<>>]
    /\ cli = [stream |-> "none", chunks |-> <<>>, frames |-> <<>>, held |-> <<>>, pcm |-> <<>>,
              formats |-> <<>>, meta |-> <<>>, first |-> <<>>, state |-> <<>>, command |-> "none", art |-> <<>>]
    /\ ssum = "none" /\ csum = "none" /\ did = FALSE

Frame(t, a, b) == [t |-> t, a |-> a, b |-> b]
Has(f, ks) == fault = f /\ kind \in ks
Idle == down = <<>> /\ up = <<>>

-----------------------------------------------------------------------------
(* Discovery.                                                                *)

\* register_endpoint, then the ready file: write_text empties the file before it fills it.
ServerRegisters ==
    /\ spc = "boot" /\ initiator = "client" /\ reg # "written"
    /\ reg' = IF reg = "torn" THEN "written" ELSE "torn"
    /\ UNCHANGED <<case, spc, cpc, down, up, next, fmt, clock, srv, cli, ssum, csum, did>>

ServerReady ==
    /\ spc = "boot" /\ (initiator = "client" => reg = "written")
    /\ spc' = "waiting"
    /\ UNCHANGED <<case, reg, cpc, down, up, next, fmt, clock, srv, cli, ssum, csum, did>>

\* The runner starts the client once the server's ready file exists.
ClientStarts ==
    /\ cpc = "off" /\ spc # "boot"
    /\ cpc' = IF initiator = "client" THEN "looking" ELSE "boot"
    /\ UNCHANGED <<case, reg, spc, down, up, next, fmt, clock, srv, cli, ssum, csum, did>>

ClientRegisters ==
    /\ cpc = "boot" /\ reg # "written"
    /\ reg' = IF reg = "torn" THEN "written" ELSE "torn"
    /\ UNCHANGED <<case, spc, cpc, down, up, next, fmt, clock, srv, cli, ssum, csum, did>>

ClientListens ==
    /\ cpc = "boot" /\ reg = "written"
    /\ cpc' = "listening"
    /\ UNCHANGED <<case, reg, spc, down, up, next, fmt, clock, srv, cli, ssum, csum, did>>

\* The adapter's except clause: an error summary, and the server closes what it has.
ServerFails ==
    /\ spc' = "done" /\ ssum' = "error"
    /\ down' = IF cpc = "connected" THEN Append(down, Frame("bye", "", 0)) ELSE down

\* SentMetadataStateRecorder reads the clock once the state is out.
Bound(before, after) == after

\* A state with a metadata object leaves between two readings of the clock, stamped at a time between them
\* by a server that conforms.
SendMeta(what, before, after, stamp) ==
    LET ts == IF fault = "future" THEN after + 1 ELSE stamp
    IN  /\ down' = Append(down, Frame("meta", what, ts))
        /\ srv' = [srv EXCEPT !.first = IF @ = <<>> THEN <<ts, Bound(before, after)>> ELSE @]
        /\ clock' = after

\* The first frames of a connection: the availability a player reports, and what the SDK sends an
\* activated role, a metadata object that is null or has only a timestamp.
Opening ==
    /\ up' = IF kind \in Audio /\ fault # "unavailable" THEN <<Frame("available", "", 0)>> ELSE <<>>
    /\ IF kind = "metadata"
       THEN \/ down' = <<Frame("meta", "null", 0)>> /\ UNCHANGED <<srv, clock, did>>
            \/ \E after \in clock .. clock + 1 : \E stamp \in clock .. after :
                  SendMeta("blank", clock, after, stamp) /\ did' = (did \/ fault = "future")
       ELSE /\ down' = IF kind = "controller" THEN <<Frame("control", <<"off", {}>>, 0)>> ELSE <<>>
            /\ did' = (did \/ Has("unavailable", Audio))
            /\ UNCHANGED <<srv, clock>>

\* lookup_endpoint, on a file that is being written.
ServerLooksTorn ==
    /\ spc = "waiting" /\ initiator = "server" /\ reg = "torn"
    /\ ServerFails
    /\ UNCHANGED <<case, reg, cpc, up, next, fmt, clock, srv, cli, csum, did>>

\* _wait_for_target_client dials; _wait_for_server_url and connect.
Connect ==
    /\ reg = "written" /\ spc = "waiting"
    /\ cpc = IF initiator = "server" THEN "listening" ELSE "looking"
    /\ spc' = "running" /\ cpc' = "connected"
    /\ Opening
    /\ UNCHANGED <<case, reg, next, fmt, cli, ssum, csum>>

-----------------------------------------------------------------------------
(* The server adapter's scenarios.                                           *)

\* stream/start, as capture_stream_start and the client see it.
Start(f) == Frame("start", f, 0)

\* A chunk: its payload, as the encoded bytes, and its size and header in bytes.
Chunk(f, bs, size) ==
    [t |-> "chunk", a |-> <<f, bs>>, b |-> [ts |-> next, size |-> size, header |-> IF fault = "header" THEN 9 ELSE 13]]

\* The player role's pick: the first entry it can produce, or the preferred one.
Picks ==
    CASE Has("undeclared", Audio) -> "pcm32"
      [] Has("depth", {"pcm24"}) -> "pcm16"
      [] Has("priority", {"opus"}) -> "pcm16"
      [] srv.pref # "none" /\ fault # "keeps" -> srv.pref
      [] OTHER -> Declared[1]

\* _wait_for_client_available, then start_stream.
StartStream ==
    /\ spc = "running" /\ kind \in Audio /\ up # <<>> /\ Head(up).t = "available"
    /\ up' = Tail(up) /\ spc' = "streaming"
    /\ UNCHANGED <<case, reg, cpc, down, next, fmt, clock, srv, cli, ssum, csum, did>>

\* prepare_audio and commit_audio of the next block; a format change starts the stream anew.
Commit ==
    LET b == IF Has("swap", Audio) /\ next < 3 THEN 3 - next ELSE next
        lost == Has("skip", Audio) /\ next = 1
        bs == IF Has("long", {"framing"}) /\ next = 1 THEN <<b, b>> ELSE <<b>>
        size == IF Has("long", {"framing"}) /\ next = 1 THEN 200 ELSE IF Has("short", {"framing"}) /\ next = 1 THEN 10 ELSE 100
        start == IF fmt = Picks THEN <<>> ELSE <<Start(Picks)>>
        out == start \o (IF lost THEN <<>> ELSE <<Chunk(Picks, bs, size)>>)
    IN  /\ spc = "streaming" /\ next <= Blocks
        /\ kind = "format" => Idle
        /\ down' = down \o out /\ fmt' = Picks /\ next' = next + 1
        /\ srv' = [srv EXCEPT !.stream = Picks,
                              !.sent = IF lost THEN @ ELSE Append(@, <<Picks, bs>>),
                              !.frames = IF lost THEN @ ELSE Append(@, Chunk(Picks, bs, size).b)]
        /\ did' = (did \/ Has("swap", Audio) \/ lost \/ Has("undeclared", Audio) \/ Has("depth", {"pcm24"})
                   \/ Has("priority", {"opus"}) \/ Has("header", {"framing"}) \/ Has("long", {"framing"})
                   \/ Has("short", {"framing"}) \/ (Has("keeps", {"format"}) /\ srv.pref # "none"))
        /\ UNCHANGED <<case, reg, spc, cpc, up, clock, cli, ssum, csum>>

\* on_client_state_wrapper
ServerReads ==
    /\ spc \in {"streaming", "settling"} /\ up # <<>> /\ Head(up).t = "pref"
    /\ up' = Tail(up) /\ srv' = [srv EXCEPT !.pref = Head(up).a]
    /\ UNCHANGED <<case, reg, spc, cpc, down, next, fmt, clock, cli, ssum, csum, did>>

\* _run_metadata_scenario
UpdateMetadata ==
    /\ spc = "running" /\ kind = "metadata"
    /\ \E after \in clock .. clock + 1 : \E stamp \in clock .. after :
          SendMeta(IF fault = "stale" THEN "other" ELSE "track", clock, after, stamp)
    /\ did' = (did \/ (fault = "future" /\ srv.first = <<>>) \/ Has("stale", {"metadata"}))
    /\ spc' = "settling"
    /\ UNCHANGED <<case, reg, cpc, up, next, fmt, cli, ssum, csum>>

\* _run_controller_scenario: each setter pushes the state, which send_role_message_wrapper records.
SetController ==
    LET states == <<<<"all", {}>>, <<"all", {"next"}>>>>
    IN  /\ spc = "running" /\ kind = "controller" /\ next <= Len(states)
        /\ down' = Append(down, Frame("control", states[next], 0))
        /\ srv' = [srv EXCEPT !.advertised = states[next]]
        /\ next' = next + 1 /\ spc' = IF next = Len(states) THEN "commanded" ELSE spc
        /\ UNCHANGED <<case, reg, cpc, up, fmt, clock, cli, ssum, csum, did>>

\* on_group_event
Commanded ==
    /\ spc = "commanded" /\ up # <<>>
    /\ up' = Tail(up) /\ srv' = [srv EXCEPT !.command = Head(up).a] /\ spc' = "settling"
    /\ UNCHANGED <<case, reg, cpc, down, next, fmt, clock, cli, ssum, csum, did>>

\* _run_artwork_scenario
SetArtwork ==
    /\ spc = "running" /\ kind = "artwork"
    /\ down' = Append(down, Frame("art", IF fault = "wrongart" THEN "other" ELSE "image", 0))
    /\ did' = (did \/ fault = "wrongart")
    /\ spc' = "settling"
    /\ UNCHANGED <<case, reg, cpc, up, next, fmt, clock, srv, cli, ssum, csum>>

\* The settling sleep, group.stop for a stream, another sleep, and the disconnect.
Settle ==
    /\ spc = "settling" \/ (spc = "streaming" /\ next > Blocks)
    /\ Idle
    /\ down' = IF spc = "streaming" THEN <<Frame("end", "", 0), Frame("bye", "", 0)>> ELSE <<Frame("bye", "", 0)>>
    /\ spc' = "leaving"
    /\ UNCHANGED <<case, reg, cpc, up, next, fmt, clock, srv, cli, ssum, csum, did>>

ServerSummary ==
    /\ spc = "leaving"
    /\ spc' = "done" /\ ssum' = "ok"
    /\ UNCHANGED <<case, reg, cpc, down, up, next, fmt, clock, srv, cli, csum, did>>

\* A deadline of the adapter: the client never came, never became available, never sent its command.
ServerTimeout ==
    /\ \/ spc = "running" /\ kind \in Audio /\ Has("unavailable", Audio)
       \/ spc = "commanded" /\ fault = "nocommand" /\ Idle
    /\ ServerFails
    /\ UNCHANGED <<case, reg, cpc, up, next, fmt, clock, srv, cli, csum, did>>

-----------------------------------------------------------------------------
(* The client adapter's listeners.                                           *)

\* flush_decoder
Flush(c) == [c EXCEPT !.held = <<>>, !.pcm = @ \o c.held]

\* on_audio_chunk: the FLAC decoder gives up a block once the next one has come.
Decoded(c, f, bs) ==
    LET heard == IF fault = "garble" THEN [i \in DOMAIN bs |-> 0] ELSE bs
    IN  CASE Codec(f) = "opus" \/ adapter = "nodecode" -> c
          [] Codec(f) = "flac" /\ adapter # "nodecode" -> [c EXCEPT !.pcm = @ \o c.held, !.held = heard]
          [] Codec(f) = "pcm" /\ adapter # "nodecode" -> [c EXCEPT !.pcm = @ \o heard]

\* on_audio_chunk, with ReceivedBinaryFrameRecorder below it.
OnChunk(c, m) ==
    LET read == [m.b EXCEPT !.header = IF fault = "readsheader" THEN 9 ELSE m.b.header]
        next1 == [c EXCEPT !.chunks = Append(@, m.a), !.frames = Append(@, read)]
    IN  Decoded(next1, m.a[1], m.a[2])

\* on_format_preference_chunk: the formats seen, and the preference the first one prompts.
OnFormatChunk(c, m) ==
    [c EXCEPT !.formats = IF @ # <<>> /\ Last(@) = m.a[1] THEN @ ELSE Append(@, m.a[1])]
Prefers(c, m) == c.formats = <<>> /\ m.t = "chunk" /\ kind = "format" /\ fault # "nopref"

\* on_metadata
OnMeta(c, m) ==
    [c EXCEPT !.meta = Append(@, m.a), !.first = IF m.a = "null" \/ @ # <<>> THEN @ ELSE <<m.b>>]

\* on_controller_state
Commands(c, m) == m.t = "control" /\ c.command = "none" /\ "next" \in m.a[2] /\ fault # "nocommand"
OnControl(c, m) ==
    [c EXCEPT !.state = m.a, !.command = IF Commands(c, m) THEN "next" ELSE @]

Handle(c, m) ==
    CASE m.t = "start" -> [c EXCEPT !.stream = IF kind = "format" /\ @ # "none" THEN @ ELSE m.a]
      [] m.t = "chunk" /\ kind = "format" -> OnFormatChunk(c, m)
      [] m.t = "chunk" /\ kind # "format" -> IF fault = "drop" /\ c.chunks = <<>> /\ m.b.ts < 2 THEN c ELSE OnChunk(c, m)
      [] m.t = "meta" -> OnMeta(c, m)
      [] m.t = "control" -> OnControl(c, m)
      [] m.t = "art" -> [c EXCEPT !.art = Append(@, m.a)]
      [] m.t = "end" -> Flush(c)
      [] m.t = "bye" -> Flush(c)

ClientReads ==
    LET m == Head(down)
    IN  /\ cpc = "connected" /\ down # <<>>
        /\ down' = Tail(down)
        /\ cli' = Handle(cli, m)
        /\ up' = up \o (IF Prefers(cli, m) THEN <<Frame("pref", Declared[2], 0)>> ELSE <<>>)
                    \o (IF Commands(cli, m)
                        THEN <<Frame("command", IF fault = "othercommand" THEN "pause" ELSE "next", 0)>> ELSE <<>>)
        /\ cpc' = IF m.t = "bye" THEN "left" ELSE cpc
        /\ did' = (did \/ (m.t = "chunk" /\ kind # "format" /\ (fault = "drop" /\ m.b.ts < 2))
                   \/ (m.t = "chunk" /\ kind \notin {"format", "opus"} /\ fault = "garble")
                   \/ (m.t = "chunk" /\ kind = "format" /\ fault = "nopref")
                   \/ (m.t = "chunk" /\ kind = "framing" /\ fault = "readsheader")
                   \/ (m.t = "control" /\ fault \in {"nocommand", "othercommand"} /\ "next" \in m.a[2]))
        /\ UNCHANGED <<case, reg, spc, next, fmt, clock, srv, ssum, csum>>

ClientSummary ==
    /\ cpc = "left" /\ cpc' = "done" /\ csum' = "ok"
    /\ UNCHANGED <<case, reg, spc, down, up, next, fmt, clock, srv, cli, ssum, did>>

\* The client's own deadline, on a server that never came.
ClientTimeout ==
    /\ spc = "done" /\ cpc \in {"listening", "looking"}
    /\ cpc' = "done" /\ csum' = "error"
    /\ UNCHANGED <<case, reg, spc, down, up, next, fmt, clock, srv, cli, ssum, did>>

Next ==
    \/ ServerRegisters \/ ServerReady \/ ClientStarts \/ ClientRegisters \/ ClientListens
    \/ ServerLooksTorn \/ Connect
    \/ StartStream \/ Commit \/ ServerReads \/ UpdateMetadata \/ SetController \/ Commanded \/ SetArtwork
    \/ Settle \/ ServerSummary \/ ServerTimeout
    \/ ClientReads \/ ClientSummary \/ ClientTimeout

Spec == Init /\ [][Next]_vars /\ WF_vars(Next)

-----------------------------------------------------------------------------
(* The runner's comparison. A verdict is "pass", or the side its reason      *)
(* names: the server, the client, a gap of the harness, or neither.          *)

Source == [b \in 1 .. Blocks |-> b]
Streams == ({srv.stream, cli.stream} \cup {cli.formats[i] : i \in DOMAIN cli.formats}) \ {"none"}

\* The first verdict of a list that is not a pass.
FirstOf(vs) == IF \A i \in DOMAIN vs : vs[i] = "pass" THEN "pass"
               ELSE vs[CHOOSE i \in DOMAIN vs : vs[i] # "pass" /\ \A j \in 1 .. i - 1 : vs[j] = "pass"]
Unless(bad, who) == IF bad THEN who ELSE "pass"

\* _compare_audio_summaries
AudioVerdict == IF cli.chunks = <<>> THEN "client" ELSE Unless(cli.pcm # Source, "neither")

\* stream_bit_depth_violation
BitDepth ==
    IF srv.stream = "none" THEN "gap"
    ELSE IF Depth(srv.stream) # 24 THEN (IF "pcm24" \in ToSet(Declared) THEN "server" ELSE "gap")
    ELSE Unless(cli.stream # "none" /\ Depth(cli.stream) # 24, "client")

\* Faulty variant: bytes that arrived as they were sent are taken for the whole clip.
DecodedTransportOnly == "pass"

\* _decoded_audio_verdict: judged where a lossless codec was decoded.
DecodedVerdict ==
    IF kind = "opus" \/ cli.pcm = <<>> THEN "pass" ELSE Unless(cli.pcm # Source, "neither")

\* _compare_encoded_audio_summaries
EncodedVerdict ==
    FirstOf(<<Unless(srv.stream = "none" \/ Codec(srv.stream) # kind, "server"),
              Unless(cli.stream # "none" /\ Codec(cli.stream) # kind, "client"),
              Unless(srv.sent = <<>>, "server"), Unless(cli.chunks = <<>>, "client"),
              Unless(srv.sent # cli.chunks, "neither"), DecodedVerdict>>)

\* format_priority_violation
Priority ==
    LET codecs == {Codec(f) : f \in ToSet(Declared)}
    IN  Unless(srv.stream # "none" /\ Codec(srv.stream) # "opus" /\ Codec(srv.stream) \in codecs, "server")

\* _header_violation
HeaderViolation(frames) == \E i \in DOMAIN frames : frames[i].header # 13

\* _chunk_durations_verdict: none longer than 150 ms, none but the last shorter than 15.
Durations ==
    Unless(\E i \in DOMAIN srv.frames :
              srv.frames[i].size > 150 \/ (srv.frames[i].size < 15 /\ i # Len(srv.frames)), "server")

Bytes(frames) == FoldLeft(LAMBDA n, f : n + f.size + 13 - f.header, 0, frames)

\* _unobserved_client_verdict
Unobserved == IF Bytes(cli.frames) # Bytes(srv.frames) THEN "client" ELSE "gap"

\* chunk_framing_verdict
FramingVerdict ==
    FirstOf(<<Unless(srv.frames = <<>>, "server"), Unless(HeaderViolation(srv.frames), "server"), Durations,
              Unless(adapter = "blind", Unobserved),
              Unless(Len(cli.frames) # Len(srv.frames), "client"), Unless(HeaderViolation(cli.frames), "client")>>)

\* _first_metadata_state_verdict: nothing is judged unless both sides name the same state.
FirstState ==
    Unless(cli.first # <<>> /\ srv.first # <<>> /\ cli.first[1] = srv.first[1] /\ cli.first[1] > srv.first[2], "server")

\* _compare_metadata_summaries
MetadataVerdict ==
    FirstOf(<<Unless(cli.meta = <<>>, "client"), Unless(cli.meta # <<>> /\ Last(cli.meta) # "track", "neither"),
              FirstState>>)

\* _compare_controller_summaries, with _compare_controller_supported_commands
ControllerVerdict ==
    FirstOf(<<Unless(srv.command = "none", "neither"), Unless(cli.command = "none", "client"),
              Unless(~(srv.command = "next" /\ cli.command = "next"), "neither"),
              Unless(cli.state # srv.advertised, "neither"), Unless("next" \notin cli.state[2], "client")>>)

\* _compare_artwork_summaries: the hash is of every frame received.
ArtworkVerdict == IF cli.art = <<>> THEN "client" ELSE Unless(cli.art # <<"image">>, "neither")

\* _compare_format_preference_summaries
FormatVerdict ==
    LET changed == Len(cli.formats) >= 2
        applied == srv.stream = Declared[2]
    IN  FirstOf(<<Unless(srv.pref = "none", "client"), Unless(srv.pref # Declared[2], "neither"),
                  Unless(~changed, IF applied THEN "client" ELSE "server"),
                  Unless(changed /\ Last(cli.formats) # Declared[2], "server"), Unless(~applied, "neither")>>)

\* undeclared_format_violation, by the format without the bit depth opus ignores.
Undeclared == Unless(\E f \in Streams : f \notin ToSet(Declared), "server")

\* _dispatch_comparison
Comparison ==
    CASE kind = "pcm" -> AudioVerdict
      [] kind = "pcm24" -> FirstOf(<<AudioVerdict, BitDepth>>)
      [] kind = "flac" -> EncodedVerdict
      [] kind = "opus" -> FirstOf(<<Priority, EncodedVerdict>>)
      [] kind = "metadata" -> MetadataVerdict
      [] kind = "controller" -> ControllerVerdict
      [] kind = "artwork" -> ArtworkVerdict
      [] kind = "format" -> FormatVerdict
      [] kind = "framing" -> FramingVerdict

\* _compare_summaries: an adapter's own failure first, then the scenario, then the declared formats.
Verdict ==
    IF ssum = "error" THEN "adapter" ELSE IF csum = "error" THEN "adapter"
    ELSE FirstOf(<<Comparison, Undeclared>>)

Judged == ssum # "none" /\ csum # "none"

-----------------------------------------------------------------------------
(* Properties                                                                *)

\* A pair without a fault passes its case, in every interleaving of the two adapters and the frames
\* between them: what each adapter records is complete when it writes its summary. The exceptions are an
\* adapter that sees no raw frame and a registry file read while it was being written.
ConformantPasses ==
    Judged /\ ~did /\ adapter # "blind" /\ Verdict # "adapter" => Verdict = "pass"

\* A case in which an implementation showed its fault does not pass. A client whose adapter does not
\* decode cannot show that part of a clip is missing or out of order, which is what the reason says, and
\* neither can a lossy codec.
FaultsFail ==
    Judged /\ did => Verdict # "pass" \/ ((adapter = "nodecode" \/ kind = "opus") /\ fault \in {"skip", "swap", "garble"})
                     \/ (kind \in {"framing", "format"} /\ fault \in {"skip", "swap", "garble"})

\* A reason that names a side names the one with the fault, and a harness gap is the harness's. An adapter
\* reports a failure of its own only for a client that never became available or sent no command, or for
\* a registry file it read while the other adapter was writing it (register_endpoint takes no lock).
BlameIsFair ==
    Judged => /\ Verdict = "server" => did /\ fault \in ServerFaults
              /\ Verdict = "client" => did /\ fault \in ClientFaults
              /\ Verdict = "gap" => adapter = "blind"
              /\ Verdict = "adapter" => fault \in {"unavailable", "nocommand"} \/ initiator = "server"

\* Both adapters write a summary, whatever the implementations do.
BothReport == <>Judged
=============================================================================
