-------------------------------- MODULE Groups --------------------------------
(***************************************************************************)
(* Groups of clients (server/group.py, server/client.py and the controller  *)
(* and player group roles). Every client is in one group; the groups come   *)
(* and go as clients connect, join, leave, switch, are taken over by        *)
(* another server or are forgotten. Every member is told of its group       *)
(* (group/update), and every member that controls, of the volume, commands  *)
(* and repeat mode of the group (server/state).                             *)
(*                                                                          *)
(* The handlers never give up the loop between their first and last change, *)
(* so each is one step: a composition of operators on the whole state w.    *)
(* What makes them hard is that they call each other: leaving a group stops *)
(* it or changes its name, and both changes run the roles' hooks.           *)
(***************************************************************************)
EXTENDS Integers, Sequences, FiniteSets, FiniteSetsExt, SequencesExt

CONSTANTS Clients,
          Lists,     \* the roles each client's hello lists
          Ids,       \* group ids, ordered; an id that nothing names is used again
          Volumes, Names,
          MaxSteps   \* how many steps are looked at after the clients have connected

VARIABLES w,         \* [c |-> clients, g |-> groups, take |-> takeover tasks, switch |-> switch tasks]
          steps

Roles == {"player", "controller"}
None == -1
Absent == -2

\* settable, volume and repeat: what a controller is told.
NoView == [vol |-> None, rep |-> 0]
NoInfo == [id |-> 0, st |-> "none", name |-> 0]

NewClient(c, g) ==
    [grp |-> g, name |-> c, neg |-> {}, conn |-> "none", roles |-> {}, seen |-> FALSE,
     vol |-> None, avail |-> TRUE, prev |-> 0, solo |-> 0, told |-> NoInfo, ctl |-> NoView]

NewGroup(mem) ==
    [mem |-> mem, st |-> "stopped", stream |-> FALSE, name |-> 0, rep |-> 0,
     psub |-> {}, csub |-> {}, listen |-> {}, last |-> NoView]

-----------------------------------------------------------------------------
(* What the group roles keep.                                                *)

Attached(v, c) == v.c[c].conn # "none"
Ready(v, c) == v.c[c].conn = "ready"
Players(v, g) == {c \in ToSet(v.g[g].mem) : "player" \in v.c[c].neg}

\* get_group_volume: the average over the players that can be set, None without one; it decides
\* supported_commands too.
Volume(v, g) ==
    LET set == {c \in v.g[g].psub : v.c[c].vol # None}
    IN  IF set = {} THEN None ELSE MapThenSumSet(LAMBDA c : v.c[c].vol, set) \div Cardinality(set)

View(v, g) == [vol |-> Volume(v, g), rep |-> v.g[g].rep]

\* _push_state_to_members: only what changed since the last push.
Push(v, g) ==
    LET Shows(view) ==
            IF view = v.g[g].last THEN v
            ELSE [v EXCEPT !.g[g].last = view,
                           !.c = [c \in Clients |-> IF c \in v.g[g].csub THEN [@[c] EXCEPT !.ctl = view]
                                                    ELSE @[c]]]
    IN  Shows(View(v, g))

\* GroupRole.subscribe and the role's on_member_join.
Subscribe(v, c, r) ==
    LET g == v.c[c].grp
    IN  IF r = "player"
        THEN IF c \in v.g[g].psub THEN v ELSE Push([v EXCEPT !.g[g].psub = @ \cup {c}], g)
        ELSE IF c \in v.g[g].csub THEN v
             ELSE [v EXCEPT !.g[g].csub = @ \cup {c}, !.c[c].ctl = View(v, g)]

\* GroupRole.unsubscribe and on_member_leave.
Unsubscribe(v, g, c, r) ==
    IF r = "player"
    THEN IF c \in v.g[g].psub THEN Push([v EXCEPT !.g[g].psub = @ \ {c}], g) ELSE v
    ELSE [v EXCEPT !.g[g].csub = @ \ {c}]

\* Roles are attached player first and torn down controller first.
SubscribeAll(v, c, rs) ==
    LET p == IF "player" \in rs THEN Subscribe(v, c, "player") ELSE v
    IN  IF "controller" \in rs THEN Subscribe(p, c, "controller") ELSE p

UnsubscribeAll(v, g, c, rs) ==
    LET p == IF "controller" \in rs THEN Unsubscribe(v, g, c, "controller") ELSE v
    IN  IF "player" \in rs THEN Unsubscribe(p, g, c, "player") ELSE p

\* on_client_added: volume events of the clients that may play. Idempotent.
Register(v, c) ==
    IF "player" \in v.c[c].neg THEN [v EXCEPT !.g[v.c[c].grp].listen = @ \cup {c}] ELSE v

-----------------------------------------------------------------------------
(* The group.                                                                *)

GroupName(v, g) ==
    IF v.g[g].name # 0 THEN v.g[g].name
    ELSE IF v.g[g].mem = <<>> THEN 0 ELSE v.c[Head(v.g[g].mem)].name

Info(v, g) == [id |-> g, st |-> v.g[g].st, name |-> GroupName(v, g)]

\* _send_group_update, to the clients of cs whose first activation is out.
Update(v, g, cs) ==
    [v EXCEPT !.c = [c \in Clients |-> IF c \in cs /\ v.c[c].conn \in {"active", "ready"}
                                       THEN [@[c] EXCEPT !.told = Info(v, g)] ELSE @[c]]]
UpdateMembers(v, g) == Update(v, g, ToSet(v.g[g].mem))

\* Faulty variant: only the leader's own rename is published.
PublishIfRenamedNever(v, g, previous) == v

\* _publish_if_name_changed
PublishIfRenamed(v, g, previous) ==
    IF GroupName(v, g) # previous THEN UpdateMembers(v, g) ELSE v

SetState(v, g, st) ==
    IF v.g[g].st = st THEN v ELSE UpdateMembers([v EXCEPT !.g[g].st = st], g)

\* SendspinGroup.start_stream
Play(v, g) == SetState([v EXCEPT !.g[g].stream = TRUE], g, "playing")

\* SendspinGroup.stop
StopGroup(v, g) == SetState([v EXCEPT !.g[g].stream = FALSE], g, "stopped")

\* Client._set_group: the new group's roles are joined only over a transport.
SetGroup(v, c, g) ==
    LET old == v.c[c].grp
        left == [v EXCEPT !.g[old].listen = @ \ {c}, !.c[c].grp = g]
        into(x, r) == IF Attached(v, c) THEN Subscribe(x, c, r) ELSE x
        swap(x, r) == IF r \notin v.c[c].roles THEN x ELSE into(Unsubscribe(x, old, c, r), r)
    IN  swap(swap(Register(left, c), "player"), "controller")

\* The ids that some client or message still names.
Named(v) == UNION {{v.c[c].grp, v.c[c].prev, v.c[c].solo, v.c[c].told.id} : c \in Clients}

\* A group without a member is forgotten.
Forget(v, g) == IF v.g[g].mem = <<>> THEN [v EXCEPT !.g[g] = NewGroup(<<>>)] ELSE v

\* SendspinGroup(server, client): a new group, and the update that goes with it.
Alone(v, c) ==
    LET In(g) == Update(SetGroup([v EXCEPT !.g[g] = NewGroup(<<c>>)], c, g), g, {c})
    IN  Forget(In(Min(Ids \ Named(v))), v.c[c].grp)

\* Faulty variant: a group that only controllers are left in plays on.
StopRemnantNever(v, g) == v

\* A group nobody plays in any more stops.
StopRemnant(v, g) == IF Players(v, g) = {} THEN StopGroup(v, g) ELSE v

\* SendspinGroup.remove_client
RemoveClient(v, c) ==
    LET g == v.c[c].grp
        previous == GroupName(v, g)
        without == [v EXCEPT !.g[g].mem = SelectSeq(@, LAMBDA x : x # c)]
    IN  Alone(IF Len(v.g[g].mem) = 1 THEN [StopGroup(v, g) EXCEPT !.g[g].mem = <<>>]
              ELSE PublishIfRenamed(StopRemnant(without, g), g, previous), c)

\* SendspinGroup.add_client, which takes the client out of its group first.
AddClient(v, c, g) ==
    LET Join(x) == SetGroup([x EXCEPT !.g[x.c[c].grp].mem = <<>>, !.g[g].mem = Append(@, c)], c, g)
        Into(x) == Forget(Update(Join(x), g, {c}), x.c[c].grp)
    IN  IF c \in ToSet(v.g[g].mem) THEN v ELSE Into(RemoveClient(v, c))

\* quiesce_to_solo_stopped: the group left, or 0.
Quiesce(v, c) ==
    IF Len(v.g[v.c[c].grp].mem) > 1 THEN RemoveClient(v, c) ELSE StopGroup(v, v.c[c].grp)

\* _leave_to_solo_group
LeaveToSolo(v, c) ==
    LET Remember(x) == IF Len(v.g[v.c[c].grp].mem) > 1
                       THEN [x EXCEPT !.c[c].prev = v.c[c].grp, !.c[c].solo = x.c[c].grp] ELSE x
    IN  Remember(Quiesce(v, c))

-----------------------------------------------------------------------------
(* What the application asks for.                                            *)

Step(v) == steps < MaxSteps /\ v # w /\ w' = v /\ steps' = steps + 1

\* What the server does of itself is not counted.
Follow(v) == w' = v /\ UNCHANGED steps

GroupsOf(v) == {v.c[c].grp : c \in Clients}

Add(c, g) == g \in GroupsOf(w) /\ Step(AddClient(w, c, g))
Ungroup(c) == Step(RemoveClient(w, c))
StartStream(g) == g \in GroupsOf(w) /\ Step(Play(w, g))
StopStream(g) == g \in GroupsOf(w) /\ w.g[g].stream /\ Step([w EXCEPT !.g[g].stream = FALSE])
Stop(g) == g \in GroupsOf(w) /\ Step(StopGroup(w, g))
SetGroupName(g, n) ==
    /\ g \in GroupsOf(w)
    /\ Step(PublishIfRenamed([w EXCEPT !.g[g].name = n], g, GroupName(w, g)))
SetRepeat(g, r) == g \in GroupsOf(w) /\ Step(Push([w EXCEPT !.g[g].rep = r], g))

-----------------------------------------------------------------------------
(* What the clients do.                                                      *)

\* The hello's name may be the name of the group.
Identify(v, c, n, rs) ==
    LET named == PublishIfRenamed([v EXCEPT !.c[c].name = n], v.c[c].grp, GroupName(v, v.c[c].grp))
    IN  [named EXCEPT !.c[c].neg = rs]

\* The roles' disconnect hooks run. (The instances a warm disconnect keeps are connected again
\* like new ones.)
Retire(v, c) ==
    LET out == UnsubscribeAll(v, v.c[c].grp, c, v.c[c].roles)
    IN  [out EXCEPT !.c[c].roles = {}]

\* on_connect of the roles of rs: a player's commands are unknown until its state.
ConnectRoles(v, c, rs) ==
    LET known == IF "player" \in rs THEN [v EXCEPT !.c[c].vol = None] ELSE v
    IN  SubscribeAll([known EXCEPT !.c[c].roles = @ \cup rs], c, rs)

\* attach_connection: of a new connection, which may replace another.
Attach(c, n, rs, active) ==
    /\ active \subseteq rs
    /\ LET fresh == [Retire(w, c) EXCEPT !.c[c].conn = "attached", !.c[c].told = NoInfo,
                                         !.c[c].ctl = NoView, !.c[c].seen = FALSE]
       IN  Step(Register(ConnectRoles(Identify(fresh, c, n, rs), c, active), c))

\* _start_group_updates with the first activation; a client with nothing to report is connected.
Activate(c) ==
    /\ w.c[c].conn = "attached"
    /\ LET on == IF "player" \in w.c[c].roles THEN "active" ELSE "ready"
       IN  Follow(Update([w EXCEPT !.c[c].conn = on], w.c[c].grp, {c}))

\* _send_activation, later: the roles that go, then the roles that come.
Reactivate(c, rs) ==
    /\ w.c[c].conn \in {"active", "ready"} /\ rs \subseteq w.c[c].neg
    /\ LET gone == w.c[c].roles \ rs
           out == [UnsubscribeAll(w, w.c[c].grp, c, gone) EXCEPT !.c[c].roles = @ \cap rs,
                                                     !.c[c].ctl = IF "controller" \in gone THEN NoView ELSE @]
           new == rs \ w.c[c].roles
       IN  Step(ConnectRoles(out, c, new))

\* A hello sent again after a re-handshake that keeps the roles listed.
Rehello(c, n) ==
    /\ Attached(w, c)
    /\ Step(Identify(w, c, n, w.c[c].neg))

\* _handle_client_state, with a player object unless vol is Absent: the first one makes the
\* client connected, and an availability it opens with is not a change. A new volume reaches the
\* group's roles as an event of the client.
ClientState(c, vol, avail) ==
    /\ w.c[c].conn \in {"active", "ready"}
    /\ LET leaves == Ready(w, c) /\ w.c[c].seen /\ w.c[c].avail /\ ~avail
           gone == IF leaves THEN LeaveToSolo(w, c) ELSE w
           heard == vol # Absent /\ "player" \in w.c[c].roles /\ vol # w.c[c].vol
           Tell(x, g) == IF heard /\ c \in x.g[g].listen THEN Push(x, g) ELSE x
           Told(x) == Tell(x, x.c[c].grp)
       IN  Step(Told([gone EXCEPT !.c[c].vol = IF heard THEN vol ELSE @, !.c[c].avail = avail,
                                  !.c[c].seen = TRUE, !.c[c].conn = "ready"]))

\* _initial_state_timeout_callback
InitialTimeout(c) == w.c[c].conn = "active" /\ Step([w EXCEPT !.c[c].conn = "ready"])

\* client/leave
Leave(c) == w.c[c].conn \in {"active", "ready"} /\ Step(LeaveToSolo(w, c))

\* detach_connection; a client taken over is ungrouped by a task of its own.
Disconnect(c, reason) ==
    /\ Attached(w, c)
    /\ LET out == [Retire(w, c) EXCEPT !.c[c].conn = "none", !.c[c].told = NoInfo, !.c[c].ctl = NoView]
       IN  Step(IF reason = "another_server" THEN [out EXCEPT !.take = @ \cup {c}] ELSE out)

\* _handle_takeover_disconnect
Takeover(c) ==
    /\ c \in w.take
    /\ Follow([RemoveClient(w, c) EXCEPT !.take = @ \ {c}])

\* _do_cleanup and SendspinServer.remove_client: the client's next connection finds a new client
\* in a new group.
Cleanup(c) ==
    /\ ~Attached(w, c) /\ c \notin w.take \cup w.switch
    /\ LET Renew(x) == [x EXCEPT !.c[c] = NewClient(c, x.c[c].grp), !.g[x.c[c].grp] = NewGroup(<<c>>)]
       IN  Step(Renew(RemoveClient(w, c)))

\* A server whose clients have connected, and perhaps been grouped, with at most one group that
\* plays: the first hellos, activations and states, one client after the other, then the joins.
Connect(v, c) ==
    Update(Register(ConnectRoles([v EXCEPT !.c[c].neg = Lists[c], !.c[c].conn = "ready", !.c[c].seen = TRUE],
                                 c, Lists[c]), c), v.c[c].grp, {c})

Init ==
    LET order == SetToSeq(Clients)
        idle == [c |-> [c \in Clients |-> NewClient(c, SelectInSeq(order, LAMBDA x : x = c))],
                 g |-> [i \in Ids |-> NewGroup(IF i \in DOMAIN order THEN <<order[i]>> ELSE <<>>)],
                 take |-> {}, switch |-> {}]
        online == FoldLeft(Connect, idle, order)
    IN  /\ steps = 0
        /\ \E grouped \in SUBSET Clients, playing \in SUBSET Clients :
              /\ grouped \in {{}, Clients} /\ Cardinality(playing) < 2
              /\ LET s == SelectSeq(order, LAMBDA c : c \in grouped)
                     joined == FoldLeft(LAMBDA v, c : AddClient(v, c, v.c[s[1]].grp), online, s)
                 IN  w = FoldLeft(LAMBDA v, c : Play(v, v.c[c].grp), joined, SetToSeq(playing))

-----------------------------------------------------------------------------
(* handle_switch_command                                                     *)

Connected(v) == {c \in Clients : Ready(v, c)}
Known(v, g) == \E c \in Connected(v) : v.c[c].grp = g
Sorted(gs) == SetToSortSeq(gs, <)

\* _build_group_cycle: playing groups of several, then others' playing solo groups, then, for a
\* player, its own solo group (0 for one still to be made).
Cycle(v, c) ==
    LET own == v.c[c].grp
        playing == {g \in {v.c[x].grp : x \in Connected(v)} :
                        v.g[g].st = "playing" /\ Players(v, g) # {}}
        several == {g \in playing : Len(v.g[g].mem) > 1}
        single == {g \in playing : Len(v.g[g].mem) = 1 /\ g # own}
        alone == IF "player" \notin v.c[c].neg THEN <<>>
                 ELSE IF Len(v.g[own].mem) = 1 THEN <<own>> ELSE <<0>>
    IN  Sorted(several) \o Sorted(single) \o alone

\* The place after the current group's, the first one when it is not in the cycle.
Following(s, g) ==
    IF \E i \in DOMAIN s : s[i] = g
    THEN s[(SelectInSeq(s, LAMBDA x : x = g) % Len(s)) + 1]
    ELSE s[1]

\* _should_rejoin_previous_group
Rejoins(v, c) ==
    /\ v.c[c].prev # 0 /\ v.c[c].solo = v.c[c].grp
    /\ Len(v.g[v.c[c].grp].mem) = 1

\* A switch command, which a task of its own carries out.
AskSwitch(c) ==
    /\ w.c[c].conn \in {"active", "ready"} /\ "controller" \in w.c[c].roles
    /\ Step([w EXCEPT !.switch = @ \cup {c}])

\* _handle_switch_command_locked
Switched(v, c) ==
    LET tried == IF Rejoins(v, c) THEN [v EXCEPT !.c[c].prev = 0, !.c[c].solo = 0] ELSE v
        cycle == Cycle(v, c)
        goal == IF Rejoins(v, c) /\ Known(v, v.c[c].prev) THEN v.c[c].prev
                ELSE IF cycle = <<>> THEN v.c[c].grp ELSE Following(cycle, v.c[c].grp)
    IN  IF ~v.c[c].avail THEN v
        ELSE IF goal = 0 THEN RemoveClient(tried, c) ELSE AddClient(tried, c, goal)

Switch(c) ==
    /\ c \in w.switch
    /\ Follow(Switched([w EXCEPT !.switch = @ \ {c}], c))

Next ==
    \/ \E c \in Clients, g \in Ids : Add(c, g)
    \/ \E c \in Clients : Ungroup(c)
    \/ \E g \in Ids : StartStream(g)
    \/ \E g \in Ids : StopStream(g)
    \/ \E g \in Ids : Stop(g)
    \/ \E g \in Ids, n \in Names \cup {0} : SetGroupName(g, n)
    \/ \E g \in Ids, r \in {0, 1} : SetRepeat(g, r)
    \/ \E c \in Clients, n \in Names : \E active \in {{}, Lists[c]} : Attach(c, n, Lists[c], active)
    \/ \E c \in Clients : Activate(c)
    \/ \E c \in Clients : \E rs \in SUBSET Lists[c] : Reactivate(c, rs)
    \/ \E c \in Clients, n \in Names : Rehello(c, n)
    \/ \E c \in Clients, v \in Volumes \cup {None, Absent}, a \in BOOLEAN : ClientState(c, v, a)
    \/ \E c \in Clients : InitialTimeout(c)
    \/ \E c \in Clients : Leave(c)
    \/ \E c \in Clients, r \in {"restart", "another_server"} : Disconnect(c, r)
    \/ \E c \in Clients : Takeover(c)
    \/ \E c \in Clients : Cleanup(c)
    \/ \E c \in Clients : AskSwitch(c)
    \/ \E c \in Clients : Switch(c)

Spec == Init /\ [][Next]_<<w, steps>>

-----------------------------------------------------------------------------

TypeOK ==
    /\ w.c \in [Clients -> [grp : Ids, name : Names \cup Clients, neg : SUBSET Roles,
                            conn : {"none", "attached", "active", "ready"}, roles : SUBSET Roles,
                            seen : BOOLEAN, vol : Volumes \cup {None}, avail : BOOLEAN,
                            prev : Ids \cup {0}, solo : Ids \cup {0},
                            told : [id : Ids \cup {0}, st : {"none", "stopped", "playing"},
                                    name : Names \cup Clients \cup {0}],
                            ctl : [vol : Int, rep : {0, 1}]]]
    /\ w.take \subseteq Clients

\* Every client is a member of exactly the group it names, once.
Partition ==
    \A c \in Clients, g \in Ids :
        Cardinality({i \in DOMAIN w.g[g].mem : w.g[g].mem[i] = c}) = (IF w.c[c].grp = g THEN 1 ELSE 0)

\* A client whose first activation is out was last told the group it is in, its playback state
\* and its name.
ToldTruth ==
    \A c \in Clients : w.c[c].conn \in {"active", "ready"} => w.c[c].told = Info(w, w.c[c].grp)

\* A client that controls was last told the volume, commands and repeat mode of its own group,
\* and the group's roles hold the clients that are connected with them and no others.
ControllerTruth ==
    \A c \in Clients :
        LET g == w.c[c].grp
        IN  /\ "controller" \in w.c[c].roles /\ Attached(w, c) => w.c[c].ctl = View(w, g)
            /\ \A i \in Ids : /\ c \in w.g[i].csub <=> i = g /\ "controller" \in w.c[c].roles
                              /\ c \in w.g[i].psub <=> i = g /\ "player" \in w.c[c].roles

\* Who comes and goes does not decide what the others hear: a shared group that keeps a player
\* plays on whatever one of its members does, and one that loses its last player stops.
PlaybackStep ==
    \A g \in Ids :
        LET kept == Players(w, g) # {} /\ Players(w', g) # {}
            lost == Players(w, g) # {} /\ Players(w', g) = {} /\ w'.g[g].mem # <<>>
        IN  /\ Len(w.g[g].mem) > 1 /\ kept /\ w'.g[g].st # w.g[g].st =>
                  StartStream(g) \/ Stop(g)
            /\ lost => w'.g[g].st = "stopped" /\ ~w'.g[g].stream

=============================================================================
