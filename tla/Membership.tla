------------------------------ MODULE Membership ------------------------------
(***************************************************************************)
(* One impalad (Me) and the cluster membership it learns from the           *)
(* statestore: StatestoreSubscriber (registration, recovery mode, the       *)
(* UpdateState handler), SimpleScheduler::UpdateMembership with the maps    *)
(* that GetBackend assigns work from, and the part of the statestore that   *)
(* talks to Me.  The other impalads only join and leave the topic.          *)
(*                                                                          *)
(* Heartbeats are calls in flight: they may be lost, answered twice,        *)
(* overtaken by a new registration, by a restart of the statestore or of Me, *)
(* or by another heartbeat (every registration queues one more update for   *)
(* the same subscriber id, statestore.cc:311).                              *)
(*                                                                          *)
(* Bounds: the others change the topic up to MaxVersion, MaxFaults faults,  *)
(* MaxCalls calls in flight at once.                                        *)
(***************************************************************************)
EXTENDS TopicOps, FiniteSets

CONSTANTS
    Me,                     \* backend_id_, a member of Keys
    IpOf(_, _),             \* may this backend have this IP address?
    Hostname,               \* hostname of each backend id
    max_missed_heartbeats,  \* of the statestore's failure detector
    MaxVersion, MaxFaults, MaxCalls

ASSUME MembershipAssumption ==
    /\ Me \in Keys
    /\ max_missed_heartbeats \in Nat
    /\ {MaxVersion, MaxFaults, MaxCalls} \subseteq Nat

VARIABLES
    topic,          \* the membership topic of the statestore
    sub,            \* the statestore's registration of Me
    chains,         \* updates queued for Me's subscriber id
    calls,          \* UpdateState calls in flight
    faults,         \* faults so far
    locked,         \* the recovery thread, or Start(), holds lock_
    reply,          \* RegisterSubscriber's answer in flight: an id, or None
    registration_id,        \* the id of the subscriber
    current_membership,     \* backend id -> descriptor
    backend_map,            \* IP address -> descriptors
    backend_ip_map,         \* hostname -> IP address
    overlap                 \* history: two calls of one registration coexisted

storeVars == <<topic, sub, chains, calls>>
schedulerVars == <<current_membership, backend_map, backend_ip_map>>
clientVars == <<locked, reply, registration_id, schedulerVars>>
vars == <<storeVars, faults, clientVars, overlap>>

None == 0

\* reg is None when Me is not registered; owned is the version of the transient
\* entry recorded for the registration.
NoSubscriber == [reg |-> None, processed |-> TOPIC_INITIAL_VERSION,
                 owned |-> TOPIC_INITIAL_VERSION, missed |-> 0]

Live == {k \in Keys : topic.entries[k].value # NULL_VALUE}

Descriptor == Keys \X Values
MyDescriptor == CHOOSE d \in Descriptor : d[1] = Me /\ IpOf(Me, d[2])

Fault == faults < MaxFaults /\ faults' = faults + 1

Smallest(S) == CHOOSE n \in S : \A m \in S : n <= m

\* A call; the number n tells equal calls apart.  Once answered it says whether
\* UpdateState was OK and whether it posts Me.
NewCall(reg, delta) ==
    [reg |-> reg, delta |-> delta, state |-> "sent", posts |-> FALSE,
     n |-> Smallest((1 .. MaxCalls) \ {c.n : c \in calls})]

\* Registration ids are UUIDs; one that nobody holds any more is as good as new.
NewRegistrationId ==
    Smallest((1 .. MaxCalls + 4) \
                ({sub.reg, reply, registration_id} \cup {c.reg : c \in calls}))

Empty == [x \in {} |-> x]

-------------------------------------------------------------------------------

Init == /\ topic = NewTopic
        /\ sub = NoSubscriber
        /\ chains = 0
        /\ calls = {}
        /\ faults = 0
        /\ locked = TRUE            \* Start() registers under lock_
        /\ reply = None
        /\ registration_id = None
        /\ current_membership = Empty
        /\ backend_map = Empty
        /\ backend_ip_map = Empty
        /\ overlap = FALSE

-------------------------------------------------------------------------------
(* The other impalads. *)

Joins(k, ip) ==
    /\ k # Me /\ k \notin Live /\ IpOf(k, ip)
    /\ topic.last_version < MaxVersion
    /\ topic' = Put(topic, k, ip)
    /\ UNCHANGED <<sub, chains, calls, faults, clientVars, overlap>>

Leaves(k) ==
    /\ k \in Live \ {Me}
    /\ topic.last_version < MaxVersion
    /\ topic' = DeleteIfVersionsMatch(topic, topic.entries[k].version, k)
    /\ UNCHANGED <<sub, chains, calls, faults, clientVars, overlap>>

-------------------------------------------------------------------------------
(* The statestore. *)

\* UnregisterSubscriber deletes the transient entry of the registration.
Unregister(t) ==
    IF sub.owned = TOPIC_INITIAL_VERSION THEN t
    ELSE DeleteIfVersionsMatch(t, sub.owned, Me)

\* RegisterSubscriber replaces an older registration and queues an update.
Register ==
    /\ locked /\ reply = None
    /\ topic' = Unregister(topic)
    /\ sub' = [NoSubscriber EXCEPT !.reg = NewRegistrationId]
    /\ chains' = chains + 1
    /\ reply' = NewRegistrationId
    /\ UNCHANGED <<calls, faults, locked, registration_id, schedulerVars, overlap>>

\* UpdateSubscriber takes an update off the queue; without a registration
\* nothing is sent and the update is not queued again.  Heartbeats are half a
\* second apart: the answer of RegisterSubscriber does not take so long that Me
\* is given up meanwhile.
Dequeue ==
    /\ chains > 0
    /\ ~(reply = sub.reg /\ sub.missed = max_missed_heartbeats)
    /\ chains' = chains - 1
    /\ IF sub.reg = None
       THEN UNCHANGED <<calls, overlap>>
       ELSE /\ Cardinality(calls) < MaxCalls
            /\ calls' = calls \cup {NewCall(sub.reg, TopicDelta(topic, sub.processed))}
            /\ overlap' = (overlap \/ \E c \in calls : c.reg = sub.reg)
    /\ UNCHANGED <<topic, sub, faults, clientVars>>

\* Queue the next update, unless Me is not registered any more.
Requeue == chains' = IF sub.reg = None THEN chains ELSE chains + 1

\* as Missed would be if a failed heartbeat were not counted
MissedForgotten(c) == /\ UNCHANGED <<topic, sub>> /\ Requeue

\* A failed heartbeat: one too many unregisters Me and ends the chain.  That of
\* an older registration, evicted from the failure detector, counts for nothing
\* (one too many of those takes two heartbeats of it, an overlap).
Missed(c) ==
    IF c.reg # sub.reg
    THEN /\ UNCHANGED <<topic, sub>>
         /\ Requeue
    ELSE IF sub.missed + 1 > max_missed_heartbeats
    THEN /\ topic' = Unregister(topic)
         /\ sub' = NoSubscriber
         /\ UNCHANGED chains
    ELSE /\ sub' = [sub EXCEPT !.missed = @ + 1]
         /\ UNCHANGED topic
         /\ Requeue

\* as Rejected would be if the version were recorded all the same
RejectedRecords(c) ==
    /\ c.state = "rejected"
    /\ calls' = calls \ {c}
    /\ sub' = IF c.reg = sub.reg
              THEN [sub EXCEPT !.processed = c.delta.to_version, !.missed = 0]
              ELSE sub
    /\ Requeue
    /\ UNCHANGED <<topic, faults, clientVars, overlap>>

\* ProcessOneSubscriber returns the error of UpdateState.
Rejected(c) ==
    /\ c.state = "rejected"
    /\ calls' = calls \ {c}
    /\ Missed(c)
    /\ UNCHANGED <<faults, clientVars, overlap>>

\* ProcessOneSubscriber after an OK: the version is recorded and Me's entry is
\* put, even for a registration that was replaced meanwhile (then only its own
\* Subscriber object remembers either).
Answered(c) ==
    /\ c.state = "ok"
    /\ calls' = calls \ {c}
    /\ topic' = IF c.posts THEN Put(topic, Me, MyDescriptor[2]) ELSE topic
    /\ sub' = IF c.reg # sub.reg THEN sub
              ELSE [sub EXCEPT !.processed = c.delta.to_version,
                               !.missed = 0,
                               !.owned = IF c.posts THEN topic.last_version + 1 ELSE @]
    /\ Requeue
    /\ UNCHANGED <<faults, clientVars, overlap>>

\* The connection breaks before or after the subscriber handled the call, and
\* the call is sent again on a new one ...
SendAgain(c) ==
    /\ Fault
    /\ calls' = (calls \ {c}) \cup {[c EXCEPT !.state = "sent", !.posts = FALSE]}
    /\ UNCHANGED <<topic, sub, chains, clientVars, overlap>>

\* ... or that fails too.
GiveUp(c) ==
    /\ Fault
    /\ calls' = calls \ {c}
    /\ Missed(c)
    /\ UNCHANGED <<clientVars, overlap>>

\* A new statestore process knows nothing; calls of the old one may be in the
\* hands of the subscriber's server and have no one to answer to.
StatestoreRestarts ==
    /\ Fault
    /\ topic' = NewTopic
    /\ sub' = NoSubscriber
    /\ chains' = 0
    /\ calls' = {[c EXCEPT !.state = "orphan"] : c \in {x \in calls : x.state = "sent"}}
    /\ UNCHANGED <<clientVars, overlap>>

-------------------------------------------------------------------------------
(* SimpleScheduler. *)

Lookup(f, x, default) == IF x \in DOMAIN f THEN f[x] ELSE default

Entries(d) == {k \in DOMAIN d.items : d.items[k] # NULL_VALUE}
Deletions(d) == {k \in DOMAIN d.items : d.items[k] = NULL_VALUE}

\* The state after the new entries: a non-delta starts from nothing, and
\* insert() leaves the descriptor of a known backend id as it is.
MembersAfterEntries(d) ==
    LET old == IF d.is_delta THEN current_membership ELSE Empty
    IN  [k \in DOMAIN old \cup Entries(d) |->
            IF k \in DOMAIN old THEN old[k] ELSE <<k, d.items[k]>>]

MapAfterEntries(d) ==
    LET old == IF d.is_delta THEN backend_map ELSE Empty
    IN  [ip \in DOMAIN old \cup {d.items[k] : k \in Entries(d)} |->
            Lookup(old, ip, {}) \cup {<<k, ip>> : k \in {x \in Entries(d) : d.items[x] = ip}}]

IpsAfterEntries(d) ==
    LET old == IF d.is_delta THEN backend_ip_map ELSE Empty
    IN  [h \in DOMAIN old \cup {Hostname[k] : k \in Entries(d)} |->
            IF \E k \in Entries(d) : Hostname[k] = h
            THEN d.items[CHOOSE k \in Entries(d) : Hostname[k] = h]
            ELSE old[h]]

\* Descriptors of the deleted backends, as they are known.
Gone(d) == LET members == MembersAfterEntries(d)
           IN  {members[k] : k \in Deletions(d) \cap DOMAIN members}

\* as MapAfter would be if a list that became empty stayed in the map
MapAfterKeepsEmpty(d) ==
    [ip \in DOMAIN MapAfterEntries(d) |-> MapAfterEntries(d)[ip] \ Gone(d)]

\* A list that becomes empty is erased with its address.
MapAfter(d) ==
    LET map == MapAfterEntries(d)
    IN  [ip \in {x \in DOMAIN map : map[x] \ Gone(d) # {}} |-> map[ip] \ Gone(d)]

MembersAfter(d) ==
    LET members == MembersAfterEntries(d)
    IN  [k \in DOMAIN members \ Deletions(d) |-> members[k]]

IpsAfter(d) ==
    LET ips == IpsAfterEntries(d)
    IN  [h \in DOMAIN ips \ {Hostname[b[1]] : b \in Gone(d)} |-> ips[h]]

UpdateMembership(d) ==
    /\ current_membership' = MembersAfter(d)
    /\ backend_map' = MapAfter(d)
    /\ backend_ip_map' = IpsAfter(d)

\* The backends GetBackend may hand out for a data location, an IP address or
\* a hostname: those at the location, or any one, in round-robin order.
GetBackend(location) ==
    LET ip == Lookup(backend_ip_map, location, location)
    IN  IF location \in DOMAIN backend_map THEN backend_map[location]
        ELSE IF ip \in DOMAIN backend_map THEN backend_map[ip]
        ELSE UNION {backend_map[x] : x \in DOMAIN backend_map}

-------------------------------------------------------------------------------
(* StatestoreSubscriber. *)

\* An unset id accepts any registration.
Expected(c) == registration_id \in {None, c.reg}

Finish(c, answer) ==
    calls' = IF c.state = "orphan" THEN calls \ {c} ELSE (calls \ {c}) \cup {answer}

\* UpdateState: refused while registering, or while another UpdateState holds
\* lock_, or for another registration; otherwise the scheduler's callback runs
\* and posts Me if it is not a member.  (The check of the version range looks
\* in current_topic_versions_, which nothing ever fills.)
UpdateState(c) ==
    /\ c.state \in {"sent", "orphan"}
    /\ \/ /\ \/ locked
             \/ ~Expected(c)
             \/ \E other \in calls \ {c} : other.state \in {"sent", "orphan"}
          /\ Finish(c, [c EXCEPT !.state = "rejected"])
          /\ UNCHANGED schedulerVars
       \/ /\ ~locked
          /\ Expected(c)
          /\ UpdateMembership(c.delta)
          /\ Finish(c, [c EXCEPT !.state = "ok",
                                 !.posts = Me \notin DOMAIN MembersAfter(c.delta)])
    /\ UNCHANGED <<topic, sub, chains, faults,
                   locked, reply, registration_id, overlap>>

\* Register() returns with the id, and lock_ is released.
RegisterReply ==
    /\ reply # None
    /\ registration_id' = reply
    /\ reply' = None
    /\ locked' = FALSE
    /\ UNCHANGED <<storeVars, faults, schedulerVars, overlap>>

\* The answer is lost: Register() is tried again, on a new connection or after
\* a sleep of the recovery loop.
RegisterReplyLost ==
    /\ reply # None
    /\ Fault
    /\ reply' = None
    /\ UNCHANGED <<storeVars, locked, registration_id, schedulerVars, overlap>>

\* The failure detector has heard no heartbeat for too long, refused ones
\* included, as nobody sends any ...
EnterRecovery ==
    /\ ~locked
    /\ sub.reg = None
    /\ calls = {}
    /\ locked' = TRUE
    /\ UNCHANGED <<storeVars, faults, reply, registration_id, schedulerVars, overlap>>

\* ... or because they are slow.
EnterRecoveryEarly ==
    /\ ~locked
    /\ Fault
    /\ locked' = TRUE
    /\ UNCHANGED <<storeVars, reply, registration_id, schedulerVars, overlap>>

\* The process of Me is replaced by a new one with the same id and address.
MeRestarts ==
    /\ Fault
    /\ locked' = TRUE
    /\ reply' = None
    /\ registration_id' = None
    /\ current_membership' = Empty
    /\ backend_map' = Empty
    /\ backend_ip_map' = Empty
    /\ UNCHANGED <<storeVars, overlap>>

-------------------------------------------------------------------------------

HeartbeatStep == \/ Dequeue
                 \/ \E c \in calls : UpdateState(c) \/ Answered(c) \/ Rejected(c)

Next == \/ \E k \in Keys, ip \in Values : Joins(k, ip)
        \/ \E k \in Keys : Leaves(k)
        \/ Register
        \/ HeartbeatStep
        \/ \E c \in calls : SendAgain(c) \/ GiveUp(c)
        \/ StatestoreRestarts
        \/ RegisterReply
        \/ RegisterReplyLost
        \/ EnterRecovery
        \/ EnterRecoveryEarly
        \/ MeRestarts

\* The heartbeat threads, the subscriber's server and its recovery thread run.
Fairness == /\ WF_vars(HeartbeatStep)
            /\ WF_vars(Register)
            /\ WF_vars(RegisterReply)
            /\ WF_vars(EnterRecovery)

Spec == Init /\ [][Next]_vars /\ Fairness

-------------------------------------------------------------------------------

\* The subscriber and the statestore agree on the registration.
Connected == sub.reg # None /\ registration_id = sub.reg /\ ~locked

\* A backend no newer than the version the statestore has recorded for Me is a
\* member for Me if and only if it is live: LastTopicVersionProcessed is "only
\* set when once a subscriber has succesfully processed the given update"
\* (statestore.h:306-308), for the registration Me believes in.
ProcessedMembersKnown ==
    (Connected /\ sub.processed > TOPIC_INITIAL_VERSION) =>
        \A k \in Keys :
            topic.entries[k].version <= sub.processed
                => (k \in DOMAIN current_membership <=> k \in Live)

\* The same, as long as no two heartbeats of one registration coexist: neither
\* lost answers, second deliveries, refused updates, restarts of either side nor
\* orphaned calls make Me miss a change of the membership.
KnownUnlessOverlap == ~overlap => ProcessedMembersKnown

\* The maps that work is assigned from agree with the members: one descriptor
\* per member and no other, no address without a backend (the DCHECK of
\* GetBackend), and a data location on a member's machine, given by address or
\* by hostname, gets a backend of that machine.
AssignedToMembers ==
    /\ UNION {backend_map[ip] : ip \in DOMAIN backend_map}
         = {current_membership[k] : k \in DOMAIN current_membership}
    /\ \A ip \in DOMAIN backend_map : backend_map[ip] # {}
    /\ \A k \in DOMAIN current_membership :
          LET here == {d \in Descriptor : d[2] = current_membership[k][2]}
          IN  /\ GetBackend(current_membership[k][2]) \subseteq here
              /\ GetBackend(Hostname[k]) \subseteq here

\* Once faults and changes end, Me is registered, is in the topic itself (its
\* entry is not re-sent by the subscriber but by UpdateMembership when it finds
\* itself missing) and its members are the live backends, for good; two
\* coexisting heartbeats excepted.
Converges ==
    <>[](overlap \/ /\ Connected
                    /\ Me \in Live
                    /\ DOMAIN current_membership = Live)

===============================================================================
