----------------------------- MODULE Directory -----------------------------
(***************************************************************************)
(* The member directory /users as several devices share it: login$ and     *)
(* ecdRedirect$ write it through the Realtime Database client, whose queue *)
(* of writes is modelled in full.                                          *)
(*                                                                         *)
(* A write is kept on disk, shown at once, and sent without waiting for    *)
(* the acknowledgement of the one before.  A connection is a pair of FIFO  *)
(* channels; when it is cut everything on it is gone, so an executed write *)
(* may be sent again: after a reconnect from outstandingPuts, after a      *)
(* restart from disk.  An acknowledgement that arrives while a listen is   *)
(* unanswered is held back (putsToAck) until it is answered.               *)
(*                                                                         *)
(* A record is Nothing, 0 (email and name, as login$ writes it), or the    *)
(* number of the token pair in it.                                         *)
(***************************************************************************)
EXTENDS Integers, Sequences, SequencesExt

CONSTANTS
    Devices,
    Members,
    Nothing,   \* no record, no member
    Recorded,  \* members with a record before the first step
    Denied,    \* members whose records the server's rules refuse to have written
    MaxWrites, \* bound on the writes one device may have on disk
    MaxPairs,  \* bound on the token pairs stored
    MaxListens, \* bound on the messages about to be handled when a login$ starts
    MaxCuts    \* bound on lost connections and kills

ASSUME DirectoryAssumption ==
    /\ Recorded \subseteq Members
    /\ Denied \subseteq Members
    /\ Nothing \notin Members \cup Int
    /\ {MaxWrites, MaxPairs, MaxListens, MaxCuts} \subseteq Nat

VARIABLES
    server,  \* the record of each member on the server
    cache,   \* per device: the records as the server last told it
    known,   \* per device: the members for whom cache is complete
    disk,    \* per device: the writes in writesDB, in the order of their ids
    puts,    \* per device: outstandingPuts, in the order of their index
    held,    \* per device: putsToAck
    conn,    \* per device: the connection is up
    up,      \* per device: requests on their way to the server
    down,    \* per device: answers on their way to the device
    login,   \* per device: the login$ task: its member, and what it waits for
    chain,   \* per device: the member whose redirect is about to store a pair
    pairs,   \* how many token pairs were stored
    joined,  \* members whose first record some login$ wrote
    intended, \* the records if the server had every write it takes, once, as made
    stranded, \* a connection was lost while an acknowledgement was held back
    cuts     \* how often a connection was lost or an app killed

clientVars == <<cache, known, disk, puts, held>>
netVars == <<conn, up, down>>
appVars == <<login, chain>>
vars == <<server, clientVars, netVars, appVars, pairs, joined, intended, stranded, cuts>>

Pairs == 1..MaxPairs
Records == {Nothing, 0} \cup Pairs
Ids == 1..(2 * MaxWrites + 2)
\* A set of /users with one record in it, or of /users/<member>.
Writes == [id : Ids, all : BOOLEAN, member : Members, pair : {0} \cup Pairs]
NoLogin == [member |-> Nothing, stage |-> "none"]
\* once was answered: whether there was a record when it was.
Answered(m, found) == [member |-> m, stage |-> IF found THEN "found" ELSE "missing"]
Waiting(m) == [member |-> m, stage |-> "once"]

Init ==
    /\ server = [m \in Members |-> IF m \in Recorded THEN 0 ELSE Nothing]
    /\ cache = [d \in Devices |-> [m \in Members |-> Nothing]]
    /\ known = [d \in Devices |-> {}]
    /\ disk = [d \in Devices |-> <<>>]
    /\ puts = [d \in Devices |-> <<>>]
    /\ held = [d \in Devices |-> <<>>]
    /\ conn = [d \in Devices |-> FALSE]
    /\ up = [d \in Devices |-> <<>>]
    /\ down = [d \in Devices |-> <<>>]
    /\ login = [d \in Devices |-> NoLogin]
    /\ chain = [d \in Devices |-> Nothing]
    /\ pairs = 0
    /\ joined = {}
    /\ intended = server
    /\ stranded = FALSE
    /\ cuts = 0

-----------------------------------------------------------------------------
\* What a write does to the records, and the records a device shows.

Apply(s, w) ==
    IF w.all THEN [m \in Members |-> IF m = w.member THEN 0 ELSE Nothing]
             ELSE [s EXCEPT ![w.member] = w.pair]

\* What the device shows if base is what the server told it.
Shown(d, base) == FoldLeft(Apply, base, disk[d])

View(d) == Shown(d, cache[d])

Covers(w, m) == w.all \/ w.member = m

\* The device can tell the record of m without asking the server.
Complete(d, m) ==
    m \in known[d] \/ \E i \in 1..Len(disk[d]) : Covers(disk[d][i], m)

\* writeIdCounter of FRepo.m: greater than every id still on disk, which is all that
\* the order of sending depends on.
NextId(d) == IF disk[d] = <<>> THEN 1 ELSE Last(disk[d]).id + 1

Put(w) == [type |-> "put", write |-> w]
Listen(m) == [type |-> "listen", member |-> m]
IsListen(msg) == msg.type = "listen"

\* unackedListensCount > 0.
ListenUnanswered(d) ==
    (\E i \in 1..Len(up[d]) : IsListen(up[d][i])) \/ (\E i \in 1..Len(down[d]) : IsListen(down[d][i]))

\* The writes of q with other ids, in their order.
Without(q, ids) ==
    LET kept[n \in 0..Len(q)] ==
            IF n = 0 THEN <<>>
            ELSE IF q[n].id \in ids THEN kept[n - 1] ELSE Append(kept[n - 1], q[n])
    IN  kept[Len(q)]

\* The request is sent if there is a connection; if not, restoreState will.
Send(d, msg) == up' = IF conn[d] THEN [up EXCEPT ![d] = Append(@, msg)] ELSE up

\* FRepo set: saved, applied to the view, queued and sent.
Set(d, w) ==
    /\ Len(disk[d]) < MaxWrites
    /\ w.id \in Ids
    /\ disk' = [disk EXCEPT ![d] = Append(@, w)]
    /\ puts' = [puts EXCEPT ![d] = Append(@, w)]
    /\ Send(d, Put(w))
    /\ intended' = IF w.member \in Denied THEN intended ELSE Apply(intended, w)
    /\ UNCHANGED <<server, cache, known, held, conn, down, stranded, cuts>>

-----------------------------------------------------------------------------
\* The app.

\* login$ after signIn: once('value') at the record.  A record that is complete on
\* the device is delivered at once; the listen is sent all the same.
Once(d, m) ==
    /\ login[d] = NoLogin
    /\ Len(up[d]) + Len(down[d]) < MaxListens
    /\ login' = [login EXCEPT ![d] =
                    IF Complete(d, m) THEN Answered(m, View(d)[m] # Nothing) ELSE Waiting(m)]
    /\ Send(d, Listen(m))
    /\ UNCHANGED <<server, clientVars, conn, down, chain, pairs, joined, intended, stranded, cuts>>

FirstRecord(d) == [id |-> NextId(d), all |-> TRUE, member |-> login[d].member, pair |-> 0]

\* Mutant: the record is written whether or not there is one.
OnFoundWrites(d) ==
    /\ login[d].stage = "found"
    /\ login' = [login EXCEPT ![d] = NoLogin]
    /\ Set(d, FirstRecord(d))
    /\ UNCHANGED <<chain, pairs, joined>>

\* The callback of once: there is a record, and login$ ends.
OnFound(d) ==
    /\ login[d].stage = "found"
    /\ login' = [login EXCEPT ![d] = NoLogin]
    /\ UNCHANGED <<server, clientVars, netVars, chain, pairs, joined, intended, stranded, cuts>>

\* The callback of once: a member without a record gets one by a set of /users.
OnMissing(d) ==
    /\ login[d].stage = "missing"
    /\ login' = [login EXCEPT ![d] = NoLogin]
    /\ Set(d, FirstRecord(d))
    /\ joined' = joined \cup {login[d].member}
    /\ UNCHANGED <<chain, pairs>>

\* ecdRedirect$ found a record and asks the OAuth server for a new pair.
Redirect(d, m) ==
    /\ chain[d] = Nothing
    /\ Complete(d, m)
    /\ View(d)[m] # Nothing
    /\ chain' = [chain EXCEPT ![d] = m]
    /\ UNCHANGED <<server, clientVars, netVars, login, pairs, joined, intended, stranded, cuts>>

\* ... and stores it with a set of /users/<member>.
StorePair(d) ==
    /\ chain[d] # Nothing
    /\ pairs < MaxPairs
    /\ pairs' = pairs + 1
    /\ chain' = [chain EXCEPT ![d] = Nothing]
    /\ Set(d, [id |-> NextId(d), all |-> FALSE, member |-> chain[d], pair |-> pairs + 1])
    /\ UNCHANGED <<login, joined>>

-----------------------------------------------------------------------------
\* The connection.

\* Mutant: only writes made since the last connection are sent.
ConnectForgets(d) ==
    /\ ~conn[d]
    /\ conn' = [conn EXCEPT ![d] = TRUE]
    /\ up' = [up EXCEPT ![d] = IF login[d].stage = "once" THEN <<Listen(login[d].member)>> ELSE <<>>]
    /\ UNCHANGED <<server, clientVars, down, appVars, pairs, joined, intended, stranded, cuts>>

\* Mutant: the outstanding writes are sent newest first.
ConnectReversed(d) ==
    /\ ~conn[d]
    /\ conn' = [conn EXCEPT ![d] = TRUE]
    /\ up' = [up EXCEPT ![d] =
                (IF login[d].stage = "once" THEN <<Listen(login[d].member)>> ELSE <<>>)
                    \o [i \in 1..Len(puts[d]) |-> Put(puts[d][Len(puts[d]) + 1 - i])]]
    /\ UNCHANGED <<server, clientVars, down, appVars, pairs, joined, intended, stranded, cuts>>

\* restoreState: the listens, then the outstanding writes in order.
Connect(d) ==
    /\ ~conn[d]
    /\ conn' = [conn EXCEPT ![d] = TRUE]
    /\ up' = [up EXCEPT ![d] =
                (IF login[d].stage = "once" THEN <<Listen(login[d].member)>> ELSE <<>>)
                    \o [i \in 1..Len(puts[d]) |-> Put(puts[d][i])]]
    /\ UNCHANGED <<server, clientVars, down, appVars, pairs, joined, intended, stranded, cuts>>

CutOff(d) ==
    /\ cuts < MaxCuts
    /\ cuts' = cuts + 1
    /\ conn' = [conn EXCEPT ![d] = FALSE]
    /\ up' = [up EXCEPT ![d] = <<>>]
    /\ down' = [down EXCEPT ![d] = <<>>]

\* onDisconnect: whatever was on the way is lost and callbacks are forgotten.  Nothing
\* releases what putsToAck holds before the next listen is answered.
Disconnect(d) ==
    /\ conn[d]
    /\ CutOff(d)
    /\ stranded' = (stranded \/ held[d] # <<>>)
    /\ UNCHANGED <<server, clientVars, appVars, pairs, joined, intended>>

\* The app is killed and started again: restoreWrites queues what is on disk.
Restart(d) ==
    /\ CutOff(d)
    /\ puts' = [puts EXCEPT ![d] = disk[d]]
    /\ held' = [held EXCEPT ![d] = <<>>]
    /\ login' = [login EXCEPT ![d] = NoLogin]
    /\ chain' = [chain EXCEPT ![d] = Nothing]
    /\ UNCHANGED <<server, cache, known, disk, pairs, joined, intended, stranded>>

\* The server executes the oldest request of the connection and answers it.
Execute(d) ==
    /\ up[d] # <<>>
    /\ LET msg == Head(up[d])
           ok == ~IsListen(msg) /\ msg.write.member \notin Denied
       IN  /\ server' = IF ok THEN Apply(server, msg.write) ELSE server
           /\ down' = [down EXCEPT ![d] = Append(@,
                IF IsListen(msg)
                  THEN [type |-> "listen", member |-> msg.member, record |-> server[msg.member]]
                  ELSE [type |-> "put", write |-> msg.write, ok |-> ok])]
    /\ up' = [up EXCEPT ![d] = Tail(@)]
    /\ UNCHANGED <<clientVars, conn, appVars, pairs, joined, intended, stranded, cuts>>

\* Those of the acknowledged writes that the server took are added to the cache, which
\* is base and complete for the members in heard.
Learn(d, acks, base, heard) ==
    LET taken == SelectSeq(acks, LAMBDA a : a.ok)
    IN  /\ cache' = [cache EXCEPT ![d] = FoldLeft(LAMBDA s, a : Apply(s, a.write), base, taken)]
        /\ known' = [known EXCEPT ![d] = @ \cup heard
                        \cup {m \in Members : \E i \in 1..Len(taken) : Covers(taken[i].write, m)}]

\* The writes acknowledged by acks leave the disk.
Settle(d, acks, base, heard) ==
    /\ disk' = [disk EXCEPT ![d] = Without(@, {acks[i].write.id : i \in 1..Len(acks)})]
    /\ Learn(d, acks, base, heard)

\* The callback of sendPut: the write is no longer outstanding, and is settled now or,
\* while a listen is unanswered, with that listen.
OnAck(d) ==
    /\ down[d] # <<>>
    /\ ~IsListen(Head(down[d]))
    /\ puts' = [puts EXCEPT ![d] = Without(@, {Head(down[d]).write.id})]
    /\ IF ListenUnanswered(d)
         THEN /\ held' = [held EXCEPT ![d] = Append(@, Head(down[d]))]
              /\ UNCHANGED <<cache, known, disk>>
         ELSE /\ Settle(d, <<Head(down[d])>>, cache[d], {})
              /\ UNCHANGED held
    /\ down' = [down EXCEPT ![d] = Tail(@)]
    /\ UNCHANGED <<server, conn, up, appVars, pairs, joined, intended, stranded, cuts>>

\* The answer of a listen: the record is cached and delivered to the once that waits
\* for it; after the last one ackPuts settles the writes held back.
OnListen(d) ==
    /\ down[d] # <<>>
    /\ IsListen(Head(down[d]))
    /\ LET msg == Head(down[d])
           cached == [cache[d] EXCEPT ![msg.member] = msg.record]
           shown == Shown(d, cached)
           last == \A i \in 1..Len(up[d]) : ~IsListen(up[d][i])
           quiet == last /\ \A i \in 2..Len(down[d]) : ~IsListen(down[d][i])
       IN  /\ Settle(d, IF quiet THEN held[d] ELSE <<>>, cached, {msg.member})
           /\ held' = IF quiet THEN [held EXCEPT ![d] = <<>>] ELSE held
           /\ login' = IF login[d] = Waiting(msg.member)
                         THEN [login EXCEPT ![d] = Answered(msg.member, shown[msg.member] # Nothing)]
                         ELSE login
    /\ down' = [down EXCEPT ![d] = Tail(@)]
    /\ UNCHANGED <<server, puts, conn, up, chain, pairs, joined, intended, stranded, cuts>>

-----------------------------------------------------------------------------
App(d) ==
    \/ \E m \in Members : Once(d, m) \/ Redirect(d, m)
    \/ OnFound(d)
    \/ OnMissing(d)
    \/ StorePair(d)

Net(d) == Execute(d) \/ OnAck(d) \/ OnListen(d)

Next == \E d \in Devices : App(d) \/ Net(d) \/ Connect(d) \/ Disconnect(d) \/ Restart(d)

\* The client reconnects, and a connection that is up moves what is on it; nothing
\* makes the member act.
Fairness == \A d \in Devices : WF_vars(Connect(d)) /\ WF_vars(Net(d))

Spec == Init /\ [][Next]_vars /\ Fairness

-----------------------------------------------------------------------------
\* Properties.

\* What the two channels and login$ can hold.
Requests == [type : {"put"}, write : Writes] \cup [type : {"listen"}, member : Members]
Acks == [type : {"put"}, write : Writes, ok : BOOLEAN]
Answers == Acks \cup [type : {"listen"}, member : Members, record : Records]
Logins == {NoLogin} \cup [member : Members, stage : {"once", "found", "missing"}]

\* The values of the queues, the channels, the records and the app's tasks.
TypeOK ==
    /\ server \in [Members -> Records] /\ intended \in [Members -> Records]
    /\ disk \in [Devices -> Seq(Writes)] /\ puts \in [Devices -> Seq(Writes)]
    /\ held \in [Devices -> Seq(Acks)]
    /\ conn \in [Devices -> BOOLEAN]
    /\ up \in [Devices -> Seq(Requests)] /\ down \in [Devices -> Seq(Answers)]
    /\ login \in [Devices -> Logins]
    /\ chain \in [Devices -> Members \cup {Nothing}]
    /\ pairs \in 0..MaxPairs
    /\ joined \subseteq Members
    /\ stranded \in BOOLEAN

\* On the only device that writes, a queue that has drained means that the server
\* holds what the app wrote, the last write of each record on top, whatever was lost,
\* held back, sent twice or refused on the way: writes are sent again in the order they
\* were made, and one that left the disk has been executed for the last time.  The one
\* exception is a connection lost while an acknowledgement is held back: a later write
\* is then settled first, and a restart sends the older one again, on top of it.
DrainedMeansStored ==
    \A d \in Devices : Devices = {d} /\ disk[d] = <<>> /\ ~stranded => server = intended

\* A record disappears only by the first login of another member, and loses its
\* tokens only by a first login of its own member, which can be one that looked before
\* the record was there: nothing else of login$ or ecdRedirect$, no retry, no restart
\* and no refused write takes a record away.
LossNeedsFirstLogin ==
    [][\A m \in Members :
        /\ server[m] # Nothing /\ server'[m] = Nothing => joined \ {m} # {}
        /\ server[m] \in Pairs /\ server'[m] = 0 => m \in joined]_vars

\* Every write the app made is settled in the end, although connections are cut and
\* the app is killed: executed by the server or refused.  An acknowledgement stranded
\* in putsToAck waits for the next listen, which may never come, and logins that never
\* stop may overlap so that some listen is always unanswered.
QueueDrains ==
    \A d \in Devices :
        <>[](login[d] = NoLogin) => (disk[d] # <<>> ~> disk[d] = <<>> \/ stranded)
=============================================================================
