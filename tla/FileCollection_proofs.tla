------------------------ MODULE FileCollection_proofs ------------------------
(***************************************************************************)
(* The types of module FileCollection; that the poller does not sleep over *)
(* a command; and that it gives up a null object only for a descriptor     *)
(* that hangs up after a client unsubscribed it.  All this for every       *)
(* number of threads, descriptors and commands.                            *)
(***************************************************************************)
EXTENDS FileCollection, SequenceTheorems, TLAPS

\* What may be appended to the queue, and what its front is.
LEMMA QueueTypes ==
    ASSUME NEW S, NEW q \in Seq(S)
    PROVE  /\ \A x \in S : Append(q, x) \in Seq(S)
           /\ q # <<>> => Head(q) \in S /\ Tail(q) \in Seq(S)
  BY HeadTailProperties

\* A look into m_map gives an entry to a descriptor that has none.
LEMMA InsertedTypes ==
    ASSUME NEW f \in Fds \cup {Pipe},
           map \in [Fds \cup {Pipe} -> {"none", "subscribed", "default"}]
    PROVE  /\ Inserted(f) \in [Fds \cup {Pipe} -> {"none", "subscribed", "default"}]
           /\ \A g \in Fds \cup {Pipe} :
                 /\ Inserted(f)[g] = "subscribed" <=> map[g] = "subscribed"
                 /\ g # f \/ map[g] = "subscribed" => Inserted(f)[g] = map[g]
  BY DEF Inserted
-----------------------------------------------------------------------------
(* Types *)

LEMMA HandleCommandTypes ==
    ASSUME TypeOK, HandleCommand
    PROVE  TypeOK'
  <1>1. Head(commands) \in Commands /\ Tail(commands) \in Seq(Commands)
    BY QueueTypes DEF TypeOK, HandleCommand
  <1>2. /\ map' \in [Fds \cup {Pipe} -> {"none", "subscribed", "default"}]
        /\ known' \subseteq Fds
        /\ stop' \in BOOLEAN /\ crashed' \in BOOLEAN
    <2>0. /\ map \in [Fds \cup {Pipe} -> {"none", "subscribed", "default"}]
          /\ known \subseteq Fds
          /\ stop \in BOOLEAN /\ crashed \in BOOLEAN
      BY DEF TypeOK
    <2>1. CASE Head(commands).op = "subscribe" /\ Subscribe(Head(commands).fd)
      <3>1. Head(commands).fd \in Fds
        BY <1>1, <2>1 DEF Commands, Exit, Command
      <3> QED
        BY <2>0, <2>1, <3>1 DEF Subscribe
    <2>2. CASE Head(commands).op = "unsubscribe" /\ Head(commands).fd # Null
               /\ Unsubscribe(Head(commands).fd)
      <3>1. Head(commands).fd \in Fds
        BY <1>1, <2>2 DEF Commands, Exit, Command
      <3> QED
        BY <2>0, <2>2, <3>1 DEF Unsubscribe
    <2>3. CASE Head(commands).op = "unsubscribe" /\ crashed' = TRUE
               /\ UNCHANGED <<map, known, stop>>
      BY <2>0, <2>3
    <2>4. CASE Head(commands).op = "exit" /\ stop' = TRUE /\ UNCHANGED <<map, known, crashed>>
      BY <2>0, <2>4
    <2> QED
      BY <2>1, <2>2, <2>3, <2>4 DEF HandleCommand, Dispatch
  <1> QED
    BY <1>1, <1>2 DEF HandleCommand, TypeOK, pollerVars, clientVars

LEMMA PollerTypes ==
    ASSUME TypeOK, Poller \/ PollTimesOut \/ PollFails
    PROVE  TypeOK'
  <1> USE DEF Go
  <1>0. /\ commands \in Seq(Commands)
        /\ map \in [Fds \cup {Pipe} -> {"none", "subscribed", "default"}]
    BY DEF TypeOK
  <1>1. CASE HandleCommand
    BY <1>1, HandleCommandTypes
  <1>2. CASE Build
    BY <1>2 DEF Build, TypeOK, tables, clientVars
  <1>3. CASE PollReturns
    <2>1. Reports \subseteq [fd : Fds \cup {Pipe}, revents : {"data", "eof", "hangup"}]
      BY DEF Reports, TypeOK
    <2> QED
      BY <1>3, <2>1 DEF PollReturns, TypeOK, tables, clientVars
  <1>4. CASE PollTimesOut \/ PollFails
    BY <1>4 DEF PollTimesOut, PollFails, TypeOK, tables, clientVars
  <1>5. CASE Woken \/ WokenAgain
    <2>1. map' \in [Fds \cup {Pipe} -> {"none", "subscribed", "default"}]
      BY <1>0, <1>5, InsertedTypes DEF Woken, WokenAgain, ReadPipe
    <2>2. hot' \subseteq hot
      BY <1>5 DEF Woken, WokenAgain
    <2> QED
      BY <1>5, <2>1, <2>2 DEF Woken, WokenAgain, ReadPipe, TypeOK, clientVars
  <1>6. CASE EndDrain
    BY <1>6 DEF EndDrain, TypeOK, tables, clientVars
  <1>7. ASSUME NEW r \in hot, Scan(r)
        PROVE  TypeOK'
    <2>1. r.fd \in Fds /\ hot' \subseteq hot
      BY <1>7 DEF Scan, TypeOK
    <2>2. map' \in [Fds \cup {Pipe} -> {"none", "subscribed", "default"}]
      BY <1>0, <1>7, <2>1, InsertedTypes DEF Scan
    <2>3. commands' \in Seq(Commands)
      <3>1. Command("unsubscribe", IF r.fd \in known THEN r.fd ELSE Null) \in Commands
        BY <2>1 DEF Command, Commands
      <3> QED
        BY <1>0, <1>7, <3>1, QueueTypes DEF Scan, GiveUp
    <2>4. events' \subseteq Fds
      BY <1>7, <2>1 DEF Scan, TypeOK
    <2> QED
      BY <1>7, <2>1, <2>2, <2>3, <2>4 DEF Scan, TypeOK, clientVars
  <1>8. CASE EndScan
    BY <1>8 DEF EndScan, TypeOK, tables, clientVars
  <1>9. ASSUME NEW f \in events, Fire(f)
        PROVE  TypeOK'
    <2>1. f \in Fds /\ events' \subseteq events
      BY <1>9 DEF Fire, TypeOK
    <2>2. map' \in [Fds \cup {Pipe} -> {"none", "subscribed", "default"}]
      BY <1>0, <1>9, <2>1, InsertedTypes DEF Fire
    <2>3. ready' \in [Fds -> {"none", "data", "eof", "hangup"}]
      BY <1>9, <2>1 DEF Fire, TypeOK
    <2> QED
      BY <1>9, <2>1, <2>2, <2>3 DEF Fire, TypeOK, clientVars
  <1>10. CASE EndFire
    BY <1>10 DEF EndFire, TypeOK, tables, clientVars
  <1> QED
    BY <1>1, <1>2, <1>3, <1>4, <1>5, <1>6, <1>7, <1>8, <1>9, <1>10 DEF Poller

LEMMA PushTypes ==
    ASSUME FCAssumption, TypeOK, NEW c \in Clients, NEW cmd \in Commands, Push(c, cmd)
    PROVE  /\ commands' \in Seq(Commands)
           /\ pc' \in [Clients -> {"idle", "pushed"}]
           /\ issued < MaxCommands => issued + 1 \in 0..MaxCommands
           /\ UNCHANGED <<interrupted, tables, pollerVars, ready>>
  BY QueueTypes DEF Push, TypeOK, FCAssumption

LEMMA ClientTypes ==
    ASSUME FCAssumption, TypeOK, NEW c \in Clients, Client(c)
    PROVE  TypeOK'
  <1>1. ASSUME NEW f \in Fds, PushSubscribe(c, f)
        PROVE  TypeOK'
    <2>1. Command("subscribe", f) \in Commands
      BY DEF Command, Commands
    <2>2. Push(c, Command("subscribe", f)) /\ issued < MaxCommands
      BY <1>1 DEF PushSubscribe
    <2> QED
      BY <1>1, <2>1, <2>2, PushTypes DEF PushSubscribe, TypeOK, tables, pollerVars
  <1>2. ASSUME NEW f \in Fds, PushUnsubscribe(c, f)
        PROVE  TypeOK'
    <2>1. Command("unsubscribe", f) \in Commands
      BY DEF Command, Commands
    <2>2. Push(c, Command("unsubscribe", f)) /\ issued < MaxCommands
      BY <1>2 DEF PushUnsubscribe
    <2> QED
      BY <1>2, <2>1, <2>2, PushTypes DEF PushUnsubscribe, TypeOK, tables, pollerVars
  <1>3. CASE PushStop(c)
    <2>1. Exit \in Commands
      BY DEF Commands
    <2>2. Push(c, Exit) /\ issued < MaxCommands
      BY <1>3 DEF PushStop
    <2> QED
      BY <1>3, <2>1, <2>2, PushTypes DEF PushStop, TypeOK, tables, pollerVars
  <1>4. CASE Interrupt(c)
    BY <1>4 DEF Interrupt, TypeOK, tables, pollerVars
  <1> QED
    BY <1>1, <1>2, <1>3, <1>4 DEF Client

LEMMA PeerTypes ==
    ASSUME TypeOK, NEW f \in Fds, Peer(f)
    PROVE  TypeOK'
  <1>1. ready' \in [Fds -> {"none", "data", "eof", "hangup"}]
    BY DEF Peer, TypeOK
  <1> QED
    BY <1>1 DEF Peer, TypeOK, tables, pollerVars, clientVars

\* The file collection keeps its types, for any threads and descriptors.
THEOREM FCTypeCorrect == Spec => []TypeOK
  <1>1. Init => TypeOK
    <2> SUFFICES ASSUME Init
                 PROVE  TypeOK
      OBVIOUS
    <2>1. commands \in Seq(Commands) /\ issued \in 0..MaxCommands
      BY FCAssumption, EmptySeq DEF Init, FCAssumption
    <2>2. /\ map \in [Fds \cup {Pipe} -> {"none", "subscribed", "default"}]
          /\ ready \in [Fds -> {"none", "data", "eof", "hangup"}]
          /\ pc \in [Clients -> {"idle", "pushed"}]
      BY DEF Init
    <2> QED
      BY <2>1, <2>2 DEF Init, TypeOK
  <1>2. TypeOK /\ [Next]_vars => TypeOK'
    <2> SUFFICES ASSUME TypeOK, [Next]_vars
                 PROVE  TypeOK'
      OBVIOUS
    <2>1. CASE UNCHANGED vars
      BY <2>1 DEF vars, tables, pollerVars, clientVars, TypeOK
    <2> QED
      BY <2>1, FCAssumption, PollerTypes, ClientTypes, PeerTypes DEF Next
  <1> QED
    BY <1>1, <1>2, PTL DEF Spec
-----------------------------------------------------------------------------
(* Sleep *)

\* The poller never polls over a command without a byte in the pipe or one
\* about to be written (FileCollection::interrupt, run).
THEOREM FCNoSleepOverCommand == Spec => []NoSleepOverCommand
  <1>1. Init => NoSleepOverCommand
    BY DEF Init, NoSleepOverCommand
  <1>2. TypeOK /\ NoSleepOverCommand /\ [Next]_vars => NoSleepOverCommand'
    <2> SUFFICES ASSUME TypeOK, NoSleepOverCommand, [Next]_vars
                 PROVE  NoSleepOverCommand'
      OBVIOUS
    <2> USE DEF NoSleepOverCommand, Go
    <2>1. CASE Poller \/ PollTimesOut \/ PollFails
      BY <2>1 DEF Poller, PollTimesOut, PollFails, HandleCommand, Build, PollReturns, Woken, WokenAgain,
                  ReadPipe, EndDrain, Scan, EndScan, Fire, EndFire, pollerVars, clientVars
    <2>2. ASSUME NEW c \in Clients, Client(c)
          PROVE  NoSleepOverCommand'
      <3>1. CASE Interrupt(c)
        BY <2>2, <3>1 DEF Interrupt
      <3>2. ASSUME NEW cmd, Push(c, cmd)
            PROVE  NoSleepOverCommand'
        BY <2>2, <3>2 DEF Push, TypeOK
      <3> QED
        BY <2>2, <3>1, <3>2 DEF Client, PushSubscribe, PushUnsubscribe, PushStop
    <2>3. ASSUME NEW f \in Fds, Peer(f)
          PROVE  NoSleepOverCommand'
      BY <2>3 DEF Peer, pollerVars, clientVars
    <2>4. CASE UNCHANGED vars
      BY <2>4 DEF vars, pollerVars, clientVars
    <2> QED
      BY <2>1, <2>2, <2>3, <2>4 DEF Next
  <1> QED
    BY <1>1, <1>2, FCTypeCorrect, PTL DEF Spec
-----------------------------------------------------------------------------
(***************************************************************************)
(* The null object.  What no client unsubscribes is given up by the poller *)
(* alone, after it was scanned, and the commands are handled before the    *)
(* next vector is built: what is still to be scanned or fired is           *)
(* subscribed, and not to be unsubscribed yet.  An entry without an object *)
(* is therefore that of a dropped descriptor, and it is given up because   *)
(* that one hangs up, which it does for good.                              *)
(***************************************************************************)

\* The two tables agree.
TablesAgree == \A f \in Fds : map[f] = "subscribed" <=> f \in known

DroppedHangsUp == \E f \in dropped : ready[f] = "hangup"

\* What the poll reported as hung up is.
HangUps == \A r \in hot : r.revents = "hangup" => r.fd \in Fds /\ ready[r.fd] = "hangup"

\* A descriptor is reported once, and not fired before it is scanned.
Once ==
    /\ \A r, s \in hot : r.fd = s.fd => r = s
    /\ \A r \in hot : r.fd \notin events
    /\ phase \in {"top", "poll"} => hot = {} /\ events = {}
    /\ phase = "woken" => events = {}
    /\ phase = "fire" => hot = {}

\* A command names the object of f, or, for Null, none.
GivenUp(f) == \E i \in 1..Len(commands) : commands[i] = Command("unsubscribe", f)

InHand(f) ==
    \/ phase = "poll" /\ f \in polled
    \/ \E r \in hot : r.fd = f
    \/ f \in events

InHandIsSubscribed ==
    \A f \in Fds \ dropped :
        /\ map[f] # "default"
        /\ InHand(f) => map[f] = "subscribed" /\ ~GivenUp(f)

NullCommandOnlyIfDropped == GivenUp(Null) => DroppedHangsUp

NullInv ==
    /\ TablesAgree /\ HangUps /\ Once /\ InHandIsSubscribed
    /\ NullCommandOnlyIfDropped /\ NullOnlyIfDropped

\* Who has hung up stays so, and a dropped descriptor counts as dropped for good.
LEMMA BlameStays ==
    ASSUME dropped \subseteq dropped', dropped \subseteq Fds,
           \A f \in Fds : ready[f] = "hangup" => ready'[f] = "hangup"
    PROVE  DroppedHangsUp => DroppedHangsUp'
  BY DEF DroppedHangsUp

\* What a queue holds after an element was appended, or its first one taken.
LEMMA AppendHolds ==
    ASSUME NEW q \in Seq(Commands), NEW x \in Commands, NEW y
    PROVE  (\E i \in 1..Len(Append(q, x)) : Append(q, x)[i] = y)
               <=> x = y \/ \E i \in 1..Len(q) : q[i] = y
  <1>1. /\ Len(q) \in Nat
        /\ Len(Append(q, x)) = Len(q) + 1
        /\ \A i \in 1..Len(q) : Append(q, x)[i] = q[i]
        /\ Append(q, x)[Len(q) + 1] = x
    BY LenProperties
  <1>2. 1..(Len(q) + 1) = 1..Len(q) \cup {Len(q) + 1}
    BY <1>1
  <1> QED
    BY <1>1, <1>2

LEMMA TailHolds ==
    ASSUME NEW q \in Seq(Commands), q # <<>>, NEW y,
           \E i \in 1..Len(Tail(q)) : Tail(q)[i] = y
    PROVE  \E i \in 1..Len(q) : q[i] = y
  <1>1. Len(Tail(q)) = Len(q) - 1 /\ \A i \in 1..Len(Tail(q)) : Tail(q)[i] = q[i + 1]
    BY HeadTailProperties
  <1>2. Len(q) \in Nat
    BY LenProperties
  <1>3. PICK i \in 1..Len(Tail(q)) : Tail(q)[i] = y
    OBVIOUS
  <1>4. i + 1 \in 1..Len(q) /\ q[i + 1] = y
    BY <1>1, <1>2, <1>3
  <1> QED
    BY <1>4

LEMMA HandleCommandNull ==
    ASSUME FCAssumption, TypeOK, NullInv, HandleCommand
    PROVE  NullInv'
  <1> DEFINE h == Head(commands)
  <1>1. /\ commands \in Seq(Commands) /\ commands # <<>> /\ commands' = Tail(commands)
        /\ h \in Commands
        /\ 1 \in 1..Len(commands) /\ commands[1] = h
    <2>1. commands \in Seq(Commands) /\ commands # <<>> /\ commands' = Tail(commands)
      BY DEF HandleCommand, TypeOK
    <2> QED
      BY <2>1, EmptySeq, LenProperties, HeadTailProperties
  <1>2. \A f : GivenUp(f)' => GivenUp(f)
    BY <1>1, TailHolds DEF GivenUp
  <1>3. UNCHANGED <<phase, polled, hot, events, ready, dropped>>
    BY DEF HandleCommand, pollerVars, clientVars
  <1>4. /\ map \in [Fds \cup {Pipe} -> {"none", "subscribed", "default"}]
        /\ known \subseteq Fds
    BY DEF TypeOK
  <1>5. \/ h.op = "subscribe" /\ h.fd \in Fds /\ Subscribe(h.fd)
        \/ h.op = "unsubscribe" /\ h.fd \in Fds /\ h = Command("unsubscribe", h.fd)
           /\ Unsubscribe(h.fd)
        \/ h.op = "exit" /\ UNCHANGED <<map, known, crashed>>
        \/ h = Command("unsubscribe", Null) /\ UNCHANGED <<map, known>>
    <2>1. Dispatch(h)
      BY DEF HandleCommand
    <2>2. h.op = "subscribe" => h.fd \in Fds
      BY <1>1 DEF Commands, Exit, Command
    <2>3. h.op = "unsubscribe" => h.fd \in Fds \cup {Null} /\ h = Command("unsubscribe", h.fd)
      BY <1>1 DEF Commands, Exit, Command
    <2>4. Null \notin Fds
      BY DEF FCAssumption
    <2> HIDE DEF h
    <2> QED
      BY <2>1, <2>2, <2>3, <2>4 DEF Dispatch
  <1> HIDE DEF h
  <1>6. TablesAgree'
    BY <1>4, <1>5 DEF NullInv, TablesAgree, Subscribe, Unsubscribe
  <1>7. HangUps' /\ Once' /\ (DroppedHangsUp => DroppedHangsUp')
    BY <1>3 DEF NullInv, HangUps, Once, DroppedHangsUp
  <1>8. NullCommandOnlyIfDropped'
    BY <1>2, <1>7 DEF NullInv, NullCommandOnlyIfDropped
  <1>9. NullOnlyIfDropped'
    <2>1. crashed' => crashed \/ GivenUp(Null)
      BY <1>1, <1>5 DEF Subscribe, Unsubscribe, GivenUp
    <2> QED
      BY <1>7, <2>1 DEF NullInv, NullCommandOnlyIfDropped, NullOnlyIfDropped, DroppedHangsUp
  <1>10. InHandIsSubscribed'
    <2> SUFFICES ASSUME NEW f \in Fds \ dropped
                 PROVE  /\ map'[f] # "default"
                        /\ InHand(f)' => map'[f] = "subscribed" /\ ~GivenUp(f)'
      BY <1>3 DEF InHandIsSubscribed
    <2>1. map'[f] # "default"
      BY <1>4, <1>5 DEF NullInv, InHandIsSubscribed, Subscribe, Unsubscribe
    <2>2. ASSUME InHand(f)'
          PROVE  map'[f] = "subscribed" /\ ~GivenUp(f)'
      <3>1. map[f] = "subscribed" /\ ~GivenUp(f)
        BY <1>3, <2>2 DEF NullInv, InHandIsSubscribed, InHand
      <3>2. h # Command("unsubscribe", f)
        BY <1>1, <3>1 DEF GivenUp
      <3>3. map'[f] = "subscribed"
        BY <1>4, <1>5, <3>1, <3>2 DEF Subscribe, Unsubscribe
      <3> QED
        BY <1>2, <3>1, <3>3
    <2> QED
      BY <2>1, <2>2
  <1> QED
    BY <1>6, <1>7, <1>8, <1>9, <1>10 DEF NullInv

LEMMA ScanNull ==
    ASSUME FCAssumption, TypeOK, NullInv, NEW r \in hot, Scan(r)
    PROVE  NullInv'
  <1>1. /\ r.fd \in Fds /\ phase = "scan" /\ phase' = "scan"
        /\ hot' = hot \ {r} /\ map' = Inserted(r.fd)
        /\ UNCHANGED <<known, crashed, polled, ready, dropped>>
    BY DEF Scan, TypeOK, clientVars
  <1>2. /\ commands \in Seq(Commands)
        /\ map \in [Fds \cup {Pipe} -> {"none", "subscribed", "default"}]
    BY DEF TypeOK
  <1>3. /\ \A g \in Fds : map'[g] = "subscribed" <=> map[g] = "subscribed"
        /\ \A g \in Fds \ dropped : map'[g] = map[g]
    <2>1. r.fd \notin dropped => map[r.fd] = "subscribed"
      BY <1>1 DEF NullInv, InHandIsSubscribed, InHand
    <2> QED
      BY <1>1, <1>2, <2>1, InsertedTypes
  <1>4. TablesAgree' /\ HangUps' /\ NullOnlyIfDropped' /\ (DroppedHangsUp => DroppedHangsUp')
    BY <1>1, <1>3 DEF NullInv, TablesAgree, HangUps, NullOnlyIfDropped, DroppedHangsUp
  <1>5. CASE r.revents = "hangup" \/ AtEof(r.fd)
    <2> DEFINE cmd == Command("unsubscribe", IF r.fd \in known THEN r.fd ELSE Null)
    <2>1. commands' = Append(commands, cmd) /\ events' = events
      BY <1>5 DEF Scan, GiveUp
    <2>2. cmd \in Commands
      BY <1>1 DEF Command, Commands
    <2>3. \A f : GivenUp(f)' => cmd = Command("unsubscribe", f) \/ GivenUp(f)
      BY <1>2, <2>1, <2>2, AppendHolds DEF GivenUp
    <2>4. ASSUME r.fd \notin known
          PROVE  DroppedHangsUp
      <3>1. map[r.fd] # "subscribed"
        BY <1>1, <2>4 DEF NullInv, TablesAgree
      <3>2. r.fd \in dropped
        BY <1>1, <3>1 DEF NullInv, InHandIsSubscribed, InHand
      <3>3. ready[r.fd] = "hangup"
        BY <1>5, <3>1 DEF AtEof, NullInv, HangUps
      <3> QED
        BY <3>2, <3>3 DEF DroppedHangsUp
    <2>5. NullCommandOnlyIfDropped'
      <3>1. cmd = Command("unsubscribe", Null) => r.fd \notin known
        BY <1>1 DEF FCAssumption, Command
      <3> QED
        BY <1>4, <2>3, <2>4, <3>1 DEF NullInv, NullCommandOnlyIfDropped
    <2>6. Once'
      BY <1>1, <2>1 DEF NullInv, Once
    <2>7. InHandIsSubscribed'
      <3> SUFFICES ASSUME NEW f \in Fds \ dropped
                   PROVE  /\ map'[f] # "default"
                          /\ InHand(f)' => map'[f] = "subscribed" /\ ~GivenUp(f)'
        BY <1>1 DEF InHandIsSubscribed
      <3>1. ASSUME InHand(f)'
            PROVE  map[f] = "subscribed" /\ ~GivenUp(f) /\ f # r.fd
        <4>1. (\E s \in hot \ {r} : s.fd = f) \/ f \in events
          BY <1>1, <2>1, <3>1 DEF InHand
        <4>2. f # r.fd
          BY <4>1 DEF NullInv, Once
        <4> QED
          BY <4>1, <4>2 DEF NullInv, InHandIsSubscribed, InHand
      <3>2. ASSUME InHand(f)'
            PROVE  ~GivenUp(f)'
        <4>1. cmd # Command("unsubscribe", f)
          BY <3>1, <3>2 DEF Command, FCAssumption
        <4> QED
          BY <2>3, <3>1, <3>2, <4>1
      <3> QED
        BY <1>3, <3>1, <3>2 DEF NullInv, InHandIsSubscribed
    <2> QED
      BY <1>4, <2>5, <2>6, <2>7 DEF NullInv
  <1>6. CASE ~(r.revents = "hangup" \/ AtEof(r.fd))
    <2>1. events' = events \cup {r.fd} /\ commands' = commands
      BY <1>6 DEF Scan
    <2>2. NullCommandOnlyIfDropped'
      BY <1>4, <2>1 DEF NullInv, NullCommandOnlyIfDropped, GivenUp
    <2>3. Once'
      BY <1>1, <2>1 DEF NullInv, Once
    <2>4. \A f \in Fds : InHand(f)' => InHand(f)
      BY <1>1, <2>1 DEF InHand
    <2>5. InHandIsSubscribed'
      BY <1>1, <1>3, <2>1, <2>4 DEF NullInv, InHandIsSubscribed, GivenUp
    <2> QED
      BY <1>4, <2>2, <2>3, <2>5 DEF NullInv
  <1> QED
    BY <1>5, <1>6

LEMMA PollerNull ==
    ASSUME FCAssumption, TypeOK, NullInv, Poller \/ PollTimesOut \/ PollFails
    PROVE  NullInv'
  <1> USE DEF Go
  <1>0. /\ map \in [Fds \cup {Pipe} -> {"none", "subscribed", "default"}]
        /\ Pipe \notin Fds
    BY DEF TypeOK, FCAssumption
  <1>1. CASE HandleCommand
    BY <1>1, HandleCommandNull
  <1>2. CASE Build
    <2>1. UNCHANGED <<commands, map, known, crashed, hot, events, ready, dropped>>
      BY <1>2 DEF Build, tables, clientVars
    <2>2. TablesAgree' /\ HangUps' /\ NullCommandOnlyIfDropped' /\ NullOnlyIfDropped'
      BY <2>1 DEF NullInv, TablesAgree, HangUps, NullCommandOnlyIfDropped, NullOnlyIfDropped,
                  GivenUp, DroppedHangsUp
    <2>3. Once'
      BY <1>2, <2>1 DEF Build, NullInv, Once
    <2>4. \A f : ~GivenUp(f)'
      BY <1>2, EmptySeq DEF Build, GivenUp
    <2>5. ASSUME NEW f \in Fds \ dropped
          PROVE  /\ map'[f] # "default"
                 /\ InHand(f)' => map'[f] = "subscribed"
      <3>1. hot' = {} /\ events' = {}
        BY <1>2, <2>1 DEF Build, NullInv, Once
      <3>2. f \in polled' => map[f] # "none"
        BY <1>2 DEF Build
      <3>3. map[f] \in {"none", "subscribed", "default"} /\ map[f] # "default"
        BY <1>0 DEF NullInv, InHandIsSubscribed
      <3> QED
        BY <2>1, <3>1, <3>2, <3>3 DEF InHand
    <2>6. InHandIsSubscribed'
      BY <2>1, <2>4, <2>5 DEF InHandIsSubscribed
    <2> QED
      BY <2>2, <2>3, <2>6 DEF NullInv
  <1>3. CASE PollReturns
    <2>1. UNCHANGED <<commands, map, known, crashed, polled, events, ready, dropped>>
      BY <1>3 DEF PollReturns, tables, clientVars
    <2>2. TablesAgree' /\ NullCommandOnlyIfDropped' /\ NullOnlyIfDropped'
      BY <2>1 DEF NullInv, TablesAgree, NullCommandOnlyIfDropped, NullOnlyIfDropped,
                  GivenUp, DroppedHangsUp
    <2>3. \A r \in Reports : /\ r.fd \in polled
                             /\ r.fd \in Fds => r = [fd |-> r.fd, revents |-> ready[r.fd]]
                             /\ r.fd \notin Fds => r = [fd |-> Pipe, revents |-> "data"]
      BY <1>0 DEF Reports
    <2>4. HangUps'
      <3>1. \A r \in Reports : r.revents = "hangup" => r.fd \in Fds /\ ready[r.fd] = "hangup"
        BY <2>3
      <3> QED
        BY <1>3, <2>1, <3>1 DEF PollReturns, HangUps
    <2>5. Once'
      <3>1. events = {} /\ events' = {} /\ hot' = Reports /\ phase' \in {"woken", "scan"}
        BY <1>3 DEF PollReturns, NullInv, Once
      <3>2. \A r, s \in Reports : r.fd = s.fd => r = s
        BY <2>3
      <3> QED
        BY <3>1, <3>2 DEF Once
    <2>6. \A f \in Fds : InHand(f)' => InHand(f)
      BY <1>3, <2>3 DEF PollReturns, InHand, NullInv, Once
    <2>7. InHandIsSubscribed'
      BY <2>1, <2>6 DEF NullInv, InHandIsSubscribed, GivenUp
    <2> QED
      BY <2>2, <2>4, <2>5, <2>7 DEF NullInv
  <1>4. CASE PollTimesOut \/ PollFails \/ EndDrain \/ EndScan \/ EndFire
    <2>1. /\ UNCHANGED <<commands, map, known, crashed, hot, events, ready, dropped>>
          /\ phase' # "poll"
          /\ phase' = "top" => hot = {} /\ events = {}
          /\ phase' # "woken"
          /\ phase' = "fire" => hot = {}
      BY <1>4 DEF PollTimesOut, PollFails, EndDrain, EndScan, EndFire, NullInv, Once,
                  tables, clientVars
    <2>2. TablesAgree' /\ HangUps' /\ NullCommandOnlyIfDropped' /\ NullOnlyIfDropped'
      BY <2>1 DEF NullInv, TablesAgree, HangUps, NullCommandOnlyIfDropped, NullOnlyIfDropped,
                  GivenUp, DroppedHangsUp
    <2>3. Once'
      BY <2>1 DEF NullInv, Once
    <2>4. \A f \in Fds : InHand(f)' => InHand(f)
      BY <2>1 DEF InHand
    <2>5. InHandIsSubscribed'
      BY <2>1, <2>4 DEF NullInv, InHandIsSubscribed, GivenUp
    <2> QED
      BY <2>2, <2>3, <2>5 DEF NullInv
  <1>5. CASE Woken \/ WokenAgain
    <2>1. /\ hot' \subseteq hot /\ phase' = "drain" /\ map' = Inserted(Pipe)
          /\ UNCHANGED <<commands, known, crashed, events, ready, dropped>>
      BY <1>5 DEF Woken, WokenAgain, ReadPipe, clientVars
    <2>2. \A g \in Fds : map'[g] = map[g]
      BY <1>0, <2>1 DEF Inserted
    <2>3. TablesAgree' /\ HangUps' /\ NullCommandOnlyIfDropped' /\ NullOnlyIfDropped'
      BY <2>1, <2>2 DEF NullInv, TablesAgree, HangUps, NullCommandOnlyIfDropped,
                        NullOnlyIfDropped, GivenUp, DroppedHangsUp
    <2>4. Once'
      BY <2>1 DEF NullInv, Once
    <2>5. \A f \in Fds : InHand(f)' => InHand(f)
      BY <2>1 DEF InHand
    <2>6. InHandIsSubscribed'
      BY <2>1, <2>2, <2>5 DEF NullInv, InHandIsSubscribed, GivenUp
    <2> QED
      BY <2>3, <2>4, <2>6 DEF NullInv
  <1>6. ASSUME NEW r \in hot, Scan(r)
        PROVE  NullInv'
    BY <1>6, ScanNull
  <1>7. ASSUME NEW f \in events, Fire(f)
        PROVE  NullInv'
    <2>1. /\ f \in Fds /\ phase' = "fire" /\ events' = events \ {f} /\ map' = Inserted(f)
          /\ UNCHANGED <<commands, known, crashed, hot, dropped>>
      BY <1>7 DEF Fire, TypeOK, clientVars
    <2>2. /\ \A g \in Fds : map'[g] = "subscribed" <=> map[g] = "subscribed"
          /\ \A g \in Fds \ dropped : map'[g] = map[g]
      <3>1. f \notin dropped => map[f] = "subscribed"
        BY <2>1 DEF NullInv, InHandIsSubscribed, InHand
      <3> QED
        BY <1>0, <2>1, <3>1, InsertedTypes
    <2>3. \A g \in Fds : ready[g] = "hangup" => ready'[g] = "hangup"
      BY <1>7, <2>1 DEF Fire, TypeOK
    <2>4. DroppedHangsUp => DroppedHangsUp'
      BY <2>1, <2>3, BlameStays DEF TypeOK
    <2>5. TablesAgree' /\ HangUps'
      BY <2>1, <2>2, <2>3 DEF NullInv, TablesAgree, HangUps
    <2>6. NullCommandOnlyIfDropped' /\ NullOnlyIfDropped'
      BY <2>1, <2>4 DEF NullInv, NullCommandOnlyIfDropped, NullOnlyIfDropped, GivenUp, DroppedHangsUp
    <2>7. Once'
      BY <1>7, <2>1 DEF Fire, NullInv, Once
    <2>8. \A g \in Fds : InHand(g)' => InHand(g)
      BY <2>1 DEF InHand
    <2>9. InHandIsSubscribed'
      BY <2>1, <2>2, <2>8 DEF NullInv, InHandIsSubscribed, GivenUp
    <2> QED
      BY <2>5, <2>6, <2>7, <2>9 DEF NullInv
  <1> QED
    BY <1>1, <1>2, <1>3, <1>4, <1>5, <1>6, <1>7 DEF Poller

\* A client gives commands of its own; what it unsubscribes, it drops.
LEMMA PushNull ==
    ASSUME FCAssumption, TypeOK, NullInv, NEW c \in Clients,
           NEW cmd \in Commands, Push(c, cmd),
           dropped \subseteq dropped',
           \A f \in (Fds \ dropped') \cup {Null} : cmd # Command("unsubscribe", f)
    PROVE  NullInv'
  <1>1. /\ commands' = Append(commands, cmd)
        /\ UNCHANGED <<map, known, crashed, phase, polled, hot, events, ready>>
    BY DEF Push, tables, pollerVars
  <1>2. \A f : GivenUp(f)' => cmd = Command("unsubscribe", f) \/ GivenUp(f)
    BY <1>1, AppendHolds DEF TypeOK, GivenUp
  <1>3. DroppedHangsUp => DroppedHangsUp'
    BY <1>1, BlameStays DEF TypeOK
  <1>4. TablesAgree' /\ HangUps' /\ Once'
    BY <1>1 DEF NullInv, TablesAgree, HangUps, Once
  <1>5. NullCommandOnlyIfDropped' /\ NullOnlyIfDropped'
    BY <1>1, <1>2, <1>3 DEF NullInv, NullCommandOnlyIfDropped, NullOnlyIfDropped, DroppedHangsUp
  <1>6. \A f \in Fds : InHand(f)' => InHand(f)
    BY <1>1 DEF InHand
  <1>7. InHandIsSubscribed'
    BY <1>1, <1>2, <1>6 DEF NullInv, InHandIsSubscribed
  <1> QED
    BY <1>4, <1>5, <1>7 DEF NullInv

LEMMA ClientNull ==
    ASSUME FCAssumption, TypeOK, NullInv, NEW c \in Clients, Client(c)
    PROVE  NullInv'
  <1>1. ASSUME NEW f \in Fds, PushSubscribe(c, f)
        PROVE  NullInv'
    <2>1. Command("subscribe", f) \in Commands
      BY DEF Command, Commands
    <2>2. \A g : Command("subscribe", f) # Command("unsubscribe", g)
      BY DEF Command
    <2> QED
      BY <1>1, <2>1, <2>2, PushNull DEF PushSubscribe
  <1>2. ASSUME NEW f \in Fds, PushUnsubscribe(c, f)
        PROVE  NullInv'
    <2>1. Command("unsubscribe", f) \in Commands
      BY DEF Command, Commands
    <2>2. dropped' = dropped \cup {f} /\ f # Null
      BY <1>2 DEF PushUnsubscribe, FCAssumption
    <2>3. \A g \in (Fds \ dropped') \cup {Null} :
              Command("unsubscribe", f) # Command("unsubscribe", g)
      BY <2>2 DEF Command
    <2> QED
      BY <1>2, <2>1, <2>2, <2>3, PushNull DEF PushUnsubscribe
  <1>3. CASE PushStop(c)
    <2>1. Exit \in Commands
      BY DEF Commands
    <2>2. \A g : Exit # Command("unsubscribe", g)
      BY DEF Exit, Command
    <2> QED
      BY <1>3, <2>1, <2>2, PushNull DEF PushStop
  <1>4. CASE Interrupt(c)
    BY <1>4 DEF Interrupt, tables, pollerVars, NullInv, TablesAgree, HangUps, Once,
                InHandIsSubscribed, InHand, GivenUp, NullCommandOnlyIfDropped,
                NullOnlyIfDropped, DroppedHangsUp
  <1> QED
    BY <1>1, <1>2, <1>3, <1>4 DEF Client

\* The poller calls through a null object only if a descriptor hangs up that a
\* client has unsubscribed (FileCollection.cpp: handle_poll_results, unsubscribe).
THEOREM FCNullOnlyIfDropped == Spec => []NullOnlyIfDropped
  <1>1. Init => NullInv
    <2> SUFFICES ASSUME Init
                 PROVE  NullInv
      OBVIOUS
    <2>1. /\ hot = {} /\ events = {} /\ phase = "top" /\ known = {} /\ crashed = FALSE
          /\ \A f \in Fds : map[f] = "none"
      BY DEF Init
    <2>2. \A f : ~GivenUp(f)
      BY EmptySeq DEF Init, GivenUp
    <2> QED
      BY <2>1, <2>2 DEF NullInv, TablesAgree, HangUps, Once, InHandIsSubscribed, InHand,
                        NullCommandOnlyIfDropped, NullOnlyIfDropped
  <1>2. TypeOK /\ NullInv /\ [Next]_vars => NullInv'
    <2> SUFFICES ASSUME TypeOK, NullInv, [Next]_vars
                 PROVE  NullInv'
      OBVIOUS
    <2>1. ASSUME NEW f \in Fds, Peer(f)
          PROVE  NullInv'
      <3>1. /\ \A g \in Fds : ready[g] = "hangup" => ready'[g] = "hangup"
            /\ UNCHANGED <<commands, map, known, crashed, phase, polled, hot, events, dropped>>
        BY <2>1 DEF Peer, TypeOK, tables, pollerVars, clientVars
      <3>2. DroppedHangsUp => DroppedHangsUp'
        BY <3>1, BlameStays DEF TypeOK
      <3> QED
        BY <3>1, <3>2 DEF NullInv, TablesAgree, HangUps, Once, InHandIsSubscribed, InHand,
            GivenUp, NullCommandOnlyIfDropped, NullOnlyIfDropped, DroppedHangsUp
    <2>2. CASE UNCHANGED vars
      BY <2>2 DEF vars, tables, pollerVars, clientVars, NullInv, TablesAgree, HangUps, Once,
                  InHandIsSubscribed, InHand, GivenUp, NullCommandOnlyIfDropped,
                  NullOnlyIfDropped, DroppedHangsUp
    <2> QED
      BY <2>1, <2>2, FCAssumption, PollerNull, ClientNull DEF Next
  <1>3. NullInv => NullOnlyIfDropped
    BY DEF NullInv
  <1> QED
    BY <1>1, <1>2, <1>3, FCTypeCorrect, PTL DEF Spec
=============================================================================
