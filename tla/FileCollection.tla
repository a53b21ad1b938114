--------------------------- MODULE FileCollection ---------------------------
(***************************************************************************)
(* io::FileCollection (src/io/FileCollection.cpp): one thread, the poller, *)
(* polls the descriptors of a process and calls their observers.  The      *)
(* other threads tell it what to poll through a queue of commands, and     *)
(* wake it with a byte in a pipe that it polls too.                        *)
(*                                                                         *)
(* A poll, the look at its results, the handling of the commands that came *)
(* meanwhile and the calls of the observers are four moments, and the      *)
(* tables may differ at each of them.  A look into a std::map inserts what *)
(* it does not find: an entry "default" has the type SERVER_SOCKET and no  *)
(* observer, is polled like any other, and the pipe itself gets one.       *)
(*                                                                         *)
(* The queue is a BlockingQueue with one reader, so a sequence will do     *)
(* (module Channel).  poll() looks at the descriptors in the order of      *)
(* their numbers; the model takes any order, after the pipe.               *)
(***************************************************************************)
EXTENDS Naturals, Sequences

CONSTANTS
    Clients,        \* threads that subscribe and unsubscribe
    Fds,            \* descriptors of sockets
    MaxCommands     \* bound: how many commands the clients give

Pipe == "pipe"      \* m_pipe[0]
Null == "NULL"      \* a HasRawFd* that m_reverse_lookup does not hold

ASSUME FCAssumption ==
    /\ {Pipe, Null} \cap Fds = {}
    /\ MaxCommands \in Nat

VARIABLES
    commands,       \* m_command_queue
    interrupted,    \* is there a byte in the pipe?
    map,            \* m_map: "none", "subscribed" or "default"
    known,          \* the descriptors m_reverse_lookup has an object for
    stop,           \* m_stop
    crashed,        \* has a command dereferenced Null?
    phase,          \* where the poller is
    polled,         \* poll_data
    hot,            \* what the poll has reported and was not looked at yet
    events,         \* the events collected and not fired yet
    ready,          \* what each descriptor would report now
    pc,             \* where each client is
    want,           \* the descriptors the clients have subscribed
    dropped,        \* those they have ever unsubscribed, for the properties
    issued          \* how many commands the clients have given

tables == <<map, known, stop, crashed>>
pollerVars == <<phase, polled, hot, events>>
clientVars == <<pc, want, dropped, issued>>
vars == <<commands, interrupted, tables, pollerVars, ready, clientVars>>

Command(op, f) == [op |-> op, fd |-> f]
Exit == Command("exit", Null)

Init ==
    /\ commands = <<>> /\ interrupted = FALSE
    /\ map = [f \in Fds \cup {Pipe} |-> "none"] /\ known = {}
    /\ stop = FALSE /\ crashed = FALSE
    /\ phase = "top" /\ polled = {} /\ hot = {} /\ events = {}
    /\ ready = [f \in Fds |-> "none"]
    /\ pc = [c \in Clients |-> "idle"] /\ want = {} /\ dropped = {} /\ issued = 0
-----------------------------------------------------------------------------
Go(from, to) == phase = from /\ phase' = to

\* A look into m_map.
Inserted(f) == IF map[f] = "none" THEN [map EXCEPT ![f] = "default"] ELSE map

(***************************************************************************)
(* Mistaken variants of the operations below; see module BlockingQueue.    *)
(***************************************************************************)

\* The commands are left to the pipe.
Build_CommandsUnread ==
    /\ Go("top", "poll")
    /\ polled' = {f \in DOMAIN map : map[f] # "none"}
    /\ UNCHANGED <<commands, interrupted, tables, hot, events, ready, clientVars>>

\* The byte is not written.
Interrupt_Silent(c) ==
    /\ pc[c] = "pushed"
    /\ pc' = [pc EXCEPT ![c] = "idle"]
    /\ UNCHANGED <<commands, interrupted, tables, pollerVars, ready, want, dropped, issued>>

\* The loop starts at the poll: the vector is built once.
EndFire_KeepVector ==
    /\ Go("fire", "poll") /\ events = {}
    /\ UNCHANGED <<commands, interrupted, tables, polled, hot, events, ready, clientVars>>

\* m_stop is looked at only when nothing else was reported.
EndDrain_Busy ==
    /\ phase = "drain" /\ commands = <<>>
    /\ phase' = IF stop /\ hot = {} THEN "done" ELSE "scan"
    /\ UNCHANGED <<commands, interrupted, tables, polled, hot, events, ready, clientVars>>

\* The pipe's own entry is fired like any other.
WokenAgain_Fired ==
    /\ phase = "scan"
    /\ \E r \in hot : r.fd = Pipe /\ hot' = hot \ {r}
    /\ events' = events \cup {Pipe}
    /\ UNCHANGED <<commands, interrupted, tables, phase, polled, ready, clientVars>>

\* Only the reverse lookup is erased.
Unsubscribe_KeepEntry(f) ==
    /\ known' = known \ {f}
    /\ UNCHANGED <<map, stop, crashed>>
-----------------------------------------------------------------------------
(* The commands *)

Subscribe(f) ==
    /\ map' = [map EXCEPT ![f] = "subscribed"]
    /\ known' = known \cup {f}
    /\ UNCHANGED <<stop, crashed>>

Unsubscribe(f) ==
    /\ map' = [map EXCEPT ![f] = "none"]
    /\ known' = known \ {f}
    /\ UNCHANGED <<stop, crashed>>

\* dispatch_command.  raw_fd->getRawFd() of a null pointer ends the process.
Dispatch(cmd) ==
    \/ cmd.op = "subscribe" /\ Subscribe(cmd.fd)
    \/ cmd.op = "unsubscribe" /\ IF cmd.fd = Null
                                 THEN crashed' = TRUE /\ UNCHANGED <<map, known, stop>>
                                 ELSE Unsubscribe(cmd.fd)
    \/ cmd.op = "exit" /\ stop' = TRUE /\ UNCHANGED <<map, known, crashed>>

\* One round of handle_commands, at the top of the loop or after a wake-up.
HandleCommand ==
    /\ phase \in {"top", "drain"} /\ commands # <<>>
    /\ Dispatch(Head(commands))
    /\ commands' = Tail(commands)
    /\ UNCHANGED <<interrupted, pollerVars, ready, clientVars>>
-----------------------------------------------------------------------------
(* The poll *)

\* handle_commands has emptied the queue; the vector is built.
Build ==
    /\ Go("top", "poll") /\ commands = <<>>
    /\ polled' = {f \in DOMAIN map : map[f] # "none"}
    /\ UNCHANGED <<commands, interrupted, tables, hot, events, ready, clientVars>>

\* What poll() has to report.  The pipe's own pollfd comes first; the one it
\* has in m_map is among the others.
Reports ==
    {[fd |-> f, revents |-> ready[f]] : f \in {g \in polled \cap Fds : ready[g] # "none"}}
    \cup {[fd |-> f, revents |-> "data"] : f \in {g \in polled \cap {Pipe} : interrupted}}

PollReturns ==
    /\ phase = "poll"
    /\ interrupted \/ Reports # {}
    /\ hot' = Reports
    /\ phase' = IF interrupted THEN "woken" ELSE "scan"
    /\ UNCHANGED <<commands, interrupted, tables, polled, events, ready, clientVars>>

\* poll() fails: the exception ends the thread.
PollFails ==
    /\ Go("poll", "threw")
    /\ UNCHANGED <<commands, interrupted, tables, polled, hot, events, ready, clientVars>>

\* Five seconds have passed, and there is nothing.
PollTimesOut ==
    /\ Go("poll", "top") /\ ~interrupted /\ Reports = {}
    /\ UNCHANGED <<commands, interrupted, tables, polled, hot, events, ready, clientVars>>
-----------------------------------------------------------------------------
(* handle_poll_results *)

\* The pipe is readable: up to 1024 bytes are thrown away.  The second time
\* round it is empty, and does not block.
ReadPipe ==
    /\ map' = Inserted(Pipe)
    /\ interrupted' = FALSE
    /\ phase' = "drain"
    /\ UNCHANGED <<commands, known, stop, crashed, polled, events, ready, clientVars>>

Woken == phase = "woken" /\ ReadPipe /\ UNCHANGED hot

WokenAgain ==
    /\ phase = "scan"
    /\ \E r \in hot : r.fd = Pipe /\ hot' = hot \ {r}
    /\ ReadPipe

\* if(m_stop) return false
EndDrain ==
    /\ phase = "drain" /\ commands = <<>>
    /\ phase' = IF stop THEN "done" ELSE "scan"
    /\ UNCHANGED <<commands, interrupted, tables, polled, hot, events, ready, clientVars>>

\* FIONREAD finds nothing to read.
AtEof(f) == map[f] = "subscribed" /\ ready[f] = "eof"

\* enqueue_unsubscribe, of the object the reverse lookup gives: no interrupt.
GiveUp(f) ==
    commands' = Append(commands, Command("unsubscribe", IF f \in known THEN f ELSE Null))

\* A result: the descriptor has hung up, has nothing more, or has an event.
Scan(r) ==
    /\ phase = "scan" /\ r \in hot /\ r.fd # Pipe
    /\ hot' = hot \ {r}
    /\ map' = Inserted(r.fd)
    /\ IF r.revents = "hangup" \/ AtEof(r.fd)
       THEN GiveUp(r.fd) /\ UNCHANGED events
       ELSE events' = events \cup {r.fd} /\ UNCHANGED commands
    /\ UNCHANGED <<interrupted, known, stop, crashed, phase, polled, ready, clientVars>>

EndScan ==
    /\ Go("scan", "fire") /\ hot = {}
    /\ UNCHANGED <<commands, interrupted, tables, polled, hot, events, ready, clientVars>>

\* fireEvent: the observer m_map has by now, if any, reads what there is.
Fire(f) ==
    /\ phase = "fire" /\ f \in events
    /\ events' = events \ {f}
    /\ map' = Inserted(f)
    /\ ready' = IF map[f] = "subscribed" /\ ready[f] = "data"
                THEN [ready EXCEPT ![f] = "none"] ELSE ready
    /\ UNCHANGED <<commands, interrupted, known, stop, crashed, phase, polled, hot, clientVars>>

EndFire ==
    /\ Go("fire", "top") /\ events = {}
    /\ UNCHANGED <<commands, interrupted, tables, polled, hot, events, ready, clientVars>>

Poller ==
    \/ HandleCommand \/ Build \/ PollReturns
    \/ Woken \/ WokenAgain \/ EndDrain
    \/ \E r \in hot : Scan(r)
    \/ EndScan \/ (\E f \in events : Fire(f)) \/ EndFire
-----------------------------------------------------------------------------
(* The other threads *)

\* enqueue_subscribe, enqueue_unsubscribe, enqueue_stop.
Push(c, cmd) ==
    /\ pc[c] = "idle"
    /\ commands' = Append(commands, cmd)
    /\ pc' = [pc EXCEPT ![c] = "pushed"]
    /\ UNCHANGED <<interrupted, tables, pollerVars, ready>>

PushSubscribe(c, f) ==
    /\ f \notin want /\ issued < MaxCommands
    /\ Push(c, Command("subscribe", f))
    /\ want' = want \cup {f} /\ issued' = issued + 1 /\ UNCHANGED dropped

PushUnsubscribe(c, f) ==
    /\ f \in want /\ issued < MaxCommands
    /\ Push(c, Command("unsubscribe", f))
    /\ want' = want \ {f} /\ dropped' = dropped \cup {f} /\ issued' = issued + 1

PushStop(c) ==
    /\ issued < MaxCommands
    /\ Push(c, Exit)
    /\ issued' = issued + 1 /\ UNCHANGED <<want, dropped>>

\* interrupt()
Interrupt(c) ==
    /\ pc[c] = "pushed"
    /\ interrupted' = TRUE
    /\ pc' = [pc EXCEPT ![c] = "idle"]
    /\ UNCHANGED <<commands, tables, pollerVars, ready, want, dropped, issued>>

Client(c) ==
    \/ \E f \in Fds : PushSubscribe(c, f) \/ PushUnsubscribe(c, f)
    \/ PushStop(c) \/ Interrupt(c)

\* The peer sends, shuts its side down, or resets the connection.
Peer(f) ==
    /\ \/ ready[f] = "none" /\ ready' = [ready EXCEPT ![f] = "data"]
       \/ ready[f] = "none" /\ ready' = [ready EXCEPT ![f] = "eof"]
       \/ ready[f] \in {"none", "data"} /\ ready' = [ready EXCEPT ![f] = "hangup"]
    /\ UNCHANGED <<commands, interrupted, tables, pollerVars, clientVars>>
-----------------------------------------------------------------------------
Next ==
    /\ ~crashed
    /\ \/ Poller \/ PollTimesOut \/ PollFails
       \/ \E c \in Clients : Client(c)
       \/ \E f \in Fds : Peer(f)

Spec == Init /\ [][Next]_vars

(***************************************************************************)
(* The poller runs, but its poll is not helped by its time-out; an         *)
(* interrupt that was begun is written.  Nobody has to give a command, and *)
(* no peer has to send.                                                    *)
(***************************************************************************)
FairSpec ==
    Spec /\ WF_vars(Poller) /\ \A c \in Clients : WF_vars(Interrupt(c))
-----------------------------------------------------------------------------
Commands == [op : {"subscribe"}, fd : Fds]
            \cup [op : {"unsubscribe"}, fd : Fds \cup {Null}] \cup {Exit}

TypeOK ==
    /\ commands \in Seq(Commands)
    /\ interrupted \in BOOLEAN /\ stop \in BOOLEAN /\ crashed \in BOOLEAN
    /\ map \in [Fds \cup {Pipe} -> {"none", "subscribed", "default"}]
    /\ known \subseteq Fds
    /\ phase \in {"top", "poll", "woken", "drain", "scan", "fire", "done", "threw"}
    /\ polled \subseteq Fds \cup {Pipe}
    /\ hot \subseteq [fd : Fds \cup {Pipe}, revents : {"data", "eof", "hangup"}]
    /\ events \subseteq Fds
    /\ ready \in [Fds -> {"none", "data", "eof", "hangup"}]
    /\ pc \in [Clients -> {"idle", "pushed"}]
    /\ want \subseteq Fds /\ dropped \subseteq Fds /\ issued \in 0..MaxCommands

(***************************************************************************)
(* The poller does not go to sleep over a command: when it polls and there *)
(* is one, the byte that ends the poll is in the pipe or about to be       *)
(* written.  The commands the poller gives itself come without a byte.     *)
(***************************************************************************)
NoSleepOverCommand ==
    phase = "poll" /\ commands # <<>> =>
        interrupted \/ \E c \in Clients : pc[c] = "pushed"

(***************************************************************************)
(* Line 297: "There was a hangup, we need to remove the file descriptor".  *)
(* What is removed is an object: the reverse lookup has one for it.        *)
(***************************************************************************)
NeverNull == ~crashed

(***************************************************************************)
(* A descriptor that hangs up, or has nothing more to read, is given up    *)
(* once, with the object it was subscribed with, whatever the poller does  *)
(* between its poll and the command: an entry without an object stays      *)
(* behind only for a descriptor that a client unsubscribed, and the poller *)
(* calls through NULL only if that one hangs up too.                       *)
(***************************************************************************)
NullOnlyIfDropped == crashed => \E f \in dropped : ready[f] = "hangup"

\* The poller will not run any more.
Over == crashed \/ phase \in {"done", "threw"}

(***************************************************************************)
(* Every command is handled, without the help of the time-out of the poll. *)
(***************************************************************************)
CommandsHandled == commands # <<>> ~> commands = <<>> \/ Over

(***************************************************************************)
(* What can be read from a subscribed descriptor is read, however many     *)
(* commands come between.                                                  *)
(***************************************************************************)
EventsServed ==
    \A f \in Fds :
        map[f] = "subscribed" /\ ready[f] = "data"
            ~> ready[f] # "data" \/ map[f] # "subscribed" \/ Over

(***************************************************************************)
(* stop() ends the poller, even when the command was handled before the    *)
(* byte that announces it is there and other descriptors keep it busy.     *)
(***************************************************************************)
StopEnds == Exit \in {commands[i] : i \in DOMAIN commands} ~> Over
=============================================================================
