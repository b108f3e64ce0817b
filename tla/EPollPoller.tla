---------------------------- MODULE EPollPoller ----------------------------
(***************************************************************************)
(* Channel, Poller and EPollPoller (net/): the channels of one loop, over  *)
(* descriptors that are closed and used again.  The channels belong to     *)
(* connections and are used as TcpConnection uses them: made and removed   *)
(* by functors, disabled from their own callbacks.                         *)
(***************************************************************************)
EXTENDS Naturals, FiniteSets, Sequences, SequencesExt

CONSTANTS Chan, Fd, None,
          kInitEventListSize

ASSUME EPollPollerAssumption == kInitEventListSize \in Nat \ {0} /\ IsFiniteSet(Fd)

VARIABLES
    ch,         \* fd_, events_ and index_ of each Channel
    life,       \* none, made, up, closing (connectDestroyed() is queued), removed, gone
    channels_,  \* the Poller's map from descriptors to channels
    epoll,      \* the kernel's: for each registered descriptor, pointer and events
    ready,      \* the kernel's: what happened at each descriptor
    listSize,   \* events_.size()
    active,     \* activeChannels_ not yet handled, each with its revents_
    at,         \* where the loop is: poll, handle, functors
    aborted     \* an assertion failed or LOG_FATAL was reached

kernel == <<epoll, ready>>
loop       == <<listSize, active, at>>
pollerVars == <<ch, life, channels_, kernel, loop, aborted>>

HasChannel(c) == ch[c].fd \in DOMAIN channels_ /\ channels_[ch[c].fd] = c
OpenFds == {ch[c].fd : c \in {d \in Chan : life[d] \notin {"none", "gone"}}}

With(f, x, v) == [y \in DOMAIN f \cup {x} |-> IF y = x THEN v ELSE f[y]]
Without(f, x) == [y \in DOMAIN f \ {x} |-> f[y]]

PollerInit ==
    /\ ch = [c \in Chan |-> [fd |-> None, events |-> {}, index |-> "kNew"]]
    /\ life = [c \in Chan |-> "none"]
    /\ channels_ = <<>> /\ epoll = <<>>
    /\ ready = [fd \in Fd |-> {}]
    /\ listSize = kInitEventListSize
    /\ active = <<>> /\ at = "poll"
    /\ aborted = FALSE

-----------------------------------------------------------------------------
(* Channel::update() and EPollPoller::updateChannel(), with events_ = evs.  *)

(* epoll_ctl(EPOLL_CTL_ADD) fails for a descriptor that is registered. *)
AddChannel(c, evs) ==
    /\ ch[c].index \in {"kNew", "kDeleted"}
    /\ aborted' = \/ ch[c].index = "kDeleted" /\ ~HasChannel(c)
                  \/ ch[c].fd \in DOMAIN epoll
    /\ channels_' = IF ch[c].index = "kNew" THEN With(channels_, ch[c].fd, c)
                                            ELSE channels_
    /\ epoll' = With(epoll, ch[c].fd, [ptr |-> c, events |-> evs])
    /\ ch' = [ch EXCEPT ![c] = [fd |-> @.fd, events |-> evs, index |-> "kAdded"]]

ModifyChannel(c, evs) ==
    /\ ch[c].index = "kAdded" /\ evs # {}
    /\ aborted' = (ch[c].fd \notin DOMAIN epoll)
    /\ epoll' = With(epoll, ch[c].fd, [ptr |-> c, events |-> evs])
    /\ ch' = [ch EXCEPT ![c].events = evs]
    /\ UNCHANGED channels_

(* Faulty variant of DeleteChannel: the channel still counts as added. *)
DeleteKeepsIndex(c, evs) ==
    /\ ch[c].index = "kAdded" /\ evs = {}
    /\ epoll' = Without(epoll, ch[c].fd)
    /\ ch' = [ch EXCEPT ![c].events = evs]
    /\ UNCHANGED <<channels_, aborted>>

(* A failing EPOLL_CTL_DEL is only logged. *)
DeleteChannel(c, evs) ==
    /\ ch[c].index = "kAdded" /\ evs = {}
    /\ epoll' = Without(epoll, ch[c].fd)
    /\ ch' = [ch EXCEPT ![c] = [fd |-> @.fd, events |-> evs, index |-> "kDeleted"]]
    /\ UNCHANGED <<channels_, aborted>>

UpdateChannel(c, evs) ==
    AddChannel(c, evs) \/ ModifyChannel(c, evs) \/ DeleteChannel(c, evs)

-----------------------------------------------------------------------------
(* The kernel.                                                             *)

(* Data, or a reset by the peer. *)
Arrive(fd, what) ==
    /\ fd \in OpenFds
    /\ what \notin ready[fd]
    /\ ready' = [ready EXCEPT ![fd] = @ \cup {what}]
    /\ UNCHANGED <<ch, life, channels_, epoll, loop, aborted>>

(* What epoll_wait() would report: a hangup unasked, writability always. *)
REvents(fd) ==
    (epoll[fd].events \cap (ready[fd] \cup {"write"})) \cup (ready[fd] \cap {"hup"})

ReadyFds == {fd \in DOMAIN epoll : REvents(fd) # {}}

(* As many as fit into events_, in any order. *)
Reported ==
    {fds \in SUBSET ReadyFds :
        Cardinality(fds) = IF Cardinality(ReadyFds) < listSize
                           THEN Cardinality(ReadyFds) ELSE listSize}

-----------------------------------------------------------------------------
(* The loop: EPollPoller::poll(), Channel::handleEvent().                  *)

(* fillActiveChannels(); a full events_ is doubled.  A failing epoll_wait()
   gives size_t(-1) events, which is more than 0, and fills in none. *)
EPoll ==
    /\ at = "poll"
    /\ \/ \E fds \in Reported \ {{}} :
             /\ \E order \in SetToSeqs(fds) :
                   active' = [i \in DOMAIN order |->
                                [channel |-> epoll[order[i]].ptr,
                                 revents |-> REvents(order[i])]]
             /\ listSize' = IF Cardinality(fds) = listSize THEN 2 * listSize ELSE listSize
       \/ active' = <<>> /\ UNCHANGED listSize       \* timeout, wakeup or EINTR
    /\ at' = "handle"
    /\ UNCHANGED <<ch, life, channels_, kernel, aborted>>

Current == active[1].channel
Pending(what) == at = "handle" /\ active # <<>> /\ what \in active[1].revents

(* Faulty variant of Done: the rest of the list is forgotten. *)
DoneForgetsRest(what) == active' = <<>> /\ UNCHANGED <<listSize, at>>

(* The callbacks for what have run. *)
Done(what) ==
    /\ active' = IF active[1].revents = what THEN Tail(active)
                 ELSE <<[active[1] EXCEPT !.revents = @ \ what]>> \o Tail(active)
    /\ UNCHANGED <<listSize, at>>

(* TcpConnection::handleClose() queues connectDestroyed(). *)
HandleClose(c) ==
    /\ UpdateChannel(c, {})
    /\ life' = [life EXCEPT ![c] = "closing"]

(* EPOLLHUP, and with EPOLLIN only the read callback. *)
HandleHup ==
    /\ Pending("hup")
    /\ Done({"hup"})
    /\ IF "read" \in active[1].revents
       THEN UNCHANGED <<ch, life, channels_, epoll, aborted>>
       ELSE HandleClose(Current)
    /\ UNCHANGED ready

(* There is data, or its end. *)
HandleIn ==
    /\ Pending("read") /\ ~Pending("hup")
    /\ Done({"read"})
    /\ ready' = [ready EXCEPT ![ch[Current].fd] = @ \ {"read"}]
    /\ \/ HandleClose(Current)
       \/ UNCHANGED <<ch, life, channels_, epoll, aborted>>

(* handleWrite() looks at isWriting(); what was written may be all or not. *)
HandleWrite ==
    /\ Pending("write") /\ ~Pending("read") /\ ~Pending("hup")
    /\ Done({"write"})
    /\ \/ /\ "write" \in ch[Current].events
          /\ UpdateChannel(Current, ch[Current].events \ {"write"})
       \/ UNCHANGED <<ch, channels_, epoll, aborted>>
    /\ UNCHANGED <<life, ready>>

(* sendInLoop() of any connection, in a callback or a functor. *)
EnableWriting(c) ==
    /\ at \in {"handle", "functors"}
    /\ life[c] = "up" /\ "write" \notin ch[c].events
    /\ UpdateChannel(c, ch[c].events \cup {"write"})
    /\ UNCHANGED <<life, ready, loop>>

ActiveDone ==
    /\ at = "handle" /\ active = <<>>
    /\ at' = "functors"
    /\ UNCHANGED <<ch, life, channels_, kernel, listSize, active, aborted>>

-----------------------------------------------------------------------------
(* Functors, and the end of a connection.                                  *)

(* A connection was accepted, here or in the base loop: the constructor of its
   Channel, on the descriptor accept() returned. *)
Construct(c, fd) ==
    /\ life[c] = "none" /\ fd \notin OpenFds
    /\ life' = [life EXCEPT ![c] = "made"]
    /\ ch' = [ch EXCEPT ![c].fd = fd]
    /\ UNCHANGED <<channels_, kernel, loop, aborted>>

(* connectEstablished() enables reading. *)
ConnectEstablished(c) ==
    /\ at = "functors"
    /\ life[c] = "made"
    /\ life' = [life EXCEPT ![c] = "up"]
    /\ UpdateChannel(c, {"read"})
    /\ UNCHANGED <<ready, loop>>

(* Faulty variant of RemoveChannel: the entry stays if nothing is registered. *)
RemoveIfAdded(c) ==
    /\ IF ch[c].index = "kAdded"
       THEN channels_' = Without(channels_, ch[c].fd) /\ epoll' = Without(epoll, ch[c].fd)
       ELSE UNCHANGED <<channels_, epoll>>
    /\ ch' = [ch EXCEPT ![c].index = "kNew"]

(* Erases the entry of the descriptor, whosever it is. *)
RemoveChannel(c) ==
    /\ channels_' = Without(channels_, ch[c].fd)
    /\ epoll' = IF ch[c].index = "kAdded" THEN Without(epoll, ch[c].fd) ELSE epoll
    /\ ch' = [ch EXCEPT ![c].index = "kNew"]

(* connectDestroyed(); Channel::remove() asserts that no event is left. *)
ConnectDestroyed(c) ==
    /\ at = "functors"
    /\ life[c] = "closing"
    /\ life' = [life EXCEPT ![c] = "removed"]
    /\ RemoveChannel(c)
    /\ aborted' = (ch[c].events # {})
    /\ UNCHANGED <<ready, loop>>

(* The last pointer goes, in the loop or in another thread: ~Channel asserts
   that the poller does not have it, ~Socket closes the descriptor. *)
Destroy(c) ==
    /\ life[c] = "removed"
    /\ life' = [life EXCEPT ![c] = "gone"]
    /\ aborted' = HasChannel(c)
    /\ epoll' = Without(epoll, ch[c].fd)
    /\ ready' = [ready EXCEPT ![ch[c].fd] = {}]
    /\ UNCHANGED <<ch, channels_, loop>>

FunctorsDone ==
    /\ at = "functors"
    /\ at' = "poll"
    /\ UNCHANGED <<ch, life, channels_, kernel, listSize, active, aborted>>

Loop == EPoll \/ HandleHup \/ HandleIn \/ HandleWrite \/ ActiveDone \/ FunctorsDone

PollerNext ==
    /\ ~aborted
    /\ \/ Loop
       \/ \E c \in Chan : EnableWriting(c) \/ ConnectEstablished(c)
                             \/ ConnectDestroyed(c) \/ Destroy(c)
       \/ \E c \in Chan, fd \in Fd : Construct(c, fd)
       \/ \E fd \in Fd, what \in {"read", "hup"} : Arrive(fd, what)

Reports(c) == EPoll /\ \E i \in DOMAIN active' : active'[i].channel = c

(* The loop goes on.  epoll is level-triggered and rotates what is ready. *)
PollerSpec ==
    /\ PollerInit /\ [][PollerNext]_pollerVars
    /\ WF_pollerVars(Loop)
    /\ \A c \in Chan : SF_pollerVars(Reports(c))

-----------------------------------------------------------------------------

(* The three records of a registration agree through any reuse of descriptors:
   a channel is in channels_ exactly while it is neither new nor removed, epoll
   has its pointer and its events exactly while its index says kAdded, and it
   is kDeleted exactly when no event is left (updateChannel(), removeChannel()). *)
RegistrationsAgree ==
    /\ \A c \in Chan :
          /\ HasChannel(c) <=> ch[c].index # "kNew"
          /\ ch[c].index = "kAdded" <=>
                ch[c].fd \in DOMAIN epoll /\ epoll[ch[c].fd] = [ptr |-> c, events |-> ch[c].events]
          /\ ch[c].index = "kDeleted" => ch[c].events = {}
          /\ life[c] = "gone" => ch[c].index = "kNew"
    /\ DOMAIN epoll \subseteq DOMAIN channels_
    /\ DOMAIN channels_ \subseteq OpenFds

(* The pointers in activeChannels_ are followed after other callbacks have run:
   each is still a channel that no callback has destroyed, is there once, and
   its events are those of its own descriptor; and no assertion of updateChannel(),
   Channel::remove() or ~Channel fails, and no epoll_ctl() is fatal.          *)
ActiveChannelsLive ==
    /\ ~aborted
    /\ \A i \in DOMAIN active : life[active[i].channel] \in {"up", "closing"}
    /\ \A i, j \in DOMAIN active : active[i].channel = active[j].channel => i = j

(* Data at a channel is read, however full the list of events is and whoever
   else is ready: it is not left behind in the kernel or in activeChannels_.  *)
DataIsRead ==
    \A c \in Chan :
        (life[c] = "up" /\ "read" \in ready[ch[c].fd])
          ~> (life[c] # "up" \/ "read" \notin ready[ch[c].fd])
=============================================================================
