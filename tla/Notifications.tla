---------------------------- MODULE Notifications ----------------------------
(***************************************************************************)
(* Notifications over websockets: a connection subscribes a channel, and   *)
(* has a handler that waits, a goroutine that writes what the channel      *)
(* gives and one that reads what the client says.  Publishers copy the     *)
(* channels under the lock and send without it.  (No command publishes     *)
(* yet, websocket_controller.go:211: the publishers are what the service   *)
(* offers.)                                                                *)
(***************************************************************************)
EXTENDS Naturals

CONSTANTS
    Clients, NoteKey,  \* connections, and the key of each
    Publications, To,  \* notifications, and the key each is for, Everybody for all
    Everybody,
    ChannelSize        \* how much a client may lag: 100 in the code

NotificationsAssumption ==
    /\ \A c \in Clients : NoteKey[c] # Everybody
    /\ DOMAIN To = Publications /\ ChannelSize \in Nat \ {0}

VARIABLES
    allSubs,                    \* the channels subscribed
    chan, closed,               \* each channel: how much is in it, whether it is closed
    conn,                       \* each connection: "open", "broken" by the client, or "closed"
    handler, writer, noteReader,  \* what each goroutine does next
    errCh, done,                \* the errors they have told the handler, and done is closed
    noteLeft, ppc,              \* each publication: the channels it has yet to serve, its step
    panicked                    \* a publisher has sent on a closed channel

channels == <<allSubs, chan, closed>>
goroutines == <<handler, writer, noteReader, errCh, done>>
publishers == <<noteLeft, ppc, panicked>>
noteVars == <<channels, conn, goroutines, publishers>>

NoteInit ==
    /\ allSubs = {} /\ chan = [c \in Clients |-> 0] /\ closed = [c \in Clients |-> FALSE]
    /\ conn = [c \in Clients |-> "open"]
    /\ handler = [c \in Clients |-> "idle"]
    /\ writer = [c \in Clients |-> "idle"] /\ noteReader = [c \in Clients |-> "idle"]
    /\ errCh = [c \in Clients |-> 0] /\ done = [c \in Clients |-> FALSE]
    /\ noteLeft = [p \in Publications |-> {}] /\ ppc = [p \in Publications |-> "idle"]
    /\ panicked = FALSE

------------------------------------------------------------------------------
\* wsConnect: Subscribe, and the goroutines.
Subscribe(c) == allSubs' = allSubs \cup {c}

wsConnect(c) ==
    /\ handler[c] = "idle"
    /\ Subscribe(c)
    /\ handler' = [handler EXCEPT ![c] = "wait"]
    /\ writer' = [writer EXCEPT ![c] = "wait"] /\ noteReader' = [noteReader EXCEPT ![c] = "wait"]
    /\ UNCHANGED <<chan, closed, conn, errCh, done, publishers>>

\* The client goes, or sends a close frame.
Disconnect(c) ==
    /\ conn[c] = "open" /\ handler[c] # "idle"
    /\ conn' = [conn EXCEPT ![c] = "broken"]
    /\ UNCHANGED <<channels, goroutines, publishers>>

\* errCh has room for one error of each goroutine.
MutantRoomForOne == 1
ErrRoom == 2

Tell(c) ==
    /\ errCh[c] < ErrRoom
    /\ errCh' = [errCh EXCEPT ![c] = @ + 1]

Read(c) ==
    /\ noteReader[c] = "wait" /\ conn[c] # "open"
    /\ Tell(c)
    /\ noteReader' = [noteReader EXCEPT ![c] = "ended"]
    /\ UNCHANGED <<channels, conn, handler, writer, done, publishers>>

\* The writer: a notification that cannot be written is the last.
WriteNotification(c) ==
    /\ writer[c] = "wait" /\ chan[c] > 0
    /\ chan' = [chan EXCEPT ![c] = @ - 1]
    /\ writer' = [writer EXCEPT ![c] = IF conn[c] = "open" THEN "wait" ELSE "error"]
    /\ UNCHANGED <<allSubs, closed, conn, handler, noteReader, errCh, done, publishers>>

WriterEnds(c) ==
    /\ writer' = [writer EXCEPT ![c] = "ended"]
    /\ done' = [done EXCEPT ![c] = TRUE]
    /\ UNCHANGED <<channels, conn, handler, noteReader, publishers>>

\* On an error; on the end of the channel or of the request.
WriteError(c) == writer[c] = "error" /\ Tell(c) /\ WriterEnds(c)
WriteDone(c) ==
    /\ writer[c] = "wait"
    /\ (closed[c] /\ chan[c] = 0) \/ handler[c] = "gone"
    /\ WriterEnds(c) /\ UNCHANGED errCh

\* The handler waits for the writer's end, an error, or a ping that fails.
NoteClose(c) ==
    /\ conn' = [conn EXCEPT ![c] = "closed"]
    /\ handler' = [handler EXCEPT ![c] = "unsubscribe"]
    /\ UNCHANGED <<channels, writer, noteReader, done, publishers>>

HearError(c) ==
    /\ handler[c] = "wait" /\ errCh[c] > 0
    /\ errCh' = [errCh EXCEPT ![c] = @ - 1]
    /\ NoteClose(c)

HearDone(c) == handler[c] = "wait" /\ done[c] /\ NoteClose(c) /\ UNCHANGED errCh
FailPing(c) == handler[c] = "wait" /\ conn[c] # "open" /\ NoteClose(c) /\ UNCHANGED errCh

\* unsubscribe, deferred; the request's context ends with the handler.
Unsubscribe(c) ==
    /\ handler[c] = "unsubscribe"
    /\ allSubs' = allSubs \ {c} /\ closed' = [closed EXCEPT ![c] = TRUE]
    /\ handler' = [handler EXCEPT ![c] = "gone"]
    /\ UNCHANGED <<chan, conn, writer, noteReader, errCh, done, publishers>>

Write(c) == WriteNotification(c) \/ WriteError(c) \/ WriteDone(c)
NoteWait(c) == HearError(c) \/ HearDone(c) \/ FailPing(c) \/ Unsubscribe(c)

------------------------------------------------------------------------------
\* Publish and PublishToAll: the channels are copied under the lock.
Subscribers(k) == {c \in allSubs : NoteKey[c] = k}

SendTo(p, subs) ==
    /\ ppc[p] = "idle"
    /\ noteLeft' = [noteLeft EXCEPT ![p] = subs]
    /\ ppc' = [ppc EXCEPT ![p] = "send"]
    /\ UNCHANGED <<channels, conn, goroutines, panicked>>

Publish(p) == To[p] # Everybody /\ SendTo(p, Subscribers(To[p]))
PublishToAll(p) == To[p] = Everybody /\ SendTo(p, allSubs)

\* A send to a full channel is skipped, one to a closed channel panics.
Send(p, c) ==
    /\ ppc[p] = "send" /\ c \in noteLeft[p]
    /\ noteLeft' = [noteLeft EXCEPT ![p] = IF closed[c] THEN {} ELSE @ \ {c}]
    /\ panicked' = (panicked \/ closed[c])
    /\ chan' = [chan EXCEPT ![c] = IF closed[c] \/ @ = ChannelSize THEN @ ELSE @ + 1]
    /\ UNCHANGED <<allSubs, closed, conn, goroutines, ppc>>

EndPublish(p) ==
    /\ ppc[p] = "send" /\ noteLeft[p] = {}
    /\ ppc' = [ppc EXCEPT ![p] = "done"]
    /\ UNCHANGED <<channels, conn, goroutines, noteLeft, panicked>>

Serve(p) == Publish(p) \/ PublishToAll(p) \/ (\E c \in noteLeft[p] : Send(p, c)) \/ EndPublish(p)

NoteNext ==
    \/ \E c \in Clients : wsConnect(c) \/ Disconnect(c) \/ Read(c) \/ Write(c) \/ NoteWait(c)
    \/ \E p \in Publications : Serve(p)

NoteSpec == NoteInit /\ [][NoteNext]_noteVars

\* Each goroutine runs; pings are sent every 30 seconds.
NoteFairness ==
    /\ \A c \in Clients : WF_noteVars(Read(c)) /\ WF_noteVars(Write(c)) /\ WF_noteVars(NoteWait(c))
    /\ \A p \in Publications : WF_noteVars(Serve(p))

NoteFairSpec == NoteSpec /\ NoteFairness

------------------------------------------------------------------------------
\* The state's types; a channel is subscribed while its handler waits, and only
\* closed when it is not.
NoteTypeOK ==
    /\ allSubs \subseteq Clients /\ chan \in [Clients -> 0..ChannelSize]
    /\ closed \in [Clients -> BOOLEAN] /\ conn \in [Clients -> {"open", "broken", "closed"}]
    /\ handler \in [Clients -> {"idle", "wait", "unsubscribe", "gone"}]
    /\ writer \in [Clients -> {"idle", "wait", "error", "ended"}]
    /\ noteReader \in [Clients -> {"idle", "wait", "ended"}]
    /\ errCh \in [Clients -> 0..2] /\ done \in [Clients -> BOOLEAN]
    /\ noteLeft \in [Publications -> SUBSET Clients] /\ panicked \in BOOLEAN
    /\ \A c \in Clients : closed[c] => c \notin allSubs

\* A connection that breaks leaves nothing behind: its handler unsubscribes and
\* returns and both goroutines end, whichever of them notices first, whoever
\* publishes meanwhile, and though nobody may be there to hear of an error.
Over(c) == handler[c] = "gone" /\ writer[c] = "ended" /\ noteReader[c] = "ended"
ConnectionsEnd == \A c \in Clients : (conn[c] # "open") ~> Over(c)

\* A send is never made on a closed channel.  The code does not keep this: a
\* handler may unsubscribe between the copy and the send.
NoPanic == ~panicked
==============================================================================
