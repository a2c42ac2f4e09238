------------------------------ MODULE Delivery ------------------------------
(***************************************************************************)
(* The way of an answer from a turn to its client: the stream closures and *)
(* the final message of a turn (agent/response.py), the outbound queue     *)
(* (bus/queue.py), the dispatcher with its merging of deltas, suppression  *)
(* of repeated replies and retries (channels/manager.py), and send_delta   *)
(* and send of the WebSocket channel and the streaming cards of Feishu     *)
(* (channels/websocket/channel.py, channels/feishu/channel.py).            *)
(*                                                                         *)
(* The text of a turn is a sequence of pieces; a piece names the stream    *)
(* segment the turn produced it in.  A turn is one session's at a time;    *)
(* two topics of a group chat are sessions of their own in one chat.  A    *)
(* WebSocket chat has any number of connections, which are sent to one by  *)
(* one; the readers of a Feishu chat all see what the chat shows.          *)
(***************************************************************************)
EXTENDS Naturals, SequencesExt

CONSTANTS
    Turns,         \* turns of the agent
    Streaming,     \* those whose channel asked for a stream
    ChatOf,        \* the chat a turn answers in
    OriginOf,      \* the turn a sub-agent's follow-up goes back to, or NoTurn
    CardChats,     \* chats of Feishu; the others are WebSocket chats
    Clients,       \* connections of WebSocket chats, readers of Feishu chats
    On,            \* the chat of each
    Texts,         \* what an unstreamed reply may say
    QueueMax,      \* maxsize of the outbound queue
    MaxAttempts,   \* send_max_retries
    Environments,  \* bounds: turns, their segments, pieces of a segment, failing
                   \* sends, stops and comings and goings
    NoTurn

Chats == {ChatOf[t] : t \in Turns}

ASSUME DeliveryAssumption ==
    /\ Streaming \subseteq Turns /\ NoTurn \notin Turns
    /\ OriginOf \in [Turns -> Turns \cup {NoTurn}]
    /\ On \in [Clients -> Chats] /\ \A c \in CardChats : \E k \in Clients : On[k] = c
    /\ {QueueMax, MaxAttempts} \subseteq Nat \ {0}
    /\ Environments \subseteq [turns : SUBSET Turns, segments : Nat \ {0}, pieces : Nat \ {0},
                             fails : Nat, moves : Nat]

VARIABLES
    left,       \* what the environment may still do
    turn,       \* where each turn is
    queue,      \* the outbound queue
    held,       \* `pending` of the dispatcher: what ended a merge
    cur,        \* the message it is sending
    todo,       \* `conns` of the attempt: the connections not sent to yet
    tries,      \* failed attempts at it
    running,    \* the dispatcher's task is alive
    subs,       \* _subs: the clients that are connected
    log,        \* per chat: the transcript kept for the web interface
    card,       \* per turn: the text gathered for its Feishu card
    prints,     \* _origin_reply_fingerprints
    \* What the properties remember:
    wire,       \* per client: what it was shown, in order
    refused,    \* messages given up, or sent to nobody or to a closed connection
    muted,      \* replies that were suppressed
    failed      \* messages a send of which raised

vars == <<left, turn, queue, held, cur, todo, tries, running, subs, log, card, prints, wire, refused, muted, failed>>
history == <<wire, refused, muted, failed>>

Stream(t, g) == <<t, g>>
NoMsg == [kind |-> "none"]   \* nothing in hand, nothing said

\* Outbound messages.  A delta carries the stream id of the segment at work.
Delta(t, g, k) ==
    [kind |-> "delta", turn |-> t, id |-> Stream(t, g), text |-> <<[of |-> Stream(t, g), nr |-> k]>>, says |-> NoMsg]
End(t, g) == [kind |-> "end", turn |-> t, id |-> Stream(t, g), text |-> <<>>, says |-> NoMsg]
Final(t, flag, says) == [kind |-> flag, turn |-> t, id |-> Stream(t, 0), text |-> <<>>, says |-> says]

\* The pieces a turn has made of the segment it is at.
Made(t) == turn[t].made[turn[t].seg]

Init ==
    /\ left \in Environments
    /\ turn = [t \in Turns |-> [at |-> "work", seg |-> 1, seen |-> TRUE,
                               made |-> [g \in 1 .. left.segments |-> 0]]]
    /\ queue = <<>> /\ held = <<>> /\ cur = NoMsg /\ todo = {} /\ tries = 0
    /\ running = TRUE
    /\ subs = Clients
    /\ log = [c \in Chats |-> <<>>]
    /\ card = [t \in Turns |-> [text |-> <<>>, shown |-> <<>>]]
    /\ prints = <<>>
    /\ wire = [k \in Clients |-> <<>>] /\ refused = {} /\ muted = {} /\ failed = {}

-----------------------------------------------------------------------------
(***************************************************************************)
(* The turns.                                                              *)
(***************************************************************************)
\* A follow-up has its session's lock only when the turn it follows is done.
MayWork(t) ==
    /\ t \in left.turns
    /\ OriginOf[t] \in Turns => turn[OriginOf[t]].at = "done"

\* publish_outbound waits for room.
Publish(m) == Len(queue) < QueueMax /\ queue' = Append(queue, m)

OnlyPublishes == UNCHANGED <<left, held, cur, todo, tries, running, subs, log, card, prints, history>>

\* The model's text arrives: on_stream.
Streams(t) ==
    /\ MayWork(t) /\ t \in Streaming
    /\ turn[t].at = "work" /\ Made(t) < left.pieces
    /\ Publish(Delta(t, turn[t].seg, Made(t) + 1))
    /\ turn' = [turn EXCEPT ![t].made[turn[t].seg] = @ + 1]
    /\ OnlyPublishes

\* The model called tools, was cut off or is to go on: on_stream_end(resuming).
Resumes(t) ==
    /\ MayWork(t) /\ t \in Streaming
    /\ turn[t].at = "work" /\ turn[t].seg < left.segments
    /\ Publish(End(t, turn[t].seg))
    /\ turn' = [turn EXCEPT ![t].seg = @ + 1]
    /\ OnlyPublishes

\* The stream of the answer ends.  The answer is what was streamed, or text
\* made up after the stream: of a spent budget, an empty answer, a failed
\* plan, or asked for without streaming (_retry_finalization).
EndsStream(t) ==
    /\ MayWork(t) /\ t \in Streaming
    /\ turn[t].at = "work"
    /\ \E seen \in BOOLEAN :
          /\ seen => Made(t) > 0
          /\ turn' = [turn EXCEPT ![t].at = "answer", ![t].seen = seen]
    /\ Publish(End(t, turn[t].seg))
    /\ OnlyPublishes

\* The turn's budget is spent after its tools: no stream was opened again.
GivesUp(t) ==
    /\ MayWork(t) /\ t \in Streaming
    /\ turn[t].at = "work" /\ turn[t].seg > 1 /\ Made(t) = 0
    /\ turn' = [turn EXCEPT ![t].at = "answer", ![t].seen = FALSE]
    /\ UNCHANGED queue /\ OnlyPublishes

\* The final message: flagged as streamed, unless the turn ended in an error;
\* none if the turn has sent its answer with the message tool.
Answers(t) ==
    /\ MayWork(t) /\ turn[t].at = "answer"
    /\ \/ Publish(Final(t, "streamed", NoMsg))
       \/ ~turn[t].seen /\ \E says \in Texts : Publish(Final(t, "final", says))
       \/ UNCHANGED queue
    /\ turn' = [turn EXCEPT ![t].at = "done"]
    /\ OnlyPublishes

\* A turn whose channel wants no stream has one reply; none after the message
\* tool, unless it is a sub-agent's follow-up.
Replies(t) ==
    /\ MayWork(t) /\ t \notin Streaming /\ turn[t].at = "work"
    /\ \/ \E says \in Texts : Publish(Final(t, "final", says))
       \/ OriginOf[t] = NoTurn /\ UNCHANGED queue
    /\ turn' = [turn EXCEPT ![t].at = "done"]
    /\ OnlyPublishes

\* /stop: no end of the stream and no final message.
Stopped(t) ==
    /\ MayWork(t) /\ turn[t].at \in {"work", "answer"} /\ left.moves > 0
    /\ left' = [left EXCEPT !.moves = @ - 1]
    /\ turn' = [turn EXCEPT ![t].at = "done"]
    /\ UNCHANGED <<queue, held, cur, todo, tries, running, subs, log, card, prints, history>>

-----------------------------------------------------------------------------
(***************************************************************************)
(* The dispatcher.                                                         *)
(***************************************************************************)
\* Mutant: what ended a merge waits behind the queue.
WaitingBehind == queue \o held

\* What the dispatcher takes from: the message held back goes first.
Waiting == held \o queue

\* How many messages from the head of q merge with m: deltas for its chat.
Merges(m, x) == x.kind = "delta" /\ ChatOf[x.turn] = ChatOf[m.turn]
Run(m, q) == Min({n \in 0 .. Len(q) : n = Len(q) \/ ~Merges(m, q[n + 1])})

\* The text of the run; a delta on the queue has one piece.
Joined(m, q) == m.text \o [i \in 1 .. Run(m, q) |-> Head(q[i].text)]

\* Mutant: what ended a merge is dropped.
MergeAndDrop(m, q) ==
    LET n == Run(m, q)
    IN  /\ cur' = [m EXCEPT !.text = Joined(m, q)]
        /\ held' = <<>>
        /\ queue' = SubSeq(q, n + 2, Len(q))

\* _coalesce_stream_deltas: the text of the run goes under the first's stream
\* id; the message that ended it is held back.
Merge(m, q) ==
    LET n == Run(m, q)
    IN  /\ cur' = [m EXCEPT !.text = Joined(m, q)]
        /\ held' = SubSeq(q, n + 1, IF n < Len(q) THEN n + 1 ELSE n)
        /\ queue' = SubSeq(q, n + 2, Len(q))

\* The key a reply is remembered under: the message it or its origin answers.
Key(t) == <<ChatOf[t], IF OriginOf[t] = NoTurn THEN t ELSE OriginOf[t]>>

\* Mutant: replies are compared with all of their chat.
RepeatsAny(m) == OriginOf[m.turn] # NoTurn /\ \E k \in DOMAIN prints : k[1] = ChatOf[m.turn] /\ prints[k] = m.says

\* A follow-up that says what was last said for its origin is a repetition.
Repeats(m) == OriginOf[m.turn] # NoTurn /\ Key(m.turn) \in DOMAIN prints /\ prints[Key(m.turn)] = m.says

\* What is remembered once a reply is: one fingerprint for each key.
Remembers(m) ==
    [k \in DOMAIN prints \cup {Key(m.turn)} |-> IF k = Key(m.turn) THEN m.says ELSE prints[k]]

\* The next message: deltas are merged, a final message is compared with what was said and remembered before it is sent.
Take ==
    /\ running /\ cur = NoMsg /\ Waiting # <<>>
    /\ LET m == Head(Waiting)
           q == Tail(Waiting)
       IN  /\ IF m.kind = "delta" THEN Merge(m, q)
              ELSE /\ cur' = IF m.kind = "final" /\ Repeats(m) THEN NoMsg ELSE m
                   /\ held' = <<>> /\ queue' = q
           /\ muted' = IF m.kind = "final" /\ Repeats(m) THEN muted \cup {m} ELSE muted
           /\ prints' = IF m.kind = "final" THEN Remembers(m) ELSE prints
    /\ tries' = 0
    /\ UNCHANGED <<left, turn, todo, running, subs, log, card, wire, refused, failed>>

Sending == running /\ cur # NoMsg

To == ChatOf[cur.turn]

Readers(c) == {k \in Clients : On[k] = c}

\* What a client gets to see of the message, under the stream id it carries.
Frames(m) ==
    IF m.kind = "delta" THEN [i \in 1 .. Len(m.text) |-> [kind |-> "delta", id |-> m.id, piece |-> m.text[i]]]
    ELSE <<[kind |-> m.kind, id |-> m.id, piece |-> m.says]>>

\* _send_once passes a message flagged as streamed to nobody.
SkipStreamed ==
    /\ Sending /\ cur.kind = "streamed"
    /\ cur' = NoMsg
    /\ UNCHANGED <<left, turn, queue, held, todo, tries, running, subs, log, card, prints, history>>

\* Mutant: a message is tried for as long as it fails.
FailsAgain ==
    /\ tries' = (tries + 1) % MaxAttempts
    /\ failed' = failed \cup {cur} /\ todo' = {}
    /\ UNCHANGED <<left, cur, refused>>

\* The send raises.  The dispatcher sleeps and sends the whole message again, or gives it up.
Fails ==
    /\ left.fails > 0 /\ left' = [left EXCEPT !.fails = @ - 1]
    /\ failed' = failed \cup {cur}
    /\ todo' = {} /\ tries' = tries + 1
    /\ IF tries + 1 = MaxAttempts
       THEN cur' = NoMsg /\ refused' = refused \cup {cur}
       ELSE UNCHANGED <<cur, refused>>

\* An attempt of the WebSocket channel begins with the transcript and a copy
\* of the chat's connections; without any it is over.
Begins ==
    /\ Sending /\ cur.kind # "streamed" /\ To \notin CardChats /\ todo = {}
    /\ LET conns == subs \cap Readers(To)
       IN  IF conns = {}
           THEN cur' = NoMsg /\ refused' = refused \cup {cur} /\ UNCHANGED <<todo, log>>
           ELSE /\ todo' = conns /\ log' = [log EXCEPT ![To] = @ \o Frames(cur)]
                /\ UNCHANGED <<cur, refused>>
    /\ UNCHANGED <<left, turn, queue, held, tries, running, subs, card, prints, wire, muted, failed>>

\* The loop goes on to the next connection; after the last the message is sent.
GoesOn(k) == todo' = todo \ {k} /\ cur' = IF todo = {k} THEN NoMsg ELSE cur

SendsTo(k) ==
    /\ Sending /\ k \in todo \cap subs
    /\ wire' = [wire EXCEPT ![k] = @ \o Frames(cur)]
    /\ GoesOn(k)
    /\ UNCHANGED <<left, turn, queue, held, tries, running, subs, log, card, prints, refused, muted, failed>>

\* The connection is closed, or turns out to be: _safe_send_to takes it for sent.
Gone(k) ==
    /\ Sending /\ k \in todo
    /\ \/ k \notin subs /\ UNCHANGED left
       \/ k \in subs /\ left.moves > 0 /\ left' = [left EXCEPT !.moves = @ - 1]
    /\ subs' = subs \ {k}
    /\ refused' = refused \cup {cur}
    /\ GoesOn(k)
    /\ UNCHANGED <<turn, queue, held, tries, running, log, card, prints, wire, muted, failed>>

\* Any other exception of a connection ends the attempt: those before it have the message, those after it not.
Raises(k) ==
    /\ Sending /\ k \in todo
    /\ Fails
    /\ UNCHANGED <<turn, queue, held, running, subs, log, card, prints, wire, muted>>

\* What all the readers of a Feishu chat see.
InChat == wire' = [k \in Clients |-> IF k \in Readers(To) THEN wire[k] \o Frames(cur) ELSE wire[k]]

\* Feishu gathers the text by the message that is answered, whatever the
\* stream: the first text creates the card, later text redraws it at most
\* twice a second.  A call that fails leaves no card, and the next text creates
\* one.  The dispatcher does not pass stream_end, so the end of a stream is an
\* empty delta.
SentToCard ==
    /\ Sending /\ cur.kind \in {"delta", "end"} /\ To \in CardChats
    /\ LET old == card[cur.turn].shown
           text == card[cur.turn].text \o cur.text
       IN  \E shown \in {text, old, <<>>} :
             /\ card' = [card EXCEPT ![cur.turn] = [text |-> text, shown |-> shown]]
             /\ \/ (shown = text \/ (shown = old /\ old # <<>>)) /\ UNCHANGED left
                \/ shown = <<>> /\ left.fails > 0 /\ left' = [left EXCEPT !.fails = @ - 1]
    /\ InChat
    /\ cur' = NoMsg
    /\ UNCHANGED <<turn, queue, held, todo, tries, running, subs, log, prints, refused, muted, failed>>

\* A message that was not streamed is a Feishu message of its own.
SentToFeishu ==
    /\ Sending /\ cur.kind = "final" /\ To \in CardChats
    /\ InChat
    /\ cur' = NoMsg
    /\ UNCHANGED <<left, turn, queue, held, todo, tries, running, subs, log, card, prints, refused, muted, failed>>

\* It is sent in parts: media, then the text by chunks.  One that is not
\* delivered raises, when the chat has the parts before it.
FeishuRaises ==
    /\ Sending /\ cur.kind = "final" /\ To \in CardChats
    /\ Fails
    /\ InChat \/ UNCHANGED wire
    /\ UNCHANGED <<turn, queue, held, running, subs, log, card, prints, muted>>

\* A cancellation ends the dispatcher: the shutdown's, or one that a channel
\* lets out of its send.
Ends ==
    /\ running /\ left.moves > 0 /\ left' = [left EXCEPT !.moves = @ - 1]
    /\ running' = FALSE
    /\ UNCHANGED <<turn, queue, held, cur, todo, tries, subs, log, card, prints, history>>

\* A connection closes, or the client connects anew (_cleanup_connection,
\* _attach).  The attempt at work has the old connection, and if it has still
\* to find it closed it may as well do so before the new one comes.
Moves(k) ==
    /\ On[k] \notin CardChats
    /\ k \in subs \/ k \notin todo
    /\ left.moves > 0 /\ left' = [left EXCEPT !.moves = @ - 1]
    /\ subs' = IF k \in subs THEN subs \ {k} ELSE subs \cup {k}
    /\ UNCHANGED <<turn, queue, held, cur, todo, tries, running, log, card, prints, history>>

-----------------------------------------------------------------------------
TurnStep(t) == Streams(t) \/ Resumes(t) \/ EndsStream(t) \/ GivesUp(t) \/ Answers(t) \/ Replies(t) \/ Stopped(t)

ClientStep(k) == SendsTo(k) \/ Gone(k) \/ Raises(k)

DispatcherStep ==
    \/ Take \/ SkipStreamed
    \/ Begins \/ \E k \in Clients : ClientStep(k)
    \/ SentToCard \/ SentToFeishu \/ FeishuRaises

Next ==
    \/ \E t \in Turns : TurnStep(t)
    \/ DispatcherStep \/ Ends
    \/ \E k \in Clients : Moves(k)

Spec == Init /\ [][Next]_vars

\* The dispatcher goes on as long as it lives; a channel's send returns.  A
\* turn goes on when the queue has room for what it publishes.
Fairness ==
    /\ WF_vars(DispatcherStep)
    /\ \A t \in Turns : SF_vars(TurnStep(t))

FairSpec == Spec /\ Fairness

-----------------------------------------------------------------------------
Frame == [kind : {"delta", "end", "final"}, id : Turns \X (0 .. left.segments),
          piece : [of : Turns \X (1 .. left.segments), nr : 1 .. left.pieces] \cup Texts \cup {NoMsg}]
Message(m) ==
    /\ m.kind \in {"delta", "end", "final", "streamed"} /\ m.turn \in Turns
    /\ m.kind = "delta" <=> m.text # <<>>

\* The type of the state: the queue and what is held back within their sizes,
\* connections are sent to for the message at work.
TypeOK ==
    /\ \A t \in Turns : /\ turn[t].at \in {"work", "answer", "done"}
                        /\ turn[t].seg \in 1 .. left.segments /\ Made(t) <= left.pieces
    /\ Len(queue) <= QueueMax /\ Len(held) <= 1
    /\ \A m \in ToSet(queue \o held) \cup refused \cup muted \cup failed : Message(m)
    /\ cur = NoMsg \/ Message(cur)
    /\ subs \subseteq Clients /\ todo \subseteq Clients
    /\ \A k \in todo : cur # NoMsg /\ On[k] = To
    /\ tries <= MaxAttempts /\ (cur # NoMsg => tries < MaxAttempts)
    /\ running \in BOOLEAN
    /\ \A c \in Chats : ToSet(log[c]) \subseteq Frame
    /\ \A k \in Clients : ToSet(wire[k]) \subseteq Frame

\* What a turn's pieces have in common with its ends, in the order they are made.
Earlier(p, q) == p.of[2] < q.of[2] \/ (p.of[2] = q.of[2] /\ p.nr < q.nr)
Place(f) == IF f.kind = "delta" THEN f.piece ELSE [of |-> f.id, nr |-> left.pieces + 1]
TurnOf(f) == Place(f).of[1]

\* The frames of one turn may be shown in the order f, g.
Follows(f, g) ==
    \/ f.kind # "final" /\ Earlier(Place(f), Place(g))
    \/ g.kind = "final" /\ f.kind # "final"

\* Of one message that was sent again because a send of it raised.
SentAgain(f, g) == \E m \in failed : {f, g} \subseteq ToSet(Frames(m))

\* A client sees the text of a turn in the order the turn produced it, each
\* piece once, each segment's end after its text and no text after the final
\* message, however messages are merged and held back; only a message whose
\* send raised may be repeated, as a whole and before anything after it
\* (_dispatch_outbound, _coalesce_stream_deltas, _send_with_retry).
InOrder ==
    \A k \in Clients : \A i, j \in 1 .. Len(wire[k]) :
        i < j /\ TurnOf(wire[k][i]) = TurnOf(wire[k][j]) =>
            Follows(wire[k][i], wire[k][j]) \/ SentAgain(wire[k][i], wire[k][j])

InMessages(M) == UNION {ToSet(m.text) : m \in M \ {NoMsg}}
FramesIn(c) == UNION {ToSet(wire[k]) : k \in Readers(c)}
Shown(c) == {f.piece : f \in {g \in FramesIn(c) : g.kind = "delta"}}

\* Pieces that may be shown to some and be sent to others: an attempt at them
\* is under way, or one has failed.
Repeatable == IF todo # {} \/ cur \in failed THEN InMessages({cur}) ELSE {}

\* Every piece a turn has published is on the queue, held back, being sent,
\* or done with: shown to a client of the chat, or given up for one that was
\* gone or for a send that raised MaxAttempts times.  It is in one of these
\* places only, and what is done with is sent again only while an attempt goes
\* on or after one that raised (_dispatch_outbound's `pending`).
Placed ==
    \A t \in left.turns \cap Streaming, g \in 1 .. left.segments, k \in 1 .. left.pieces :
        LET places == <<InMessages(ToSet(queue)), InMessages(ToSet(held)), InMessages({cur}),
                        (Shown(ChatOf[t]) \cup InMessages(refused)) \ Repeatable>>
            here == {i \in 1 .. 4 : [of |-> Stream(t, g), nr |-> k] \in places[i]}
        IN  Cardinality(here) = IF k <= turn[t].made[g] THEN 1 ELSE 0

\* Only a repetition is suppressed: the turn the follow-up goes back to, or
\* an earlier follow-up of it, has said the same, and a client was shown it
\* unless its sending failed (_should_suppress_outbound).
OnlyRepeatsMuted ==
    \A m \in muted :
        \E f \in FramesIn(ChatOf[m.turn]) \cup {Frames(r)[1] : r \in refused} :
            f.kind = "final" /\ f.piece = m.says /\ Key(f.id[1]) = Key(m.turn)

\* The transcript has all a client was shown: one that reloads misses nothing
\* of it (WebSocketChannel.send, send_delta).
LogHasAll == \A k \in Clients : On[k] \notin CardChats => ToSet(wire[k]) \subseteq ToSet(log[On[k]])

\* The types, and that nothing is kept from a client but a repetition, nor from
\* the transcript it reloads (ChannelManager._dispatch_outbound, WebSocketChannel).
DeliveryConsistent == TypeOK /\ OnlyRepeatsMuted /\ LogHasAll

\* While the dispatcher lives, every turn gets rid of all it has to say and
\* what is published is dealt with, though the queue is full, sends fail and
\* clients go (publish_outbound, _send_with_retry).
AllHandled ==
    <>(~running \/ (queue \o held = <<>> /\ cur = NoMsg /\ \A t \in left.turns : turn[t].at = "done"))

\* A card shows all of the answer in the end (docs/channel-plugin-guide.md:285).
CardFinished ==
    \A t \in Streaming : (t \in left.turns /\ turn[t].at = "answer")
                            ~> card[t].shown = card[t].text \/ ~running
=============================================================================
