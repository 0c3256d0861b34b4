------------------------ MODULE WebSocketExampleProofs ------------------------
(***************************************************************************)
(* Proofs about the safety of WebSocketExample, for every set of clients,     *)
(* every set of command lines and every number of lost connections.          *)
(***************************************************************************)
EXTENDS WebSocketExample, SequenceTheorems, TLAPS

\* Whether a frame carries the message of client c, or the answer to it.
Own(c, f) == f.session = c /\ f.body # "blank"

Holds(s, c) == \E n \in 1..Len(s) : Own(c, s[n])

Once(s, c) == \A m, n \in 1..Len(s) : Own(c, s[m]) /\ Own(c, s[n]) => m = n

\* A frame appended to a sequence.
LEMMA AppendFrame ==
  ASSUME NEW s \in Seq(Frames), NEW f \in Frames, NEW c
  PROVE  /\ Append(s, f) \in Seq(Frames) /\ Append(s, f) # <<>>
         /\ Holds(Append(s, f), c) <=> Holds(s, c) \/ Own(c, f)
         /\ Once(s, c) /\ ~(Holds(s, c) /\ Own(c, f)) => Once(Append(s, f), c)
<1>1. /\ Append(s, f) \in Seq(Frames) /\ Len(s) \in Nat
      /\ Len(Append(s, f)) = Len(s) + 1
      /\ \A i \in 1..Len(s) : Append(s, f)[i] = s[i]
      /\ Append(s, f)[Len(s) + 1] = f
  BY AppendProperties, LenProperties
<1>2. Append(s, f) # <<>>
  BY <1>1
<1>3. Holds(Append(s, f), c) <=> Holds(s, c) \/ Own(c, f)
  <2> HIDE DEF Own
  <2> QED
  BY <1>1 DEF Holds
<1>4. ASSUME Once(s, c), ~(Holds(s, c) /\ Own(c, f))
      PROVE  Once(Append(s, f), c)
  BY <1>1, <1>4 DEF Holds, Once
<1> QED
  BY <1>1, <1>2, <1>3, <1>4

\* A frame taken from the front of a sequence.
LEMMA TakeFrame ==
  ASSUME NEW s \in Seq(Frames), s # <<>>, NEW c
  PROVE  /\ Head(s) \in Frames /\ Tail(s) \in Seq(Frames)
         /\ Own(c, Head(s)) => Holds(s, c)
         /\ Holds(Tail(s), c) => Holds(s, c)
         /\ Once(s, c) => Once(Tail(s), c)
         /\ Once(s, c) /\ Own(c, Head(s)) => ~Holds(Tail(s), c)
<1>1. /\ Head(s) \in Frames /\ Tail(s) \in Seq(Frames) /\ Len(s) \in Nat \ {0}
      /\ Head(s) = s[1] /\ Len(Tail(s)) = Len(s) - 1
      /\ \A i \in 1..Len(Tail(s)) : Tail(s)[i] = s[i + 1]
  BY HeadTailProperties, LenProperties, EmptySeq
<1>2. Own(c, Head(s)) => Holds(s, c)
  BY <1>1 DEF Holds
<1>3. Holds(Tail(s), c) => Holds(s, c)
  BY <1>1 DEF Holds
<1>4. Once(s, c) => Once(Tail(s), c)
  <2> SUFFICES ASSUME Once(s, c), NEW m \in 1..Len(Tail(s)), NEW n \in 1..Len(Tail(s)),
                      Own(c, Tail(s)[m]), Own(c, Tail(s)[n])
               PROVE  m = n
    BY DEF Once
  <2>1. m + 1 \in 1..Len(s) /\ n + 1 \in 1..Len(s) /\ Own(c, s[m + 1]) /\ Own(c, s[n + 1])
    BY <1>1
  <2>2. m + 1 = n + 1
    BY <2>1 DEF Once
  <2> QED
    BY <1>1, <2>2
<1>5. Once(s, c) /\ Own(c, Head(s)) => ~Holds(Tail(s), c)
  <2> SUFFICES ASSUME Once(s, c), Own(c, s[1]), NEW n \in 1..Len(Tail(s)),
                      Own(c, Tail(s)[n])
               PROVE  FALSE
    BY <1>1 DEF Holds
  <2>1. n + 1 \in 1..Len(s) /\ Own(c, s[n + 1]) /\ 1 \in 1..Len(s)
    BY <1>1
  <2>2. n + 1 = 1
    BY <2>1 DEF Once
  <2> QED
    BY <1>1, <2>2
<1> QED
  BY <1>1, <1>2, <1>3, <1>4, <1>5

\* Nothing is held by an empty sequence.
LEMMA NoFrame == ASSUME NEW c PROVE ~Holds(<<>>, c) /\ Once(<<>>, c)
BY DEF Holds, Once

-----------------------------------------------------------------------------
(* The message of a client, from the queue to the inbox *)

\* q, u and d are what the gateway holds for the shared connection and what is
\* in it, b is the client's inbox: between them they have c's message or the
\* answer to it at most once.
Unique(q, u, d, b, c) ==
  /\ Once(q, c) /\ Once(u, c) /\ Once(d, c)
  /\ ~(Holds(q, c) /\ Holds(u, c))
  /\ ~(Holds(q, c) /\ Holds(d, c))
  /\ ~(Holds(u, c) /\ Holds(d, c))
  /\ b # <<>> => ~Holds(q, c) /\ ~Holds(u, c) /\ ~Holds(d, c)

Absent(q, u, d, b, c) ==
  ~Holds(q, c) /\ ~Holds(u, c) /\ ~Holds(d, c) /\ b = <<>>

\* What holds of a client's message in transit: it is there at most once, and
\* not at all before it is written.
Transit(q, u, d, b, c, point) ==
  /\ Unique(q, u, d, b, c)
  /\ point \in {"start", "dialed"} => Absent(q, u, d, b, c)

\* A frame that is not c's own does not change c's.
LEMMA TransitEvent ==
  ASSUME NEW q \in Seq(Frames), NEW u, NEW d, NEW b, NEW c, NEW p, NEW f \in Frames,
         ~Own(c, f), Transit(q, u, d, b, c, p)
  PROVE  Transit(Append(q, f), u, d, b, c, p)
BY AppendFrame DEF Transit, Unique, Absent

\* A client goes, and nothing is left in its inbox.
LEMMA TransitGone ==
  ASSUME NEW q \in Seq(Frames), NEW u, NEW d, NEW b, NEW c, NEW p,
         NEW r \in {"ok", "failed", "usage"}, Transit(q, u, d, b, c, p)
  PROVE  Transit(q, u, d, <<>>, c, r)
BY DEF Transit, Unique, Absent

\* The message is written.
LEMMA TransitWrite ==
  ASSUME NEW q \in Seq(Frames), NEW u, NEW d, NEW b, NEW c, NEW f \in Frames,
         Transit(q, u, d, b, c, "dialed")
  PROVE  Transit(Append(q, f), u, d, b, c, "written")
BY AppendFrame DEF Transit, Unique, Absent

\* The gateway forwards the envelope at the front of its queue.
LEMMA TransitForward ==
  ASSUME NEW q \in Seq(Frames), q # <<>>, NEW u \in Seq(Frames), NEW d, NEW b,
         NEW c, NEW p, Transit(q, u, d, b, c, p)
  PROVE  Transit(Tail(q), Append(u, Head(q)), d, b, c, p)
BY TakeFrame, AppendFrame DEF Transit, Unique, Absent

\* The backend takes an envelope and answers it, or not; the answer is c's own
\* only if the envelope is.
LEMMA TransitServe ==
  ASSUME NEW q, NEW u \in Seq(Frames), u # <<>>, NEW d \in Seq(Frames), NEW b,
         NEW c, NEW p, NEW f \in Frames, Own(c, f) => Own(c, Head(u)),
         Transit(q, u, d, b, c, p)
  PROVE  /\ Transit(q, Tail(u), Append(d, f), b, c, p)
         /\ Transit(q, Tail(u), d, b, c, p)
BY TakeFrame, AppendFrame DEF Transit, Unique, Absent

\* The gateway takes an answer and hands it to c, if it is c's own, or not.
LEMMA TransitDeliver ==
  ASSUME NEW q, NEW u, NEW d \in Seq(Frames), d # <<>>, NEW b, NEW c, NEW p,
         NEW f \in Frames, Transit(q, u, d, b, c, p)
  PROVE  /\ Transit(q, u, Tail(d), b, c, p)
         /\ Own(c, Head(d)) =>
              b = <<>> /\ p \notin {"start", "dialed"}
                /\ Transit(q, u, Tail(d), <<f>>, c, p)
BY TakeFrame DEF Transit, Unique, Absent

\* The shared connection is lost or begins anew: c's message is not in it.
LEMMA TransitLost ==
  ASSUME NEW q, NEW u, NEW d, NEW b, NEW c, NEW p, NEW v, NEW e,
         ~Holds(v, c), Once(v, c), ~Holds(e, c), Once(e, c), Transit(q, u, d, b, c, p)
  PROVE  Transit(q, v, e, b, c, p)
BY DEF Transit, Unique, Absent

-----------------------------------------------------------------------------
(* The inductive invariant *)

Chatting == {c \in Clients : Chats(c)}

Reply(c) == Frame(c, plan[c].body, TRUE)

\* The frames of the shared connection once hands are shaken.
Envelopes == {Event(c) : c \in Chatting} \cup {Message(c) : c \in Chatting}

Replies == {Reply(c) : c \in {d \in Chatting : plan[d].body # "blank"}}

\* The two ends of the shared connection agree on how far it is.
HubInv ==
  /\ gw["shared"] \in {"none", "closed"} =>
       /\ handler["shared"] \in {"none", "ended"}
       /\ up["shared"] = <<>> /\ down["shared"] = <<>>
  /\ gw["shared"] = "shaking" =>
       \/ /\ handler["shared"] = "handshake"
          /\ up["shared"] = <<Handshake>> /\ down["shared"] = <<>>
       \/ /\ handler["shared"] = "serving"
          /\ up["shared"] = <<>> /\ down["shared"] = <<OK>>
  /\ gw["shared"] = "ready" =>
       /\ handler["shared"] = "serving"
       /\ up["shared"] \in Seq(Envelopes) /\ down["shared"] \in Seq(Replies)

\* A chat client has no connection of its own, and its message is in transit.
ChatInv(c) ==
  /\ gw[c] = "none" /\ handler[c] = "none" /\ up[c] = <<>> /\ down[c] = <<>>
  /\ inbox[c] \in {<<>>, <<Reply(c)>>}
  /\ Transit(queue, up["shared"], down["shared"], inbox[c], c, client[c])

\* The message of another client is in one place, on its way to the backend or
\* back.
DirectInv(c) ==
  /\ gw[c] # "shaking" /\ (gw[c] # "ready" => up[c] = <<>> /\ down[c] = <<>>)
  /\ up[c] \in {<<>>, <<Message(c)>>} /\ down[c] \in {<<>>, <<Message(c)>>}
  /\ inbox[c] \in {<<>>, <<Message(c)>>}
  /\ up[c] # <<>> => down[c] = <<>> /\ inbox[c] = <<>>
  /\ down[c] # <<>> => inbox[c] = <<>>
  /\ client[c] \in {"start", "dialed"} =>
       up[c] = <<>> /\ down[c] = <<>> /\ inbox[c] = <<>>

ClientInv ==
  \A c \in Clients : (Chats(c) => ChatInv(c)) /\ (~Chats(c) => DirectInv(c))

IndInv == TypeOK /\ queue \in Seq(Envelopes) /\ HubInv /\ ClientInv /\ OwnReply

\* The fields of a frame.
LEMMA FrameFields ==
  ASSUME NEW c, NEW b, NEW e
  PROVE  /\ Frame(c, b, e).session = c /\ Frame(c, b, e).body = b
         /\ c \in Clients \cup {"gateway", "backend", "nobody"}
              /\ b \in {"text", "blank", "starting", "OK"} /\ e \in BOOLEAN
              => Frame(c, b, e) \in Frames
BY DEF Frame, Frames

\* The frames of a client, and those the gateway and the backend begin with.
LEMMA FrameTypes ==
  ASSUME plan \in [Clients -> Plans]
  PROVE  /\ Handshake \in Frames /\ OK \in Frames /\ None \in Frames
         /\ \A c \in Clients :
              /\ plan[c].body \in {"text", "blank"}
              /\ Event(c) \in Frames /\ Message(c) \in Frames /\ Reply(c) \in Frames
<1>1. TRUE \in BOOLEAN /\ FALSE \in BOOLEAN
  BY Zenon
<1>2. \A c \in Clients : plan[c].body \in {"text", "blank"}
  BY WebSocketAssumption
<1> QED
  BY <1>1, <1>2, FrameFields DEF Handshake, OK, None, Event, Message, Reply

\* What a frame of the shared connection is.
LEMMA EnvelopeKinds ==
  ASSUME plan \in [Clients -> Plans], NEW f \in Envelopes
  PROVE  /\ f \in Frames /\ f.session \in Chatting /\ f # Handshake
         /\ f.body = "blank" => multiplexReply(f) = <<>>
         /\ f.body # "blank" =>
              multiplexReply(f) = <<Reply(f.session)>> /\ Reply(f.session) \in Replies
<1>1. PICK c \in Chatting : f = Event(c) \/ f = Message(c)
  BY DEF Envelopes
<1>2. c \in Clients /\ plan[c].body \in {"text", "blank"}
  BY WebSocketAssumption DEF Chatting
<1>3. f.session = c /\ f.body \in {"blank", plan[c].body} /\ f \in Frames
  <2>1. f \in Frames
    BY <1>1, <1>2, FrameTypes
  <2>2. f.session = c /\ f.body \in {"blank", plan[c].body}
    BY <1>1 DEF Event, Message, Frame
  <2> QED
    BY <2>1, <2>2
<1>4. f # Handshake
  BY <1>2, <1>3 DEF Handshake, Frame
<1>5. f.body # "blank" =>
        multiplexReply(f) = <<Reply(f.session)>> /\ Reply(f.session) \in Replies
  BY <1>3 DEF multiplexReply, Reply, Replies
<1>6. f.body = "blank" => multiplexReply(f) = <<>>
  BY DEF multiplexReply
<1> QED
  BY <1>3, <1>4, <1>5, <1>6

\* What an answer on the shared connection is.
LEMMA ReplyKinds ==
  ASSUME plan \in [Clients -> Plans], NEW f \in Replies
  PROVE  /\ f \in Frames /\ f.session \in Chatting /\ f = Reply(f.session)
         /\ \A c : Own(c, f) <=> c = f.session
<1>1. PICK c \in Chatting : f = Reply(c) /\ plan[c].body # "blank"
  BY DEF Replies
<1>2. c \in Clients /\ plan[c].body \in {"text", "blank"}
  BY WebSocketAssumption DEF Chatting
<1>3. f.session = c /\ f.body = plan[c].body /\ f \in Frames
  <2>1. f \in Frames
    BY <1>1, <1>2, FrameTypes
  <2>2. f.session = c /\ f.body = plan[c].body
    BY <1>1 DEF Reply, Frame
  <2> QED
    BY <2>1, <2>2
<1> QED
  BY <1>1, <1>3 DEF Own

\* Sequences of envelopes and of answers are sequences of frames.
LEMMA HubFrames ==
  ASSUME plan \in [Clients -> Plans]
  PROVE  /\ Envelopes \subseteq Frames /\ Replies \subseteq Frames
         /\ Seq(Envelopes) \subseteq Seq(Frames) /\ Seq(Replies) \subseteq Seq(Frames)
BY EnvelopeKinds, ReplyKinds

\* What is said of a client with a connection of its own, none of whose
\* variables change, stays true.
LEMMA SameDirect ==
  ASSUME NEW c \in Clients, plan' = plan, client'[c] = client[c],
         inbox'[c] = inbox[c], gw'[c] = gw[c], up'[c] = up[c], down'[c] = down[c],
         DirectInv(c)
  PROVE  DirectInv(c)'
BY DEF DirectInv, Message

\* What is true of a chat client whose own variables do not change stays true as
\* long as its message stays in transit on the shared connection.
LEMMA SameChat ==
  ASSUME NEW c \in Clients, plan' = plan, gw'[c] = gw[c], handler'[c] = handler[c],
         up'[c] = up[c], down'[c] = down[c],
         inbox'[c] \in {<<>>, inbox[c], <<Reply(c)>>}, ChatInv(c),
         Transit(queue', up'["shared"], down'["shared"], inbox'[c], c, client'[c])
  PROVE  ChatInv(c)'
BY DEF ChatInv, Reply

\* The frames and the kinds of frames depend on the command lines only.
LEMMA SamePlan ==
  ASSUME plan' = plan
  PROVE  /\ Envelopes' = Envelopes /\ Replies' = Replies /\ Chatting' = Chatting
         /\ \A c : Message(c)' = Message(c) /\ Reply(c)' = Reply(c) /\ Event(c)' = Event(c)
         /\ \A c : Chats(c)' = Chats(c)
BY DEF Envelopes, Replies, Chatting, Message, Reply, Event, Chats

\* The invariant holds before the first container is up.
LEMMA InitIndInv == Init => IndInv
<1> SUFFICES ASSUME Init PROVE IndInv
  OBVIOUS
<1>1. /\ plan \in [Clients -> Plans] /\ MaxDrops \in Nat
      /\ None \in Frames
      /\ <<>> \in Seq(Frames) /\ <<>> \in Seq(Envelopes)
  BY WebSocketAssumption, FrameTypes DEF Init
<1>2. TypeOK
  BY <1>1 DEF Init, TypeOK
<1>3. HubInv
  BY DEF Init, HubInv, Conns
<1>4. ClientInv
  BY NoFrame DEF Init, ClientInv, ChatInv, DirectInv, Transit, Unique, Absent, Conns
<1>5. OwnReply
  BY DEF Init, OwnReply
<1> QED
  BY <1>1, <1>2, <1>3, <1>4, <1>5 DEF IndInv, Init

\* A step on the shared connection, or of a chat client, leaves the connections
\* of the clients alone.
LEMMA HubStep ==
  ASSUME IndInv, plan' = plan, TypeOK', OwnReply', HubInv', queue' \in Seq(Envelopes),
         \A c \in Clients : gw'[c] = gw[c] /\ handler'[c] = handler[c]
                            /\ up'[c] = up[c] /\ down'[c] = down[c],
         \A c \in Clients : ~Chats(c) => inbox'[c] = inbox[c] /\ client'[c] = client[c],
         \A c \in Clients : Chats(c) =>
           /\ inbox'[c] \in {<<>>, inbox[c], <<Reply(c)>>}
           /\ Transit(queue', up'["shared"], down'["shared"], inbox'[c], c, client'[c])
  PROVE  IndInv'
<1>1. ASSUME NEW d \in Clients, Chats(d) PROVE ChatInv(d)'
  <2>1. ChatInv(d)
    BY <1>1 DEF IndInv, ClientInv
  <2> QED
    BY <1>1, <2>1, SameChat
<1>2. ASSUME NEW d \in Clients, ~Chats(d) PROVE DirectInv(d)'
  BY <1>2, SameDirect DEF IndInv, ClientInv
<1> QED
  BY <1>1, <1>2, SamePlan DEF IndInv, ClientInv

\* A step of a client with a connection of its own, or on that connection,
\* leaves every other connection alone.
LEMMA DirectStep ==
  ASSUME IndInv, NEW c \in Clients, ~Chats(c), plan' = plan, queue' = queue,
         TypeOK', OwnReply', DirectInv(c)',
         \A k \in Conns : k # c => gw'[k] = gw[k] /\ handler'[k] = handler[k]
                                   /\ up'[k] = up[k] /\ down'[k] = down[k],
         \A d \in Clients : d # c => inbox'[d] = inbox[d] /\ client'[d] = client[d]
  PROVE  IndInv'
<1>1. c # "shared" /\ "shared" \in Conns /\ Clients \subseteq Conns
  BY WebSocketAssumption DEF Conns
<1>2. HubInv' /\ queue' \in Seq(Envelopes')
  <2>1. /\ gw'["shared"] = gw["shared"] /\ handler'["shared"] = handler["shared"]
        /\ up'["shared"] = up["shared"] /\ down'["shared"] = down["shared"]
    BY <1>1
  <2> QED
    BY <2>1, SamePlan DEF IndInv, HubInv
<1>3. ASSUME NEW d \in Clients, Chats(d) PROVE ChatInv(d)'
  <2>1. ChatInv(d) /\ d # c
    BY <1>3 DEF IndInv, ClientInv
  <2> QED
    BY <1>1, <2>1, SameChat DEF ChatInv
<1>4. ASSUME NEW d \in Clients, ~Chats(d), d # c PROVE DirectInv(d)'
  BY <1>1, <1>4, SameDirect DEF IndInv, ClientInv
<1> QED
  BY <1>2, <1>3, <1>4, SamePlan DEF IndInv, ClientInv

-----------------------------------------------------------------------------
(* The steps of a client *)

Points == {"start", "dialed", "written", "ok", "failed", "usage"}

\* What Exits, and the other ways on of a client, change.
LEMMA ClientMoves ==
  ASSUME TypeOK, NEW c \in Clients, NEW p \in Points, client' = [client EXCEPT ![c] = p]
  PROVE  /\ client' \in [Clients -> Points] /\ client'[c] = p
         /\ \A d \in Clients : d # c => client'[d] = client[d]
BY DEF TypeOK, Points

\* A step that touches one client's exit code only.
LEMMA ExitsStep ==
  ASSUME IndInv, NEW c \in Clients, NEW code \in {"failed", "usage"}, Exits(c, code),
         UNCHANGED <<plan, expired, got, inbox, stack, queue, connVars, drops>>
  PROVE  IndInv'
<1> USE DEF connVars
<1>1. /\ client' \in [Clients -> Points] /\ client'[c] = code
      /\ \A d \in Clients : d # c => client'[d] = client[d]
  BY ClientMoves DEF Exits, IndInv, Points
<1>2. TypeOK' /\ OwnReply'
  BY <1>1 DEF IndInv, TypeOK, OwnReply, Chats, Points
<1>3. CASE Chats(c)
  <2>1. HubInv' /\ queue' \in Seq(Envelopes)
    BY SamePlan DEF IndInv, HubInv
  <2>2. ASSUME NEW d \in Clients, Chats(d)
        PROVE  Transit(queue', up'["shared"], down'["shared"], inbox'[d], d, client'[d])
    BY <1>1, <2>2 DEF IndInv, ClientInv, ChatInv, Transit
  <2> QED
    BY <1>1, <1>2, <1>3, <2>1, <2>2, HubStep
<1>4. CASE ~Chats(c)
  <2>1. DirectInv(c)'
    BY <1>1, <1>4, SamePlan DEF IndInv, ClientInv, DirectInv
  <2> QED
    BY <1>1, <1>2, <1>4, <2>1, DirectStep
<1> QED
  BY <1>3, <1>4

\* An event is an envelope that is nobody's message.
LEMMA EventFrame ==
  ASSUME plan \in [Clients -> Plans], NEW c \in Clients, Chats(c)
  PROVE  /\ Event(c) \in Envelopes /\ Event(c) \in Frames
         /\ \A d : ~Own(d, Event(c))
<1>1. \A d : ~Own(d, Event(c))
  BY DEF Own, Event, Frame
<1>2. Event(c) \in Envelopes
  BY DEF Envelopes, Chatting
<1> QED
  BY <1>1, <1>2, FrameTypes

\* A client dials.
LEMMA DialStep ==
  ASSUME IndInv, NEW c \in Clients, Dial(c)
  PROVE  IndInv'
<1>0. /\ UNCHANGED <<plan, expired, got, inbox, stack, drops>> /\ client[c] = "start"
      /\ plan \in [Clients -> Plans] /\ TypeOK /\ queue \in Seq(Envelopes)
  BY DEF Dial, IndInv, TypeOK
<1>1. CASE \E code \in {"failed", "usage"} :
             Exits(c, code) /\ UNCHANGED <<queue, connVars>>
  BY <1>0, <1>1, ExitsStep
<1>2. CASE /\ client' = [client EXCEPT ![c] = "dialed"]
           /\ Chats(c) /\ queue' = Append(queue, Event(c)) /\ UNCHANGED connVars
  <2> USE DEF connVars
  <2>1. /\ client' \in [Clients -> Points] /\ client'[c] = "dialed"
        /\ \A d \in Clients : d # c => client'[d] = client[d]
    BY <1>0, <1>2, ClientMoves DEF Points
  <2>2. Event(c) \in Envelopes /\ Event(c) \in Frames /\ \A d : ~Own(d, Event(c))
    BY <1>0, <1>2, EventFrame
  <2>3. queue' \in Seq(Envelopes) /\ queue' \in Seq(Frames) /\ queue \in Seq(Frames)
    BY <1>0, <1>2, <2>2, AppendProperties DEF TypeOK
  <2>4. TypeOK' /\ OwnReply'
    BY <1>0, <1>2, <2>1, <2>3, SamePlan DEF IndInv, TypeOK, OwnReply, Points
  <2>5. HubInv'
    BY <1>0, <1>2, SamePlan DEF IndInv, HubInv
  <2>6. ASSUME NEW d \in Clients, Chats(d)
        PROVE  Transit(queue', up'["shared"], down'["shared"], inbox'[d], d, client'[d])
    <3>1. Transit(queue, up["shared"], down["shared"], inbox[d], d, client[d])
      BY <2>6 DEF IndInv, ClientInv, ChatInv
    <3>2. Transit(queue', up["shared"], down["shared"], inbox[d], d, client[d])
      BY <1>2, <2>2, <2>3, <3>1, TransitEvent
    <3> QED
      BY <1>0, <1>2, <2>1, <3>2 DEF Transit
  <2> QED
    BY <1>0, <1>2, <2>1, <2>3, <2>4, <2>5, <2>6, HubStep
<1>3. CASE /\ client' = [client EXCEPT ![c] = "dialed"]
           /\ ~Chats(c) /\ Accept(c) /\ UNCHANGED queue
  <2>1. c # "shared" /\ c \in Conns
    BY WebSocketAssumption DEF Conns
  <2>2. /\ client' \in [Clients -> Points] /\ client'[c] = "dialed"
        /\ \A d \in Clients : d # c => client'[d] = client[d]
    BY <1>0, <1>3, ClientMoves DEF Points
  <2>3. /\ gw'[c] = "ready" /\ up'[c] = <<>> /\ down'[c] = <<>>
        /\ \A k \in Conns : k # c => gw'[k] = gw[k] /\ handler'[k] = handler[k]
                                     /\ up'[k] = up[k] /\ down'[k] = down[k]
        /\ gw' \in [Conns -> {"none", "shaking", "ready", "closed"}]
        /\ handler' \in [Conns -> {"none", "handshake", "serving", "ended"}]
        /\ up' \in [Conns -> Seq(Frames)] /\ down' \in [Conns -> Seq(Frames)]
    BY <1>0, <1>3, <2>1 DEF Accept, TypeOK
  <2>4. TypeOK' /\ OwnReply'
    BY <1>0, <1>3, <2>2, <2>3, SamePlan DEF IndInv, TypeOK, OwnReply, Points
  <2>5. DirectInv(c)'
    BY <1>0, <1>3, <2>2, <2>3 DEF IndInv, ClientInv, DirectInv
  <2> QED
    BY <1>0, <1>3, <2>2, <2>3, <2>4, <2>5, DirectStep
<1> QED
  BY <1>1, <1>2, <1>3 DEF Dial

\* A client writes its message.
LEMMA WriteStep ==
  ASSUME IndInv, NEW c \in Clients, Write(c)
  PROVE  IndInv'
<1>0. /\ UNCHANGED <<plan, expired, got, inbox, stack, gw, handler, down, drops>>
      /\ client[c] = "dialed" /\ client' = [client EXCEPT ![c] = "written"]
      /\ plan \in [Clients -> Plans] /\ TypeOK /\ queue \in Seq(Envelopes)
      /\ Message(c) \in Frames /\ c # "shared" /\ c \in Conns
  BY FrameTypes, WebSocketAssumption DEF Write, IndInv, TypeOK, Conns
<1>1. /\ client' \in [Clients -> Points] /\ client'[c] = "written"
      /\ \A d \in Clients : d # c => client'[d] = client[d]
  BY <1>0, ClientMoves DEF Points
<1>2. CASE Chats(c)
  <2>1. queue' = Append(queue, Message(c)) /\ UNCHANGED up
    BY <1>2 DEF Write
  <2>2. Message(c) \in Envelopes /\ \A d : d # c => ~Own(d, Message(c))
    BY <1>2 DEF Envelopes, Chatting, Own, Message, Frame
  <2>3. queue' \in Seq(Envelopes) /\ queue' \in Seq(Frames) /\ queue \in Seq(Frames)
    BY <1>0, <2>1, <2>2, AppendProperties DEF TypeOK
  <2>4. TypeOK' /\ OwnReply'
    BY <1>0, <1>1, <2>1, <2>3, SamePlan DEF IndInv, TypeOK, OwnReply, Points
  <2>5. HubInv'
    BY <1>0, <2>1, SamePlan DEF IndInv, HubInv
  <2>6. ASSUME NEW d \in Clients, Chats(d)
        PROVE  Transit(queue', up'["shared"], down'["shared"], inbox'[d], d, client'[d])
    <3>1. Transit(queue, up["shared"], down["shared"], inbox[d], d, client[d])
      BY <2>6 DEF IndInv, ClientInv, ChatInv
    <3>2. CASE d = c
      BY <1>0, <1>1, <2>1, <2>3, <3>1, <3>2, TransitWrite
    <3>3. CASE d # c
      BY <1>0, <1>1, <2>1, <2>2, <2>3, <3>1, <3>3, TransitEvent
    <3> QED
      BY <3>2, <3>3
  <2> QED
    BY <1>0, <1>1, <1>2, <2>1, <2>3, <2>4, <2>5, <2>6, HubStep
<1>3. CASE ~Chats(c)
  <2>1. /\ up' = [up EXCEPT ![c] = Append(@, Message(c))] /\ UNCHANGED queue
        /\ gw[c] = "ready"
    BY <1>3 DEF Write
  <2>2. DirectInv(c) /\ up[c] = <<>> /\ down[c] = <<>> /\ inbox[c] = <<>>
    BY <1>0, <1>3 DEF IndInv, ClientInv, DirectInv
  <2>3. Append(up[c], Message(c)) = <<Message(c)>>
    BY <2>2
  <2>4. <<Message(c)>> \in Seq(Frames)
    BY <1>0
  <2>5. /\ up'[c] = <<Message(c)>> /\ \A k \in Conns : k # c => up'[k] = up[k]
        /\ up' \in [Conns -> Seq(Frames)]
    BY <1>0, <2>1, <2>3, <2>4 DEF TypeOK
  <2>6. TypeOK' /\ OwnReply'
    BY <1>0, <1>1, <2>1, <2>5, SamePlan DEF IndInv, TypeOK, OwnReply, Points
  <2>7. DirectInv(c)'
    BY <1>0, <1>1, <2>1, <2>2, <2>5, SamePlan DEF DirectInv
  <2> QED
    BY <1>0, <1>1, <1>3, <2>1, <2>5, <2>6, <2>7, DirectStep
<1> QED
  BY <1>2, <1>3

\* A connection is closed, with whatever is in it.
LEMMA ClosedStep ==
  ASSUME TypeOK, NEW k \in Conns, Closed(k)
  PROVE  /\ gw' \in [Conns -> {"none", "shaking", "ready", "closed"}]
         /\ handler' \in [Conns -> {"none", "handshake", "serving", "ended"}]
         /\ up' \in [Conns -> Seq(Frames)] /\ down' \in [Conns -> Seq(Frames)]
         /\ gw'[k] = "closed" /\ handler'[k] \in {"none", "ended"}
         /\ up'[k] = <<>> /\ down'[k] = <<>>
         /\ \A l \in Conns : l # k => gw'[l] = gw[l] /\ handler'[l] = handler[l]
                                      /\ up'[l] = up[l] /\ down'[l] = down[l]
BY DEF Closed, TypeOK

\* A client leaves, with its exit code and what it read.
LEMMA GoneStep ==
  ASSUME IndInv, NEW c \in Clients, NEW code \in {"ok", "failed"}, Exits(c, code), Gone(c),
         UNCHANGED <<plan, stack, drops>>, expired' \subseteq Clients,
         got' \in [Clients -> Frames], \A d \in Clients : d # c => got'[d] = got[d],
         code = "ok" => got'[c] = Frame(c, plan[c].body, Chats(c))
  PROVE  IndInv'
<1>0. plan \in [Clients -> Plans] /\ TypeOK /\ queue \in Seq(Envelopes)
      /\ c # "shared" /\ c \in Conns
  BY WebSocketAssumption DEF IndInv, TypeOK, Conns
<1>1. /\ client' \in [Clients -> Points] /\ client'[c] = code
      /\ \A d \in Clients : d # c => client'[d] = client[d]
  BY <1>0, ClientMoves DEF Exits, Points
<1>2. /\ inbox' \in [Clients -> {<<>>} \cup {<<f>> : f \in Frames}]
      /\ inbox'[c] = <<>> /\ \A d \in Clients : d # c => inbox'[d] = inbox[d]
  BY <1>0 DEF Gone, TypeOK
<1>3. OwnReply'
  BY <1>1, SamePlan DEF IndInv, OwnReply
<1>4. CASE Chats(c)
  <2>1. queue' = Append(queue, Event(c)) /\ UNCHANGED <<gw, handler, up, down>>
    BY <1>4 DEF Gone, connVars
  <2>2. Event(c) \in Envelopes /\ Event(c) \in Frames /\ \A d : ~Own(d, Event(c))
    BY <1>0, <1>4, EventFrame
  <2>3. queue' \in Seq(Envelopes) /\ queue' \in Seq(Frames) /\ queue \in Seq(Frames)
    BY <1>0, <2>1, <2>2, AppendProperties DEF TypeOK
  <2>4. TypeOK'
    BY <1>0, <1>1, <1>2, <2>1, <2>3 DEF TypeOK, Points
  <2>5. HubInv'
    BY <2>1, SamePlan DEF IndInv, HubInv
  <2>6. ASSUME NEW d \in Clients, Chats(d)
        PROVE  Transit(queue', up'["shared"], down'["shared"], inbox'[d], d, client'[d])
    <3>1. Transit(queue, up["shared"], down["shared"], inbox[d], d, client[d])
      BY <2>6 DEF IndInv, ClientInv, ChatInv
    <3>2. Transit(queue', up'["shared"], down'["shared"], inbox[d], d, client[d])
      BY <2>1, <2>2, <2>3, <3>1, TransitEvent
    <3>3. CASE d = c
      BY <1>1, <1>2, <2>3, <3>2, <3>3, TransitGone
    <3>4. CASE d # c
      BY <1>1, <1>2, <3>2, <3>4
    <3> QED
      BY <3>3, <3>4
  <2> QED
    BY <1>1, <1>2, <1>3, <1>4, <2>1, <2>3, <2>4, <2>5, <2>6, HubStep
<1>5. CASE ~Chats(c)
  <2>1. Closed(c) /\ UNCHANGED queue
    BY <1>5 DEF Gone
  <2>2. /\ gw' \in [Conns -> {"none", "shaking", "ready", "closed"}]
        /\ handler' \in [Conns -> {"none", "handshake", "serving", "ended"}]
        /\ up' \in [Conns -> Seq(Frames)] /\ down' \in [Conns -> Seq(Frames)]
        /\ gw'[c] = "closed" /\ up'[c] = <<>> /\ down'[c] = <<>>
        /\ \A l \in Conns : l # c => gw'[l] = gw[l] /\ handler'[l] = handler[l]
                                     /\ up'[l] = up[l] /\ down'[l] = down[l]
    BY <1>0, <2>1, ClosedStep
  <2>3. TypeOK'
    BY <1>0, <1>1, <1>2, <2>1, <2>2 DEF TypeOK, Points
  <2>4. DirectInv(c)'
    BY <1>1, <1>2, <2>2 DEF DirectInv
  <2> QED
    BY <1>1, <1>2, <1>3, <1>5, <2>1, <2>2, <2>3, <2>4, DirectStep
<1> QED
  BY <1>4, <1>5

\* A client reads the one frame it is sent, which is the answer to its message.
LEMMA ReadStep ==
  ASSUME IndInv, NEW c \in Clients, Read(c)
  PROVE  IndInv'
<1>1. /\ inbox[c] # <<>> /\ Gone(c) /\ UNCHANGED <<plan, expired, stack, drops>>
      /\ got' = [got EXCEPT ![c] = Head(inbox[c])]
      /\ \E code \in {"ok", "failed"} : Exits(c, code)
  BY DEF Read
<1>2. inbox[c] = <<Frame(c, plan[c].body, Chats(c))>>
  <2>1. CASE Chats(c)
    <3>1. Chats(c) = TRUE
      BY <2>1, Zenon DEF Chats
    <3>2. inbox[c] = <<Reply(c)>>
      BY <1>1, <2>1 DEF IndInv, ClientInv, ChatInv
    <3> QED
      BY <3>1, <3>2, Zenon DEF Reply
  <2>2. CASE ~Chats(c)
    <3>1. Chats(c) = FALSE
      BY <2>2, Zenon DEF Chats
    <3>2. inbox[c] = <<Message(c)>>
      BY <1>1, <2>2 DEF IndInv, ClientInv, DirectInv
    <3> QED
      BY <3>1, <3>2, Zenon DEF Message
  <2> QED
    BY <2>1, <2>2
<1> DEFINE f == Frame(c, plan[c].body, Chats(c))
<1> HIDE DEF f
<1>3. Head(inbox[c]) = f /\ f \in Frames
  <2>1. inbox[c] = <<f>>
    BY <1>2, Zenon DEF f
  <2>2. \E g \in Frames : inbox[c] = <<g>>
    BY <1>1 DEF IndInv, TypeOK
  <2> QED
    BY <2>1, <2>2
<1>4. /\ got' \in [Clients -> Frames] /\ got'[c] = f
      /\ \A d \in Clients : d # c => got'[d] = got[d]
      /\ expired' \subseteq Clients
  BY <1>1, <1>3 DEF IndInv, TypeOK
<1> QED
  BY <1>1, <1>4, GoneStep DEF f

\* The deadline of a client passes.
LEMMA TimeoutStep ==
  ASSUME IndInv, NEW c \in Clients, Timeout(c)
  PROVE  IndInv'
<1>1. /\ Exits(c, "failed") /\ Gone(c) /\ UNCHANGED <<plan, got, stack, drops>>
      /\ expired' \subseteq Clients /\ got' \in [Clients -> Frames]
  BY DEF Timeout, IndInv, TypeOK
<1> QED
  BY <1>1, GoneStep

-----------------------------------------------------------------------------
(* The steps of the backend and of the gateway *)

\* A step of the backend, or of the gateway, concerns no client's exit code.
LEMMA ClientsStay ==
  ASSUME IndInv, UNCHANGED <<plan, clientVars>>
  PROVE  OwnReply' /\ \A c \in Clients : client'[c] = client[c]
BY SamePlan DEF IndInv, OwnReply, clientVars

\* What the shared connection holds is made of frames.
LEMMA HubTypes ==
  ASSUME IndInv
  PROVE  /\ plan \in [Clients -> Plans] /\ "shared" \in Conns /\ "shared" \notin Clients
         /\ Clients \subseteq Conns /\ queue \in Seq(Frames)
         /\ up["shared"] \in Seq(Frames) /\ down["shared"] \in Seq(Frames)
         /\ \A c \in Clients : Chats(c) =>
              Transit(queue, up["shared"], down["shared"], inbox[c], c, client[c])
BY WebSocketAssumption DEF IndInv, TypeOK, Conns, ClientInv, ChatInv

\* The handshake and the answer to it are nobody's message.
LEMMA GreetingFrames ==
  ASSUME NEW c \in Clients
  PROVE  /\ ~Holds(<<Handshake>>, c) /\ Once(<<Handshake>>, c)
         /\ ~Holds(<<OK>>, c) /\ Once(<<OK>>, c)
BY WebSocketAssumption DEF Holds, Once, Own, Handshake, OK, Frame

\* The backend answers the handshake: no other frame is there to be taken for it.
LEMMA HandshakeStep ==
  ASSUME IndInv, multiplexHandshake,
         UNCHANGED <<plan, clientVars, inbox, stack, queue, drops>>
  PROVE  IndInv'
<1>1. /\ gw["shared"] = "shaking" /\ up["shared"] = <<Handshake>>
      /\ down["shared"] = <<>>
  BY DEF IndInv, HubInv, TypeOK, multiplexHandshake, Conns
<1>2. /\ handler' = [handler EXCEPT !["shared"] = "serving"]
      /\ up' = [up EXCEPT !["shared"] = <<>>]
      /\ down' = [down EXCEPT !["shared"] = <<OK>>]
      /\ UNCHANGED gw
  BY <1>1 DEF multiplexHandshake
<1>3. <<>> \in Seq(Frames) /\ <<OK>> \in Seq(Frames)
  BY HubTypes, FrameTypes
<1>4. /\ handler' \in [Conns -> {"none", "handshake", "serving", "ended"}]
      /\ up' \in [Conns -> Seq(Frames)] /\ down' \in [Conns -> Seq(Frames)]
      /\ handler'["shared"] = "serving"
      /\ up'["shared"] = <<>> /\ down'["shared"] = <<OK>>
      /\ \A c \in Clients : gw'[c] = gw[c] /\ handler'[c] = handler[c]
                            /\ up'[c] = up[c] /\ down'[c] = down[c]
  BY <1>2, <1>3, HubTypes DEF IndInv, TypeOK
<1>5. TypeOK'
  BY <1>2, <1>4 DEF IndInv, TypeOK, clientVars
<1>6. HubInv'
  BY <1>1, <1>2, <1>4 DEF HubInv
<1>7. ASSUME NEW c \in Clients, Chats(c)
      PROVE  Transit(queue', up'["shared"], down'["shared"], inbox'[c], c, client'[c])
  <2>1. Transit(queue, up["shared"], down["shared"], inbox[c], c, client[c])
    BY <1>7, HubTypes
  <2>2. Transit(queue, <<>>, <<OK>>, inbox[c], c, client[c])
    BY <2>1, GreetingFrames, NoFrame, TransitLost
  <2> QED
    BY <1>4, <2>2, ClientsStay
<1> QED
  BY <1>4, <1>5, <1>6, <1>7, ClientsStay, HubStep DEF IndInv

\* The backend answers an envelope, or finds that it needs no answer.
LEMMA ServeStep ==
  ASSUME IndInv, multiplexServe,
         UNCHANGED <<plan, clientVars, inbox, stack, queue, drops>>
  PROVE  IndInv'
<1> DEFINE u == up["shared"]
           d == down["shared"]
           f == Head(u)
<1>1. /\ gw["shared"] = "ready" /\ handler["shared"] = "serving" /\ u # <<>>
      /\ u \in Seq(Envelopes) /\ d \in Seq(Replies)
  BY DEF IndInv, HubInv, TypeOK, multiplexServe, Conns
<1>2. /\ u \in Seq(Frames) /\ d \in Seq(Frames) /\ f \in Envelopes
      /\ Tail(u) \in Seq(Envelopes) /\ Tail(u) \in Seq(Frames)
  BY <1>1, HubTypes, HeadTailProperties
<1>3. /\ down' = [down EXCEPT !["shared"] = d \o multiplexReply(f)]
      /\ up' = [up EXCEPT !["shared"] = Tail(u)]
      /\ UNCHANGED <<gw, handler>>
  BY DEF multiplexServe
<1> HIDE DEF u, d, f
<1>4. PICK e : /\ e = d \o multiplexReply(f)
               /\ e \in Seq(Replies) /\ e \in Seq(Frames)
               /\ \A c \in Clients : Chats(c) =>
                    Transit(queue, Tail(u), e, inbox[c], c, client[c])
  <2>1. CASE f.body = "blank"
    <3>1. d \o multiplexReply(f) = d
      BY <1>1, <1>2, <2>1, EnvelopeKinds, HubTypes, ConcatEmptySeq
    <3>2. \A c \in Clients : Chats(c) => Transit(queue, u, d, inbox[c], c, client[c])
      BY HubTypes DEF u, d
    <3>3. ASSUME NEW c \in Clients, Chats(c)
          PROVE  Transit(queue, Tail(u), d, inbox[c], c, client[c])
      <4>1. ~Own(c, OK) /\ OK \in Frames
        BY FrameTypes, HubTypes, WebSocketAssumption DEF OK, Own, Frame
      <4> QED
        BY <1>1, <1>2, <3>2, <3>3, <4>1, TransitServe
    <3> QED
      BY <1>1, <1>2, <3>1, <3>3
  <2>2. CASE f.body # "blank"
    <3> DEFINE r == Reply(f.session)
    <3>1. r \in Replies /\ r \in Frames /\ multiplexReply(f) = <<r>>
      BY <1>2, <2>2, EnvelopeKinds, ReplyKinds, HubTypes
    <3>2. \A c : Own(c, r) => Own(c, f)
      BY <2>2 DEF Own, Reply, Frame
    <3> HIDE DEF r
    <3>3. d \o multiplexReply(f) = Append(d, r)
      BY <1>1, <3>1, AppendIsConcat
    <3>4. Append(d, r) \in Seq(Replies) /\ Append(d, r) \in Seq(Frames)
      BY <1>1, <1>2, <3>1, AppendProperties
    <3>5. \A c \in Clients : Chats(c) => Transit(queue, u, d, inbox[c], c, client[c])
      BY HubTypes DEF u, d
    <3>6. ASSUME NEW c \in Clients, Chats(c)
          PROVE  Transit(queue, Tail(u), Append(d, r), inbox[c], c, client[c])
      BY <1>1, <1>2, <3>1, <3>2, <3>5, <3>6, TransitServe DEF f
    <3> QED
      BY <3>3, <3>4, <3>6
  <2> QED
    BY <2>1, <2>2
<1>5. /\ up' \in [Conns -> Seq(Frames)] /\ down' \in [Conns -> Seq(Frames)]
      /\ up'["shared"] = Tail(u) /\ down'["shared"] = e
      /\ \A c \in Clients : gw'[c] = gw[c] /\ handler'[c] = handler[c]
                            /\ up'[c] = up[c] /\ down'[c] = down[c]
  BY <1>2, <1>3, <1>4, HubTypes DEF IndInv, TypeOK
<1>6. TypeOK'
  BY <1>3, <1>5 DEF IndInv, TypeOK, clientVars
<1>7. HubInv'
  BY <1>1, <1>2, <1>3, <1>4, <1>5, SamePlan DEF HubInv
<1>8. ASSUME NEW c \in Clients, Chats(c)
      PROVE  Transit(queue', up'["shared"], down'["shared"], inbox'[c], c, client'[c])
  BY <1>4, <1>5, <1>8, ClientsStay
<1> QED
  BY <1>5, <1>6, <1>7, <1>8, ClientsStay, HubStep DEF IndInv

\* The backend sends a frame back on the connection of one client.
LEMMA EchoStep ==
  ASSUME IndInv, NEW c \in Clients, directEcho(c),
         UNCHANGED <<plan, clientVars, inbox, stack, queue, drops>>
  PROVE  IndInv'
<1>1. /\ c \in Conns /\ handler[c] = "serving" /\ up[c] # <<>>
      /\ down' = [down EXCEPT ![c] = Append(@, Head(up[c]))]
      /\ up' = [up EXCEPT ![c] = Tail(@)]
      /\ UNCHANGED <<gw, handler>>
  BY HubTypes DEF directEcho
<1>2. ~Chats(c) /\ DirectInv(c)
  BY <1>1 DEF IndInv, ClientInv, ChatInv
<1>3. up[c] = <<Message(c)>> /\ down[c] = <<>> /\ inbox[c] = <<>> /\ gw[c] = "ready"
      /\ client[c] \notin {"start", "dialed"}
  BY <1>1, <1>2 DEF DirectInv
<1>4. Message(c) \in Frames /\ <<Message(c)>> \in Seq(Frames) /\ <<>> \in Seq(Frames)
  BY HubTypes, FrameTypes
<1> DEFINE m == Message(c)
<1> HIDE DEF m
<1>5. Tail(<<m>>) = <<>> /\ Append(<<>>, Head(<<m>>)) = <<m>>
  OBVIOUS
<1>6. up' = [up EXCEPT ![c] = <<>>] /\ down' = [down EXCEPT ![c] = <<m>>]
  BY <1>1, <1>3, <1>5 DEF m
<1>7. /\ up' \in [Conns -> Seq(Frames)] /\ down' \in [Conns -> Seq(Frames)]
      /\ up'[c] = <<>> /\ down'[c] = <<m>>
      /\ \A k \in Conns : k # c => up'[k] = up[k] /\ down'[k] = down[k]
  BY <1>1, <1>4, <1>6 DEF IndInv, TypeOK, m
<1>8. TypeOK'
  BY <1>1, <1>7 DEF IndInv, TypeOK, clientVars
<1>9. DirectInv(c)'
  BY <1>1, <1>2, <1>3, <1>7, ClientsStay, SamePlan DEF DirectInv, m
<1> QED
  BY <1>1, <1>2, <1>7, <1>8, <1>9, ClientsStay, DirectStep

\* The gateway opens the shared connection and shakes hands first.
LEMMA HubDialsStep ==
  ASSUME IndInv, HubDials, UNCHANGED <<plan, clientVars, stack, drops>>
  PROVE  IndInv'
<1>1. /\ handler' = [handler EXCEPT !["shared"] = "handshake"]
      /\ gw' = [gw EXCEPT !["shared"] = "shaking"]
      /\ up' = [up EXCEPT !["shared"] = <<Handshake>>]
      /\ down' = [down EXCEPT !["shared"] = <<>>]
      /\ UNCHANGED <<queue, inbox>>
  BY DEF HubDials, Accept
<1>2. <<>> \in Seq(Frames) /\ <<Handshake>> \in Seq(Frames)
  BY HubTypes, FrameTypes
<1>3. /\ gw' \in [Conns -> {"none", "shaking", "ready", "closed"}]
      /\ handler' \in [Conns -> {"none", "handshake", "serving", "ended"}]
      /\ up' \in [Conns -> Seq(Frames)] /\ down' \in [Conns -> Seq(Frames)]
      /\ gw'["shared"] = "shaking" /\ handler'["shared"] = "handshake"
      /\ up'["shared"] = <<Handshake>> /\ down'["shared"] = <<>>
      /\ \A c \in Clients : gw'[c] = gw[c] /\ handler'[c] = handler[c]
                            /\ up'[c] = up[c] /\ down'[c] = down[c]
  BY <1>1, <1>2, HubTypes DEF IndInv, TypeOK
<1>4. TypeOK'
  BY <1>1, <1>3 DEF IndInv, TypeOK, clientVars
<1>5. HubInv'
  BY <1>3 DEF HubInv
<1>6. ASSUME NEW c \in Clients, Chats(c)
      PROVE  Transit(queue', up'["shared"], down'["shared"], inbox'[c], c, client'[c])
  <2>1. Transit(queue, up["shared"], down["shared"], inbox[c], c, client[c])
    BY <1>6, HubTypes
  <2>2. Transit(queue, <<Handshake>>, <<>>, inbox[c], c, client[c])
    BY <2>1, GreetingFrames, NoFrame, TransitLost
  <2> QED
    BY <1>1, <1>3, <2>2, ClientsStay
<1> QED
  BY <1>1, <1>3, <1>4, <1>5, <1>6, ClientsStay, HubStep DEF IndInv

\* The gateway reads the answer to its handshake.
LEMMA HubReadyStep ==
  ASSUME IndInv, HubReady, UNCHANGED <<plan, clientVars, stack, drops>>
  PROVE  IndInv'
<1>1. /\ gw["shared"] = "shaking" /\ handler["shared"] = "serving"
      /\ up["shared"] = <<>> /\ down["shared"] = <<OK>>
  BY DEF HubReady, IndInv, HubInv
<1>2. /\ gw' = [gw EXCEPT !["shared"] = "ready"]
      /\ down' = [down EXCEPT !["shared"] = <<>>]
      /\ UNCHANGED <<queue, inbox, handler, up>>
  BY <1>1 DEF HubReady
<1>3. /\ gw' \in [Conns -> {"none", "shaking", "ready", "closed"}]
      /\ down' \in [Conns -> Seq(Frames)]
      /\ gw'["shared"] = "ready" /\ down'["shared"] = <<>>
      /\ \A c \in Clients : gw'[c] = gw[c] /\ handler'[c] = handler[c]
                            /\ up'[c] = up[c] /\ down'[c] = down[c]
  BY <1>2, HubTypes DEF IndInv, TypeOK
<1>4. TypeOK'
  BY <1>2, <1>3 DEF IndInv, TypeOK, clientVars
<1>5. HubInv'
  <2>1. <<>> \in Seq(Envelopes) /\ <<>> \in Seq(Replies)
    BY EmptySeq
  <2>2. /\ gw'["shared"] = "ready" /\ handler'["shared"] = "serving"
        /\ up'["shared"] \in Seq(Envelopes') /\ down'["shared"] \in Seq(Replies')
    BY <1>1, <1>2, <1>3, <2>1, SamePlan
  <2> QED
    BY <2>2 DEF HubInv
<1>6. ASSUME NEW c \in Clients, Chats(c)
      PROVE  Transit(queue', up'["shared"], down'["shared"], inbox'[c], c, client'[c])
  <2>1. Transit(queue, up["shared"], down["shared"], inbox[c], c, client[c])
    BY <1>6, HubTypes
  <2>2. Transit(queue, <<>>, <<>>, inbox[c], c, client[c])
    BY <2>1, NoFrame, TransitLost
  <2> QED
    BY <1>1, <1>2, <1>3, <2>2, ClientsStay
<1> QED
  BY <1>2, <1>3, <1>4, <1>5, <1>6, ClientsStay, HubStep DEF IndInv

\* The gateway forwards an envelope.
LEMMA HubForwardsStep ==
  ASSUME IndInv, HubForwards, UNCHANGED <<plan, clientVars, stack, drops>>
  PROVE  IndInv'
<1> DEFINE u == Append(up["shared"], Head(queue))
<1>1. /\ gw["shared"] = "ready" /\ queue # <<>> /\ handler["shared"] = "serving"
      /\ up' = [up EXCEPT !["shared"] = u]
      /\ queue' = Tail(queue)
      /\ up["shared"] \in Seq(Envelopes) /\ down["shared"] \in Seq(Replies)
      /\ UNCHANGED <<inbox, gw, handler, down>>
  BY DEF HubForwards, IndInv, HubInv
<1>2. /\ Head(queue) \in Envelopes /\ queue' \in Seq(Envelopes)
      /\ Head(queue) \in Frames /\ queue' \in Seq(Frames)
  BY <1>1, HeadTailProperties, HubTypes DEF IndInv
<1>3. u \in Seq(Envelopes) /\ u \in Seq(Frames)
  BY <1>1, <1>2, HubTypes, AppendProperties
<1> HIDE DEF u
<1>4. /\ up' \in [Conns -> Seq(Frames)] /\ up'["shared"] = u
      /\ \A c \in Clients : gw'[c] = gw[c] /\ handler'[c] = handler[c]
                            /\ up'[c] = up[c] /\ down'[c] = down[c]
  BY <1>1, <1>3, HubTypes DEF IndInv, TypeOK
<1>5. TypeOK'
  BY <1>1, <1>2, <1>4 DEF IndInv, TypeOK, clientVars
<1>6. HubInv'
  BY <1>1, <1>3, <1>4, SamePlan DEF HubInv
<1>7. ASSUME NEW c \in Clients, Chats(c)
      PROVE  Transit(queue', up'["shared"], down'["shared"], inbox'[c], c, client'[c])
  <2>1. Transit(queue, up["shared"], down["shared"], inbox[c], c, client[c])
    BY <1>7, HubTypes
  <2>2. Transit(Tail(queue), u, down["shared"], inbox[c], c, client[c])
    BY <1>1, <2>1, HubTypes, TransitForward DEF u
  <2> QED
    BY <1>1, <1>4, <2>2, ClientsStay
<1> QED
  BY <1>1, <1>2, <1>4, <1>5, <1>6, <1>7, ClientsStay, HubStep DEF IndInv

\* The gateway hands an answer to the client of its session, and to no other.
LEMMA HubDeliversStep ==
  ASSUME IndInv, HubDelivers, UNCHANGED <<plan, clientVars, stack, drops>>
  PROVE  IndInv'
<1> DEFINE d == down["shared"]
           f == Head(d)
<1>1. /\ gw["shared"] = "ready" /\ handler["shared"] = "serving" /\ d # <<>>
      /\ up["shared"] \in Seq(Envelopes) /\ d \in Seq(Replies)
      /\ down' = [down EXCEPT !["shared"] = Tail(d)]
      /\ inbox' = [c \in Clients |-> IF c \in Recipients(f) THEN Append(inbox[c], f)
                                     ELSE inbox[c]]
      /\ UNCHANGED <<queue, gw, handler, up>>
  BY DEF HubDelivers, IndInv, HubInv
<1>2. /\ d \in Seq(Frames) /\ f \in Replies
      /\ Tail(d) \in Seq(Replies) /\ Tail(d) \in Seq(Frames)
  BY <1>1, HubTypes, HeadTailProperties
<1>3. /\ f \in Frames /\ f.session \in Clients /\ f = Reply(f.session)
      /\ \A c : Own(c, f) <=> c = f.session
  BY <1>2, ReplyKinds, HubTypes DEF Chatting
<1>4. \A c \in Clients : c \in Recipients(f) => Chats(c) /\ c = f.session
  BY <1>3, WebSocketAssumption DEF Recipients
<1>5. ASSUME NEW c \in Clients, Chats(c)
      PROVE  /\ inbox'[c] \in {inbox[c], <<Reply(c)>>}
             /\ Transit(queue, up["shared"], Tail(d), inbox'[c], c, client[c])
  <2>1. Transit(queue, up["shared"], d, inbox[c], c, client[c])
    BY <1>5, HubTypes
  <2>2. CASE c \in Recipients(f)
    <3>1. f = Reply(c) /\ Own(c, f)
      BY <1>3, <1>4, <2>2
    <3>2. inbox[c] = <<>> /\ Transit(queue, up["shared"], Tail(d), <<f>>, c, client[c])
      <4> HIDE DEF d
      <4> QED
        BY <1>1, <1>2, <1>3, <2>1, <3>1, TransitDeliver
    <3> HIDE DEF f
    <3>3. Append(<<>>, f) = <<f>>
      OBVIOUS
    <3>4. inbox'[c] = <<f>>
      BY <1>1, <2>2, <3>2, <3>3
    <3> QED
      BY <3>1, <3>2, <3>4
  <2>3. CASE c \notin Recipients(f)
    <3>1. inbox'[c] = inbox[c]
      BY <1>1, <2>3
    <3> HIDE DEF d
    <3>2. Transit(queue, up["shared"], Tail(d), inbox[c], c, client[c])
      BY <1>1, <1>2, <1>3, <2>1, TransitDeliver
    <3> QED
      BY <3>1, <3>2
  <2> QED
    BY <2>2, <2>3
<1>6. \A c \in Clients : ~Chats(c) => inbox'[c] = inbox[c]
  BY <1>1, <1>4
<1> HIDE DEF d, f
<1>7. inbox' \in [Clients -> {<<>>} \cup {<<g>> : g \in Frames}]
  <2>1. ASSUME NEW c \in Clients PROVE inbox'[c] \in {<<>>} \cup {<<g>> : g \in Frames}
    <3>1. Reply(c) \in Frames /\ inbox[c] \in {<<>>} \cup {<<g>> : g \in Frames}
      BY HubTypes, FrameTypes DEF IndInv, TypeOK
    <3> QED
      BY <1>5, <1>6, <3>1
  <2> QED
    BY <1>1, <2>1
<1>8. /\ down' \in [Conns -> Seq(Frames)] /\ down'["shared"] = Tail(d)
      /\ \A c \in Clients : gw'[c] = gw[c] /\ handler'[c] = handler[c]
                            /\ up'[c] = up[c] /\ down'[c] = down[c]
  BY <1>1, <1>2, HubTypes DEF IndInv, TypeOK
<1>9. TypeOK'
  BY <1>1, <1>7, <1>8 DEF IndInv, TypeOK, clientVars
<1>10. HubInv'
  BY <1>1, <1>2, <1>8, SamePlan DEF HubInv
<1>11. ASSUME NEW c \in Clients, Chats(c)
       PROVE  Transit(queue', up'["shared"], down'["shared"], inbox'[c], c, client'[c])
  BY <1>1, <1>5, <1>8, <1>11, ClientsStay
<1> QED
  BY <1>1, <1>5, <1>6, <1>8, <1>9, <1>10, <1>11, ClientsStay, HubStep DEF IndInv

\* The gateway copies a frame to the client whose connection it came on.
LEMMA CopiesBackStep ==
  ASSUME IndInv, NEW c \in Clients, CopiesBack(c),
         UNCHANGED <<plan, clientVars, stack, drops>>
  PROVE  IndInv'
<1> DEFINE m == Message(c)
<1>1. /\ c \in Conns /\ gw[c] = "ready" /\ down[c] # <<>>
      /\ inbox' = [inbox EXCEPT ![c] = Append(@, Head(down[c]))]
      /\ down' = [down EXCEPT ![c] = Tail(@)]
      /\ UNCHANGED <<queue, gw, handler, up>>
  BY HubTypes DEF CopiesBack
<1>2. ~Chats(c) /\ DirectInv(c)
  BY <1>1 DEF IndInv, ClientInv, ChatInv
<1>3. up[c] = <<>> /\ down[c] = <<m>> /\ inbox[c] = <<>>
      /\ client[c] \notin {"start", "dialed"} /\ m \in Frames
  BY <1>1, <1>2, HubTypes, FrameTypes DEF DirectInv
<1> HIDE DEF m
<1>4. /\ Tail(<<m>>) = <<>> /\ Append(<<>>, Head(<<m>>)) = <<m>>
      /\ <<>> \in Seq(Frames)
  OBVIOUS
<1>5. inbox' = [inbox EXCEPT ![c] = <<m>>] /\ down' = [down EXCEPT ![c] = <<>>]
  BY <1>1, <1>3, <1>4
<1>6. /\ inbox' \in [Clients -> {<<>>} \cup {<<g>> : g \in Frames}]
      /\ inbox'[c] = <<m>> /\ \A d \in Clients : d # c => inbox'[d] = inbox[d]
  BY <1>3, <1>5 DEF IndInv, TypeOK
<1>7. /\ down' \in [Conns -> Seq(Frames)] /\ down'[c] = <<>>
      /\ \A k \in Conns : k # c => down'[k] = down[k]
  BY <1>1, <1>4, <1>5 DEF IndInv, TypeOK
<1>8. TypeOK'
  BY <1>1, <1>6, <1>7 DEF IndInv, TypeOK, clientVars
<1>9. DirectInv(c)'
  BY <1>1, <1>2, <1>3, <1>6, <1>7, ClientsStay, SamePlan DEF DirectInv, m
<1> QED
  BY <1>1, <1>2, <1>6, <1>7, <1>8, <1>9, ClientsStay, DirectStep

\* A connection is lost.
LEMMA DropStep ==
  ASSUME IndInv, NEW k \in Conns, Drop(k)
  PROVE  IndInv'
<1>1. /\ drops' \in 0..MaxDrops /\ gw[k] \in {"shaking", "ready"} /\ Closed(k)
      /\ UNCHANGED <<plan, clientVars, inbox, stack, queue>> /\ TypeOK
  BY WebSocketAssumption DEF Drop, IndInv, TypeOK
<1>2. /\ gw' \in [Conns -> {"none", "shaking", "ready", "closed"}]
      /\ handler' \in [Conns -> {"none", "handshake", "serving", "ended"}]
      /\ up' \in [Conns -> Seq(Frames)] /\ down' \in [Conns -> Seq(Frames)]
      /\ gw'[k] = "closed" /\ handler'[k] \in {"none", "ended"}
      /\ up'[k] = <<>> /\ down'[k] = <<>>
      /\ \A l \in Conns : l # k => gw'[l] = gw[l] /\ handler'[l] = handler[l]
                                   /\ up'[l] = up[l] /\ down'[l] = down[l]
  BY <1>1, ClosedStep
<1>3. TypeOK'
  BY <1>1, <1>2 DEF TypeOK, clientVars
<1>4. CASE k = "shared"
  <2>1. HubInv'
    BY <1>2, <1>4 DEF HubInv
  <2>2. \A c \in Clients : gw'[c] = gw[c] /\ handler'[c] = handler[c]
                           /\ up'[c] = up[c] /\ down'[c] = down[c]
    BY <1>2, <1>4, HubTypes
  <2>3. ASSUME NEW c \in Clients, Chats(c)
        PROVE  Transit(queue', up'["shared"], down'["shared"], inbox'[c], c, client'[c])
    <3>1. Transit(queue, up["shared"], down["shared"], inbox[c], c, client[c])
      BY <2>3, HubTypes
    <3>2. Transit(queue, <<>>, <<>>, inbox[c], c, client[c])
      BY <3>1, NoFrame, TransitLost
    <3> QED
      BY <1>1, <1>2, <1>4, <3>2, ClientsStay
  <2> QED
    BY <1>1, <1>3, <2>1, <2>2, <2>3, ClientsStay, HubStep DEF IndInv
<1>5. CASE k # "shared"
  <2>1. k \in Clients
    BY <1>5 DEF Conns
  <2>2. ~Chats(k) /\ DirectInv(k)
    BY <1>1, <2>1 DEF IndInv, ClientInv, ChatInv
  <2>3. DirectInv(k)'
    BY <1>1, <1>2, <2>1, <2>2, ClientsStay, SamePlan DEF DirectInv
  <2> QED
    BY <1>1, <1>2, <1>3, <2>1, <2>2, <2>3, ClientsStay, DirectStep
<1> QED
  BY <1>4, <1>5

-----------------------------------------------------------------------------
(* The theorems *)

\* Every step preserves the invariant.
LEMMA NextIndInv == IndInv /\ [Next]_vars => IndInv'
<1> SUFFICES ASSUME IndInv, [Next]_vars PROVE IndInv'
  OBVIOUS
<1>1. CASE ServiceStarts \/ UNCHANGED vars
  <2>1. /\ UNCHANGED <<plan, client, expired, got, inbox, queue, gw, handler, up, down, drops>>
        /\ stack' \in 0..2
    BY <1>1 DEF ServiceStarts, clientVars, connVars, vars, IndInv, TypeOK
  <2>2. TypeOK' /\ OwnReply'
    BY <2>1, SamePlan DEF IndInv, TypeOK, OwnReply
  <2>3. HubInv'
    BY <2>1, SamePlan DEF IndInv, HubInv
  <2> QED
    BY <2>1, <2>2, <2>3, HubStep, HubTypes DEF IndInv
<1>2. CASE Backend
  BY <1>2, HandshakeStep, ServeStep, EchoStep DEF Backend
<1>3. CASE Gateway
  BY <1>3, HubDialsStep, HubReadyStep, HubForwardsStep, HubDeliversStep, CopiesBackStep
     DEF Gateway
<1>4. ASSUME NEW c \in Clients, Client(c) \/ Timeout(c) PROVE IndInv'
  BY <1>4, DialStep, WriteStep, ReadStep, TimeoutStep, ExitsStep DEF Client, Refused
<1>5. ASSUME NEW k \in Conns, Drop(k) PROVE IndInv'
  BY <1>5, DropStep
<1> QED
  BY <1>1, <1>2, <1>3, <1>4, <1>5 DEF Next, Idle

\* The invariant of the connections holds throughout
\* (mock-backend/main.go:142-222, smoke/main.go:27-75).
THEOREM Inductive == Spec => []IndInv
BY InitIndInv, NextIndInv, PTL DEF Spec

\* Every piece of the state keeps its type, and no client is ever sent a
\* second frame.
THEOREM TypeCorrect == Spec => []TypeOK
BY Inductive, PTL DEF IndInv

\* A client that reports success has read the answer to its own message,
\* whoever shares the connection (mock-backend/main.go:202-222,
\* smoke/main.go:55-72).
THEOREM RepliesAreOwn == Spec => []OwnReply
BY Inductive, PTL DEF IndInv

\* No envelope is taken for a handshake and no handshake for an envelope,
\* however often the connection is lost (mock-backend/main.go:165-176).
THEOREM HandshakeIsHeld == Spec => []HandshakeHeld
<1>1. IndInv => HandshakeHeld
  <2> SUFFICES ASSUME IndInv PROVE HandshakeHeld
    OBVIOUS
  <2>1. handler["shared"] = "handshake" =>
          up["shared"] = <<Handshake>> /\ down["shared"] = <<>> /\ gw["shared"] # "ready"
    BY HubTypes DEF IndInv, HubInv, TypeOK
  <2>2. ASSUME handler["shared"] = "serving" PROVE Handshake \notin Range(up["shared"])
    <3>1. up["shared"] = <<>> \/ up["shared"] \in Seq(Envelopes)
      BY <2>2, HubTypes DEF IndInv, HubInv, TypeOK
    <3>2. \A n \in DOMAIN up["shared"] : up["shared"][n] \in Envelopes
      BY <3>1
    <3> QED
      BY <3>2, EnvelopeKinds, HubTypes DEF Range
  <2> QED
    BY <2>1, <2>2 DEF HandshakeHeld
<1> QED
  BY <1>1, Inductive, PTL
=============================================================================
