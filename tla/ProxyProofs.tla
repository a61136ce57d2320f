----------------------------- MODULE ProxyProofs -----------------------------
(***************************************************************************)
(* The order of what is relayed, for any depth of the queues and any number *)
(* of messages, connections and failures.                                   *)
(*                                                                         *)
(* A message passes through stages, each of which holds some: the bundles,  *)
(* the item of bp_send_worker, outgoing, the item of sock_worker and the    *)
(* sockets from the oldest to the newest.  All that a stage holds was given  *)
(* before anything in a later one, and a step only takes the first of a     *)
(* stage to the one before it.  This needs what keeps the connections apart:*)
(* only the last one made is the client's, and the proxy accepts them in    *)
(* the order they were made.                                                *)
(***************************************************************************)
EXTENDS Proxy, SequenceTheorems, TLAPS

Msg == Nat \ {0}

ConnShape == [up : Seq(Msg), down : Seq(Msg), acc : BOOLEAN,
              ceof : BOOLEAN, crd : BOOLEAN, peof : BOOLEAN, reset : BOOLEAN]

Typed ==
  /\ conns \in Seq(ConnShape) /\ Len(conns) <= MaxConn
  /\ sock_fd \in 0 .. Len(conns) /\ sock_conn \in 0 .. Len(conns)
  /\ accepted \in Seq(Msg) /\ bundles \in Seq(Msg) /\ outgoing \in Seq(Msg)
  /\ delivered \in Seq(Msg) /\ incoming \in Seq(Msg)
  /\ bps \in Nat /\ bpr \in Nat /\ item \in Nat /\ nup \in Nat /\ ndown \in Nat /\ faults \in Nat /\ nsig \in Nat
  /\ (sw \in {"push", "send"} => item # 0) /\ (snd # "idle" => nup # 0)

(* The client's connection is the last one, the only one it has not shut     *)
(* down; those that wait to be accepted came after the one that was.         *)
Links ==
  /\ sock_fd # 0 => sock_fd = Len(conns)
  /\ \A c \in DOMAIN conns : ~conns[c].ceof => c = sock_fd
  /\ sw # "top" => sock_conn # 0
  /\ \A c \in Backlog : c > sock_conn

(* A connection that the proxy reads or will read. *)
Live(c) == c = sock_conn \/ c \in Backlog

UpIndex == 1 .. 4 + MaxConn

UpStage(n) ==
  CASE n = 1 -> Range(bundles)
    [] n = 2 -> {bps} \ {0}
    [] n = 3 -> Range(outgoing)
    [] n = 4 -> IF sw = "push" THEN {item} ELSE {}
    [] OTHER -> IF n - 4 \in DOMAIN conns /\ Live(n - 4) THEN Range(conns[n - 4].up) ELSE {}

Down == IF sock_fd = 0 THEN <<>> ELSE conns[sock_fd].down
Up == IF sock_fd = 0 THEN <<>> ELSE conns[sock_fd].up

DownIndex == 1 .. 5

DownStage(n) ==
  CASE n = 1 -> Range(delivered)
    [] n = 2 -> Range(Down)
    [] n = 3 -> IF sw = "send" THEN {item} ELSE {}
    [] n = 4 -> Range(incoming)
    [] OTHER -> {bpr} \ {0}

UpStages == [n \in UpIndex |-> UpStage(n)]
DownStages == [n \in DownIndex |-> DownStage(n)]

(* What a stage holds comes before what a later one does. *)
Chain(I, F) == \A m, n \in I : m < n => \A x \in F[m], y \in F[n] : x < y

UpOrder ==
  /\ Increasing(bundles) /\ Increasing(outgoing)
  /\ \A c \in DOMAIN conns : Increasing(conns[c].up) /\ Range(conns[c].up) \subseteq Range(accepted)
  /\ Chain(UpIndex, UpStages)
  /\ \A n \in UpIndex : UpStages[n] \subseteq Range(accepted)
  /\ \A x \in Range(accepted) : x <= nup /\ (snd # "idle" => x < nup)

DownOrder ==
  /\ Increasing(delivered) /\ Increasing(incoming) /\ Increasing(Down)
  /\ Chain(DownIndex, DownStages)
  /\ \A n \in DownIndex : DownStages[n] \subseteq 1 .. ndown

(* As long as nothing fails there is one connection, and no one shuts it down. *)
Calm == faults = 0 /\ nsig = 0

CalmOK ==
  Calm =>
    /\ up /\ sig = "none"
    /\ \A c \in DOMAIN conns : ~conns[c].peof /\ ~conns[c].ceof /\ ~conns[c].reset /\ ~conns[c].crd
    /\ snd # "fail" /\ (snd = "send" => sock_fd # 0)
    /\ rcv \notin {"drop", "drop_end", "ended"}
    /\ (rcv \in {"recv", "peek", "read"} => sock_fd # 0)
    /\ (rcv = "peek" => blocked = sock_fd)

Pushing == IF sw = "push" THEN Held(item) ELSE <<>>
Sending == IF sw = "send" THEN Held(item) ELSE <<>>
First(n) == [i \in 1 .. n |-> i]

Queues ==
  Calm =>
    /\ accepted = bundles \o Held(bps) \o outgoing \o Pushing \o Up
    /\ First(ndown) = delivered \o Down \o Sending \o incoming \o Held(bpr)

RelayInv == Typed /\ Links /\ UpOrder /\ DownOrder /\ CalmOK /\ Queues

-----------------------------------------------------------------------------
(* Sequences of messages.                                                   *)

LEMMA AppendedRange ==
  ASSUME NEW s \in Seq(Msg), NEW x \in Msg
  PROVE  Append(s, x) \in Seq(Msg) /\ Range(Append(s, x)) = Range(s) \cup {x}
<1>1. Append(s, x) \in Seq(Msg) /\ DOMAIN Append(s, x) = 1 .. Len(s) + 1 /\ DOMAIN s = 1 .. Len(s) /\ Len(s) \in Nat
  OBVIOUS
<1>2. \A i \in 1 .. Len(s) : Append(s, x)[i] = s[i]
  OBVIOUS
<1>3. Append(s, x)[Len(s) + 1] = x
  OBVIOUS
<1>4. Range(Append(s, x)) \subseteq Range(s) \cup {x}
  BY <1>1, <1>2, <1>3 DEF Range
<1>5. Range(s) \cup {x} \subseteq Range(Append(s, x))
  BY <1>1, <1>2, <1>3 DEF Range
<1> QED
  BY <1>1, <1>4, <1>5

LEMMA AppendedOrder ==
  ASSUME NEW s \in Seq(Msg), NEW x \in Msg, Increasing(s), \A y \in Range(s) : y < x
  PROVE  Increasing(Append(s, x))
<1>1. DOMAIN Append(s, x) = 1 .. Len(s) + 1 /\ DOMAIN s = 1 .. Len(s) /\ Len(s) \in Nat
  OBVIOUS
<1>2. \A i \in 1 .. Len(s) : Append(s, x)[i] = s[i] /\ s[i] \in Nat /\ s[i] < x
  BY <1>1 DEF Range, Msg
<1>3. Append(s, x)[Len(s) + 1] = x
  OBVIOUS
<1> QED
  BY <1>1, <1>2, <1>3 DEF Increasing

LEMMA HeadFirst ==
  ASSUME NEW s \in Seq(Msg), s # <<>>, Increasing(s)
  PROVE  /\ Head(s) \in Range(s) /\ Head(s) \in Msg
         /\ Tail(s) \in Seq(Msg) /\ Range(Tail(s)) \subseteq Range(s) /\ Increasing(Tail(s))
         /\ \A y \in Range(Tail(s)) : Head(s) < y
<1>1. Len(s) \in Nat \ {0} /\ DOMAIN s = 1 .. Len(s) /\ Head(s) = s[1] /\ Head(s) \in Msg /\ 1 \in DOMAIN s
  OBVIOUS
<1>2. Tail(s) \in Seq(Msg) /\ DOMAIN Tail(s) = 1 .. Len(s) - 1
  BY <1>1
<1>3. \A i \in 1 .. Len(s) - 1 : Tail(s)[i] = s[i + 1] /\ i + 1 \in DOMAIN s
  BY <1>1
<1>4. Increasing(Tail(s))
  BY <1>1, <1>2, <1>3 DEF Increasing
<1>5. Range(Tail(s)) \subseteq Range(s)
  BY <1>2, <1>3 DEF Range
<1>6. \A y \in Range(Tail(s)) : Head(s) < y
  BY <1>1, <1>2, <1>3 DEF Range, Increasing
<1>7. Head(s) \in Range(s)
  BY <1>1 DEF Range
<1> QED
  BY <1>1, <1>2, <1>4, <1>5, <1>6, <1>7

LEMMA EmptyOrder == Range(<<>>) = {} /\ Increasing(<<>>) /\ <<>> \in Seq(Msg)
  BY DEF Range, Increasing

LEMMA MsgRange ==
  ASSUME NEW s \in Seq(Msg) PROVE Range(s) \subseteq Msg
<1>1. DOMAIN s = 1 .. Len(s)
  OBVIOUS
<1> QED
  BY <1>1 DEF Range

-----------------------------------------------------------------------------
(* Stages.                                                                  *)

(* Some of what the stages hold is lost. *)
LEMMA ChainLess ==
  ASSUME NEW I, NEW F, NEW G, Chain(I, F), \A n \in I : G[n] \subseteq F[n]
  PROVE  Chain(I, G)
  BY DEF Chain

(* The first of a stage goes to the one before it that is not empty. *)
Moved(I, F, G, k, j, x) ==
  /\ I \subseteq Int /\ k \in I /\ j \in I /\ k < j /\ Chain(I, F)
  /\ x \in F[j] /\ \A n \in I : k < n /\ n < j => F[n] = {}
  /\ \A n \in I : n # k => G[n] \subseteq F[n]
  /\ G[k] \subseteq F[k] \cup {x} /\ \A y \in G[j] : x < y

LEMMA ChainMoved ==
  ASSUME NEW I, NEW F, NEW G, NEW k, NEW j, NEW x, Moved(I, F, G, k, j, x)
  PROVE  Chain(I, G)
<1> USE DEF Moved
<1> SUFFICES ASSUME NEW m \in I, NEW n \in I, m < n, NEW a \in G[m], NEW b \in G[n] PROVE a < b
  BY DEF Chain
<1>1. CASE m # k /\ n # k
  BY <1>1 DEF Chain
<1>0. m \in Int /\ n \in Int /\ k \in Int /\ j \in Int
  OBVIOUS
<1>2. CASE n = k
  <2>0. m # k /\ m < j
    BY <1>0, <1>2
  <2>1. a \in F[m] /\ (b \in F[k] \/ b = x) /\ m < j
    BY <1>2, <2>0, Zenon
  <2> QED
    BY <1>2, <2>1 DEF Chain
<1>3. CASE m = k
  <2>0. n # k
    BY <1>0, <1>3
  <2>1. b \in F[n] /\ (a \in F[k] \/ a = x)
    BY <1>3, <2>0, Zenon
  <2>2. CASE a \in F[k]
    BY <1>3, <2>1, <2>2 DEF Chain
  <2>3. CASE a = x
    <3>1. ~(n < j)
      BY <1>3, <2>1
    <3>2. CASE n = j
      BY <2>3, <3>2
    <3>3. CASE j < n
      BY <2>1, <2>3, <3>3 DEF Chain
    <3> QED
      BY <3>1, <3>2, <3>3
  <2> QED
    BY <2>1, <2>2, <2>3
<1> QED
  BY <1>1, <1>2, <1>3

(* A stage is given something that comes after all there is. *)
Given(I, F, G, k, x) ==
  /\ I \subseteq Int /\ k \in I /\ Chain(I, F)
  /\ \A n \in I : (\A y \in F[n] : y < x) /\ (k < n => F[n] = {})
  /\ \A n \in I : n # k => G[n] \subseteq F[n]
  /\ G[k] \subseteq F[k] \cup {x}

LEMMA ChainGiven ==
  ASSUME NEW I, NEW F, NEW G, NEW k, NEW x, Given(I, F, G, k, x)
  PROVE  Chain(I, G)
<1> USE DEF Given
<1> SUFFICES ASSUME NEW m \in I, NEW n \in I, m < n, NEW a \in G[m], NEW b \in G[n] PROVE a < b
  BY DEF Chain
<1>1. m # k
  OBVIOUS
<1>2. a \in F[m]
  BY <1>1
<1>3. b \in F[n] \/ b = x
  OBVIOUS
<1> QED
  BY <1>2, <1>3 DEF Chain

LEMMA UpStagesAre ==
  /\ UpIndex \subseteq Int /\ 1 .. 4 \subseteq UpIndex
  /\ UpStages[1] = Range(bundles) /\ UpStages[2] = {bps} \ {0} /\ UpStages[3] = Range(outgoing)
  /\ UpStages[4] = IF sw = "push" THEN {item} ELSE {}
  /\ \A c \in 1 .. MaxConn :
       4 + c \in UpIndex /\ UpStages[4 + c] = IF c \in DOMAIN conns /\ Live(c) THEN Range(conns[c].up) ELSE {}
  /\ \A n \in UpIndex : n \in {1, 2, 3, 4} \/ \E c \in 1 .. MaxConn : n = 4 + c
<1>1. MaxConn \in Nat
  BY ProxyAssumption
<1>2. UpIndex \subseteq Int /\ 1 .. 4 \subseteq UpIndex
  BY <1>1 DEF UpIndex
<1>3. UpStages[1] = Range(bundles) /\ UpStages[2] = {bps} \ {0} /\ UpStages[3] = Range(outgoing)
  BY <1>2 DEF UpStages, UpStage
<1>4. UpStages[4] = IF sw = "push" THEN {item} ELSE {}
  BY <1>2 DEF UpStages, UpStage
<1>5. ASSUME NEW c \in 1 .. MaxConn
      PROVE  4 + c \in UpIndex /\ UpStages[4 + c] = IF c \in DOMAIN conns /\ Live(c) THEN Range(conns[c].up) ELSE {}
  <2>1. 4 + c \in UpIndex /\ 4 + c \notin {1, 2, 3, 4} /\ (4 + c) - 4 = c
    BY <1>1 DEF UpIndex
  <2> QED
    BY <2>1 DEF UpStages, UpStage
<1>6. ASSUME NEW n \in UpIndex, n \notin {1, 2, 3, 4}
      PROVE  \E c \in 1 .. MaxConn : n = 4 + c
  <2>1. n - 4 \in 1 .. MaxConn /\ n = 4 + (n - 4)
    BY <1>1, <1>6 DEF UpIndex
  <2> QED
    BY <2>1
<1> QED
  BY <1>2, <1>3, <1>4, <1>5, <1>6

LEMMA UpStagesNext ==
  /\ UpStages'[1] = Range(bundles') /\ UpStages'[2] = {bps'} \ {0} /\ UpStages'[3] = Range(outgoing')
  /\ UpStages'[4] = IF sw' = "push" THEN {item'} ELSE {}
  /\ \A c \in 1 .. MaxConn :
       UpStages'[4 + c] = IF c \in DOMAIN conns' /\ (c = sock_conn' \/ c \in Backlog') THEN Range(conns'[c].up) ELSE {}
<1>3. UpStages'[1] = Range(bundles') /\ UpStages'[2] = {bps'} \ {0} /\ UpStages'[3] = Range(outgoing')
  BY UpStagesAre DEF UpStages, UpStage
<1>4. UpStages'[4] = IF sw' = "push" THEN {item'} ELSE {}
  BY UpStagesAre DEF UpStages, UpStage
<1>5. ASSUME NEW c \in 1 .. MaxConn
      PROVE  UpStages'[4 + c] = IF c \in DOMAIN conns' /\ (c = sock_conn' \/ c \in Backlog') THEN Range(conns'[c].up) ELSE {}
  <2>1. 4 + c \in UpIndex /\ 4 + c \notin {1, 2, 3, 4} /\ (4 + c) - 4 = c
    BY ProxyAssumption DEF UpIndex
  <2> QED
    BY <2>1 DEF UpStages, UpStage, Live
<1> QED
  BY <1>3, <1>4, <1>5

LEMMA DownStagesAre ==
  /\ DownStages[1] = Range(delivered) /\ DownStages[2] = Range(Down)
  /\ DownStages[3] = IF sw = "send" THEN {item} ELSE {}
  /\ DownStages[4] = Range(incoming) /\ DownStages[5] = {bpr} \ {0}
  BY DEF DownStages, DownStage, DownIndex

LEMMA DownStagesNext ==
  /\ DownStages'[1] = Range(delivered') /\ DownStages'[2] = Range(Down')
  /\ DownStages'[3] = IF sw' = "send" THEN {item'} ELSE {}
  /\ DownStages'[4] = Range(incoming') /\ DownStages'[5] = {bpr'} \ {0}
  BY DEF DownStages, DownStage, DownIndex

LEMMA DownIndexIs == DownIndex = {1, 2, 3, 4, 5} /\ DownIndex \subseteq Int
  BY DEF DownIndex

LEMMA TypedFacts ==
  ASSUME Typed
  PROVE  /\ DOMAIN conns = 1 .. Len(conns) /\ Len(conns) \in Nat /\ DOMAIN conns \subseteq 1 .. MaxConn
         /\ \A c \in DOMAIN conns : conns[c] \in ConnShape /\ conns[c].up \in Seq(Msg) /\ conns[c].down \in Seq(Msg)
         /\ Up \in Seq(Msg) /\ Down \in Seq(Msg)
<1>1. DOMAIN conns = 1 .. Len(conns) /\ Len(conns) \in Nat
  BY DEF Typed
<1>2. DOMAIN conns \subseteq 1 .. MaxConn
  BY <1>1, ProxyAssumption DEF Typed
<1>3. \A c \in DOMAIN conns : conns[c] \in ConnShape
  BY <1>1 DEF Typed
<1>4. \A c \in DOMAIN conns : conns[c].up \in Seq(Msg) /\ conns[c].down \in Seq(Msg)
  BY <1>3 DEF ConnShape
<1>5. sock_fd # 0 => sock_fd \in DOMAIN conns
  BY <1>1 DEF Typed
<1>6. Up \in Seq(Msg) /\ Down \in Seq(Msg)
  BY <1>4, <1>5, EmptyOrder DEF Up, Down
<1> QED
  BY <1>1, <1>2, <1>3, <1>4, <1>6

(* A step that at most loses messages on their way to the BPA ... *)
LEMMA UpLess ==
  ASSUME Typed, Typed', UpOrder, bundles' = bundles, accepted' = accepted, bps' \in {bps, 0},
         outgoing' = outgoing \/ outgoing' = <<>>, sw' = "push" => sw = "push" /\ item' = item,
         \A c \in DOMAIN conns' :
           \/ conns'[c].up = <<>>
           \/ /\ c \in DOMAIN conns /\ conns'[c].up = conns[c].up
              /\ (c = sock_conn' \/ c \in Backlog') => Live(c),
         nup' >= nup, snd' # "idle" => snd # "idle" \/ nup' > nup
  PROVE  UpOrder'
<1>1. ASSUME NEW n \in UpIndex PROVE UpStages'[n] \subseteq UpStages[n]
  <2>1. CASE n \in {1, 2, 3, 4}
    BY <2>1, UpStagesAre, UpStagesNext, EmptyOrder
  <2>2. CASE \E c \in 1 .. MaxConn : n = 4 + c
    BY <2>2, UpStagesAre, UpStagesNext, EmptyOrder
  <2> QED
    BY <2>1, <2>2, UpStagesAre
<1>2. Chain(UpIndex, UpStages')
  BY <1>1, ChainLess DEF UpOrder
<1>3. \A n \in UpIndex : UpStages'[n] \subseteq Range(accepted')
  BY <1>1 DEF UpOrder
<1>4. \A c \in DOMAIN conns' : Increasing(conns'[c].up) /\ Range(conns'[c].up) \subseteq Range(accepted')
  BY EmptyOrder DEF UpOrder
<1>5. \A x \in Range(accepted') : x <= nup' /\ (snd' # "idle" => x < nup')
  <2>1. Range(accepted) \subseteq Nat /\ nup \in Nat /\ nup' \in Nat
    BY MsgRange DEF Typed, Msg
  <2> QED
    BY <2>1 DEF UpOrder
<1>6. Increasing(bundles') /\ Increasing(outgoing')
  BY EmptyOrder DEF UpOrder
<1> QED
  BY <1>2, <1>3, <1>4, <1>5, <1>6 DEF UpOrder

(* Nothing moves towards the BPA. *)
LEMMA UpSame ==
  ASSUME Typed, Typed', UpOrder, UNCHANGED <<bundles, accepted, bps, outgoing, conns, sock_conn, nup, snd>>,
         Backlog' = Backlog, sw' = "push" => sw = "push" /\ item' = item
  PROVE  UpOrder'
<1>1. \A c \in DOMAIN conns' : /\ c \in DOMAIN conns /\ conns'[c].up = conns[c].up
                               /\ (c = sock_conn' \/ c \in Backlog') => Live(c)
  BY DEF Live
<1>2. nup' >= nup
  BY DEF Typed
<1> QED
  BY <1>1, <1>2, UpLess

(* ... and one that at most loses messages on their way from it. *)
LEMMA DownLess ==
  ASSUME Typed, Typed', DownOrder, delivered' = delivered, incoming' = incoming \/ incoming' = <<>>,
         sw' = "send" => sw = "send" /\ item' = item, bpr' \in {bpr, 0}, ndown' >= ndown,
         Down' = Down \/ Down' = <<>>
  PROVE  DownOrder'
<1>1. ASSUME NEW n \in DownIndex PROVE DownStages'[n] \subseteq DownStages[n]
  BY DownStagesAre, DownStagesNext, DownIndexIs, EmptyOrder
<1>2. Chain(DownIndex, DownStages')
  BY <1>1, ChainLess DEF DownOrder
<1>3. ASSUME NEW n \in DownIndex PROVE DownStages'[n] \subseteq 1 .. ndown'
  <2>1. ndown \in Nat /\ ndown' \in Nat /\ DownStages[n] \subseteq 1 .. ndown
    BY DEF DownOrder, Typed
  <2>2. 1 .. ndown \subseteq 1 .. ndown'
    BY <2>1
  <2> QED
    BY <1>1, <2>1, <2>2
<1>4. Increasing(delivered') /\ Increasing(incoming') /\ Increasing(Down')
  BY EmptyOrder DEF DownOrder
<1> QED
  BY <1>2, <1>3, <1>4 DEF DownOrder

-----------------------------------------------------------------------------
(* The steps.                                                               *)

(* All that CalmOK does not say. *)
Core == Typed /\ Links /\ UpOrder /\ DownOrder /\ Queues

(* Failures and signals are not forgotten. *)
Later == faults' \in Nat /\ nsig' \in Nat /\ faults' >= faults /\ nsig' >= nsig

LEMMA CalmBefore ==
  ASSUME Typed, Later, Calm' PROVE Calm
  BY DEF Typed, Later, Calm

(* One connection changes. *)
ConnIs(c, v) ==
  /\ conns' \in Seq(ConnShape) /\ Len(conns') = Len(conns) /\ DOMAIN conns' = DOMAIN conns
  /\ conns'[c] = v /\ \A d \in DOMAIN conns : d # c => conns'[d] = conns[d]

LEMMA ConnSet ==
  ASSUME Typed, NEW c \in DOMAIN conns, NEW v \in ConnShape, conns' = [conns EXCEPT ![c] = v]
  PROVE  ConnIs(c, v)
<1>1. conns \in Seq(ConnShape) /\ c \in 1 .. Len(conns)
  BY TypedFacts DEF Typed
<1>2. conns' \in Seq(ConnShape) /\ Len(conns') = Len(conns)
  BY <1>1, ExceptSeq
<1>3. DOMAIN conns' = DOMAIN conns /\ conns'[c] = v /\ \A d \in DOMAIN conns : d # c => conns'[d] = conns[d]
  OBVIOUS
<1> QED
  BY <1>2, <1>3 DEF ConnIs

(* Nothing is given, taken or moved. *)
Quiet ==
  /\ UNCHANGED <<conns, sock_fd, sock_conn, accepted, delivered, bundles, outgoing, incoming, bps, bpr, item, ndown>>
  /\ Later /\ nup' \in Nat /\ nup' >= nup
  /\ snd' # "idle" => (snd # "idle" /\ nup' = nup) \/ nup' > nup
  /\ sw' = sw \/ (sw' \in {"pop", "recv"} /\ sw = "top" /\ sock_conn # 0)

LEMMA QuietStep ==
  ASSUME Core, Quiet PROVE Core'
<1>1. Typed'
  BY DEF Core, Quiet, Later, Typed
<1>2. Links'
  BY DEF Core, Quiet, Links, Backlog
<1>3. UpOrder'
  <2>1. \A c \in DOMAIN conns' : /\ c \in DOMAIN conns /\ conns'[c].up = conns[c].up
                                 /\ (c = sock_conn' \/ c \in Backlog') => Live(c)
    BY DEF Quiet, Live, Backlog
  <2>2. nup \in Nat /\ nup' \in Nat
    BY DEF Core, Typed, Quiet
  <2> QED
    BY <1>1, <2>1, <2>2, UpLess DEF Core, Quiet
<1>4. DownOrder'
  <2>1. Down' = Down /\ ndown \in Nat
    BY DEF Core, Typed, Quiet, Down
  <2> QED
    BY <1>1, <2>1, DownLess DEF Core, Quiet
<1>5. Queues'
  <2> SUFFICES ASSUME Calm' PROVE Queues'
    BY DEF Queues
  <2>1. Calm
    BY CalmBefore DEF Core, Quiet
  <2>2. Up' = Up /\ Down' = Down /\ Pushing' = Pushing /\ Sending' = Sending
    BY DEF Quiet, Up, Down, Pushing, Sending, Held
  <2> QED
    BY <2>1, <2>2 DEF Core, Queues, Quiet, Held, First
<1> QED
  BY <1>1, <1>2, <1>3, <1>4, <1>5 DEF Core

LEMMA QuietActions ==
  ASSUME Core,
         \/ SendLock \/ (\E th \in {"snd", "rcv"}, pl \in {"idle", "send", "recv", "check"} :
                           (th = "snd" \/ pl \in {"recv", "check"}) /\ (ConnectKeep(th, pl) \/ ConnectTimeout(th, pl)))
         \/ SendFails \/ RecvCheck \/ RecvLock \/ RecvPeek \/ SigStop \/ SigGetFd \/ ProxyStarts \/ SockPoll
  PROVE  Quiet
<1> USE DEF client, proxy, world
<1>0. nup \in Nat /\ faults \in Nat /\ nsig \in Nat
  BY DEF Core, Typed
<1>1. CASE SendLock
  BY <1>0, <1>1 DEF SendLock, Quiet, Later
<1>2. ASSUME NEW th, NEW pl, ConnectKeep(th, pl) \/ ConnectTimeout(th, pl) PROVE Quiet
  BY <1>0, <1>2 DEF ConnectKeep, ConnectTimeout, ConnectedTo, Quiet, Later
<1>3. CASE SendFails \/ RecvCheck \/ RecvLock
  BY <1>0, <1>3 DEF SendFails, RecvCheck, RecvLock, Quiet, Later
<1>4. CASE RecvPeek \/ SigStop \/ SigGetFd
  BY <1>0, <1>4 DEF RecvPeek, SigStop, SigGetFd, Quiet, Later
<1>5. CASE ProxyStarts \/ SockPoll
  BY <1>0, <1>5 DEF ProxyStarts, SockPoll, Quiet, Later
<1> QED
  BY <1>1, <1>2, <1>3, <1>4, <1>5

(* A new connection is the last one. *)
LEMMA NewStep ==
  ASSUME Core, NEW th, NEW pl, ConnectNew(th, pl)
  PROVE  Core'
<1> DEFINE c == Len(conns) + 1
<1>1. /\ sock_fd = 0 /\ sock_fd' = c /\ conns' = Append(conns, NewConn) /\ Len(conns) < MaxConn
      /\ UNCHANGED <<accepted, delivered, sock_conn, sw, item, outgoing, incoming, bps, bpr, bundles, nup, ndown, faults, nsig>>
      /\ snd' # "idle" => snd # "idle"
  BY DEF ConnectNew, ConnectedTo, proxy, world
<1>2. NewConn \in ConnShape /\ NewConn.up = <<>> /\ NewConn.down = <<>>
  BY EmptyOrder DEF NewConn, ConnShape
<1>3. /\ conns \in Seq(ConnShape) /\ Len(conns) \in Nat /\ DOMAIN conns = 1 .. Len(conns) /\ MaxConn \in Nat
  BY ProxyAssumption, TypedFacts DEF Core, Typed
<1>4. /\ conns' \in Seq(ConnShape) /\ Len(conns') = c /\ DOMAIN conns' = 1 .. c /\ conns'[c] = NewConn
      /\ \A d \in DOMAIN conns : conns'[d] = conns[d]
  BY <1>1, <1>2, <1>3, AppendProperties, LenProperties
<1>5. Typed'
  BY <1>1, <1>3, <1>4 DEF Core, Typed
<1>6. \A d \in DOMAIN conns' : d \in DOMAIN conns \/ d = c
  BY <1>3, <1>4
<1>7. Links'
  <2>1. \A d \in DOMAIN conns' : ~conns'[d].ceof => d = sock_fd'
    BY <1>1, <1>3, <1>4, <1>6 DEF Core, Links
  <2>2. \A d \in Backlog' : d > sock_conn'
    BY <1>1, <1>3, <1>4, <1>6 DEF Core, Links, Backlog, Typed
  <2> QED
    BY <1>1, <1>4, <2>1, <2>2 DEF Core, Links
<1>8. UpOrder'
  <2>1. \A d \in DOMAIN conns' :
           \/ conns'[d].up = <<>>
           \/ /\ d \in DOMAIN conns /\ conns'[d].up = conns[d].up
              /\ (d = sock_conn' \/ d \in Backlog') => Live(d)
    BY <1>1, <1>2, <1>4, <1>6 DEF Live, Backlog
  <2>2. nup \in Nat
    BY DEF Core, Typed
  <2> QED
    BY <1>1, <1>5, <2>1, <2>2, UpLess DEF Core
<1>9. Up' = <<>> /\ Down' = <<>> /\ Up = <<>> /\ Down = <<>>
  BY <1>1, <1>2, <1>3, <1>4 DEF Up, Down
<1>10. DownOrder'
  <2>1. ndown \in Nat
    BY DEF Core, Typed
  <2> QED
    BY <1>1, <1>5, <1>9, <2>1, DownLess DEF Core
<1>11. Queues'
  BY <1>1, <1>9 DEF Core, Queues, Calm, Pushing, Sending, Held, First
<1> QED
  BY <1>5, <1>7, <1>8, <1>10, <1>11 DEF Core

(* Connections are accepted, reset or closed and messages may be lost; not    *)
(* while all is well.                                                         *)
Lossy ==
  /\ conns' \in Seq(ConnShape) /\ Len(conns') = Len(conns) /\ sock_fd' \in {sock_fd, 0}
  /\ \A d \in DOMAIN conns :
       /\ conns'[d].up = conns[d].up \/ conns'[d].up = <<>>
       /\ conns'[d].down = conns[d].down \/ conns'[d].down = <<>>
       /\ ~conns'[d].ceof => d = sock_fd'
       /\ (d = sock_conn' \/ d \in Backlog') => Live(d)
  /\ sock_conn' \in 0 .. Len(conns) /\ (\A d \in Backlog' : d > sock_conn') /\ (sw' # "top" => sock_conn' # 0)
  /\ UNCHANGED <<accepted, delivered, bundles, ndown, nup>> /\ Later
  /\ outgoing' = outgoing \/ outgoing' = <<>>
  /\ incoming' = incoming \/ incoming' = <<>>
  /\ bps' \in {bps, 0} /\ bpr' \in {bpr, 0} /\ item' \in Nat
  /\ sw' \in {"push", "send"} => sw' = sw /\ item' = item
  /\ snd' # "idle" => snd # "idle"
  /\ Calm' => /\ UNCHANGED <<outgoing, incoming, bps, bpr, item, sock_fd>>
              /\ sw \in {"push", "send"} => sw' = sw
              /\ \A d \in DOMAIN conns : conns'[d].up = conns[d].up /\ conns'[d].down = conns[d].down

LEMMA LossyStep ==
  ASSUME Core, Lossy PROVE Core'
<1>1. DOMAIN conns' = DOMAIN conns /\ DOMAIN conns = 1 .. Len(conns) /\ Len(conns) \in Nat
  <2>1. conns \in Seq(ConnShape) /\ conns' \in Seq(ConnShape) /\ Len(conns') = Len(conns)
    BY DEF Core, Typed, Lossy
  <2> QED
    BY <2>1
<1>2. outgoing' \in Seq(Msg) /\ incoming' \in Seq(Msg) /\ bps' \in Nat /\ bpr' \in Nat
  <2>1. outgoing \in Seq(Msg) /\ incoming \in Seq(Msg) /\ bps \in Nat /\ bpr \in Nat
    BY DEF Core, Typed
  <2>2. /\ outgoing' = outgoing \/ outgoing' = <<>>
        /\ incoming' = incoming \/ incoming' = <<>>
        /\ bps' \in {bps, 0} /\ bpr' \in {bpr, 0}
    BY DEF Lossy
  <2>3. outgoing' \in Seq(Msg) /\ incoming' \in Seq(Msg)
    BY <2>1, <2>2, EmptyOrder, Zenon
  <2> QED
    BY <2>1, <2>2, <2>3
<1>3. Typed'
  <2>1. /\ conns' \in Seq(ConnShape) /\ Len(conns') = Len(conns) /\ sock_fd' \in {sock_fd, 0} /\ sock_conn' \in 0 .. Len(conns)
        /\ UNCHANGED <<accepted, delivered, bundles, ndown, nup>> /\ faults' \in Nat /\ nsig' \in Nat /\ item' \in Nat
        /\ sw' \in {"push", "send"} => sw' = sw /\ item' = item
        /\ snd' # "idle" => snd # "idle"
    BY DEF Lossy, Later
  <2>2. sock_fd' \in 0 .. Len(conns') /\ sock_conn' \in 0 .. Len(conns') /\ Len(conns') <= MaxConn
    BY <1>1, <2>1 DEF Core, Typed
  <2>3. (sw' \in {"push", "send"} => item' # 0) /\ (snd' # "idle" => nup' # 0)
    BY <2>1 DEF Core, Typed
  <2>4. accepted' \in Seq(Msg) /\ bundles' \in Seq(Msg) /\ delivered' \in Seq(Msg) /\ nup' \in Nat /\ ndown' \in Nat
    BY <2>1 DEF Core, Typed
  <2> QED
    BY <1>2, <2>1, <2>2, <2>3, <2>4 DEF Typed
<1>4. Links'
  BY <1>1 DEF Core, Links, Lossy
<1>5. UpOrder'
  <2>1. nup' >= nup /\ nup \in Nat
    BY DEF Core, Typed, Lossy
  <2> QED
    BY <1>1, <1>3, <2>1, UpLess DEF Core, Lossy
<1>6. sock_fd # 0 => sock_fd \in DOMAIN conns
  BY <1>1 DEF Core, Typed
<1>7. DownOrder'
  <2>1. ndown' >= ndown /\ ndown \in Nat
    BY DEF Core, Typed, Lossy
  <2>2. Down' = Down \/ Down' = <<>>
    BY <1>1, <1>6 DEF Down, Lossy
  <2> QED
    BY <1>3, <2>1, <2>2, DownLess DEF Core, Lossy
<1>8. Queues'
  <2> SUFFICES ASSUME Calm' PROVE Queues'
    BY DEF Queues
  <2>1. Calm
    BY CalmBefore DEF Core, Lossy
  <2>2. Up' = Up /\ Down' = Down
    BY <1>6 DEF Up, Down, Lossy
  <2>3. Pushing' = Pushing /\ Sending' = Sending
    BY DEF Pushing, Sending, Held, Lossy
  <2>4. UNCHANGED <<accepted, bundles, bps, outgoing, ndown, delivered, incoming, bpr>>
    BY DEF Lossy
  <2> QED
    BY <2>1, <2>2, <2>3, <2>4 DEF Core, Queues, Held, First
<1> QED
  BY <1>3, <1>4, <1>5, <1>7, <1>8 DEF Core

(* cace_amp_proxy_cli_real_disconnect, which is not called while all is well. *)
LEMMA DisconnectLossy ==
  ASSUME Core, CalmOK, SendDisconnect \/ RecvDisconnect PROVE Lossy
<1>1. /\ real_disconnect /\ (snd' # "idle" => snd # "idle")
      /\ UNCHANGED <<accepted, delivered, nsig, proxy, world>> /\ (snd = "fail" \/ rcv \in {"drop", "drop_end"})
  BY DEF SendDisconnect, RecvDisconnect
<1>2. ~Calm /\ ~Calm'
  BY <1>1 DEF CalmOK, Calm, world
<1>3. faults \in Nat /\ nsig \in Nat /\ bps \in Nat /\ bpr \in Nat /\ item \in Nat
  BY DEF Core, Typed
<1>4. sock_fd' = 0 /\ conns' = Disconnected
  BY <1>1 DEF real_disconnect
<1>5. /\ conns' \in Seq(ConnShape) /\ Len(conns') = Len(conns) /\ DOMAIN conns' = DOMAIN conns
      /\ \A d \in DOMAIN conns :
           /\ conns'[d].up = conns[d].up /\ conns'[d].acc = conns[d].acc /\ conns'[d].peof = conns[d].peof
           /\ conns'[d].down = conns[d].down \/ conns'[d].down = <<>>
           /\ d # sock_fd => conns'[d] = conns[d]
           /\ sock_fd = d => conns'[d].ceof
  <2>1. CASE sock_fd = 0
    <3>1. conns' = conns /\ 0 \notin DOMAIN conns
      BY <1>4, <2>1, TypedFacts DEF Disconnected, Core
    <3> QED
      BY <2>1, <3>1 DEF Core, Typed
  <2>2. CASE sock_fd # 0
    <3> DEFINE v == [conns[sock_fd] EXCEPT !.ceof = TRUE, !.down = <<>>]
    <3>1. sock_fd \in DOMAIN conns /\ conns[sock_fd] \in ConnShape
      BY <2>2, TypedFacts DEF Core, Typed
    <3>2. v \in ConnShape /\ v.up = conns[sock_fd].up /\ v.acc = conns[sock_fd].acc
          /\ v.peof = conns[sock_fd].peof /\ v.ceof /\ v.down = <<>>
      BY <3>1, EmptyOrder DEF ConnShape
    <3>3. conns' = [conns EXCEPT ![sock_fd] = v]
      BY <1>4, <2>2, <3>1 DEF Disconnected, Core, Typed
    <3> HIDE DEF v
    <3>4. ConnIs(sock_fd, v)
      BY <3>1, <3>2, <3>3, ConnSet DEF Core
    <3> QED
      BY <3>1, <3>2, <3>4 DEF ConnIs
  <2> QED
    BY <2>1, <2>2
<1>6. Backlog' = Backlog /\ sock_conn' = sock_conn
  BY <1>1, <1>5 DEF Backlog, proxy
<1>7. \A d \in DOMAIN conns : ~conns'[d].ceof => d = sock_fd'
  BY <1>4, <1>5 DEF Core, Links
<1>8. sock_conn \in 0 .. Len(conns) /\ (\A d \in Backlog : d > sock_conn) /\ (sw # "top" => sock_conn # 0)
  BY DEF Core, Typed, Links
<1> QED
  BY <1>1, <1>2, <1>3, <1>4, <1>5, <1>6, <1>7, <1>8 DEF Lossy, Live, Later, proxy, world

(* The kernel's notes on the connections change. *)
Flags ==
  /\ conns' \in Seq(ConnShape) /\ Len(conns') = Len(conns) /\ DOMAIN conns' = DOMAIN conns
  /\ \A d \in DOMAIN conns :
       /\ conns'[d].up = conns[d].up /\ conns'[d].down = conns[d].down
       /\ conns'[d].acc = conns[d].acc /\ conns'[d].ceof = conns[d].ceof
       /\ conns[d].peof => conns'[d].peof

LEMMA FlagSet ==
  ASSUME Typed, NEW c, NEW v, conns' = [conns EXCEPT ![c] = v],
         c \in DOMAIN conns =>
           /\ v \in ConnShape /\ v.up = conns[c].up /\ v.down = conns[c].down /\ v.acc = conns[c].acc
           /\ v.ceof = conns[c].ceof /\ (conns[c].peof => v.peof)
  PROVE  Flags
<1>1. CASE c \in DOMAIN conns
  <2>1. ConnIs(c, v)
    BY <1>1, ConnSet
  <2> QED
    BY <1>1, <2>1 DEF ConnIs, Flags
<1>2. CASE c \notin DOMAIN conns
  <2>1. conns' = conns
    BY <1>2 DEF Typed
  <2> QED
    BY <2>1 DEF Flags, Typed
<1> QED
  BY <1>1, <1>2

LEMMA FlagsLossy ==
  ASSUME Core, Flags, UNCHANGED <<sock_fd, sock_conn, accepted, delivered, bundles, ndown, nup, outgoing, incoming, bps, bpr>>,
         Later, snd' # "idle" => snd # "idle", item' \in Nat, sw' # "top" => sw # "top",
         sw' \in {"push", "send"} => sw' = sw /\ item' = item, Calm' => UNCHANGED <<sw, item>>
  PROVE  Lossy
<1>1. Backlog' \subseteq Backlog
  BY DEF Flags, Backlog
<1>2. \A d \in DOMAIN conns : ~conns'[d].ceof => d = sock_fd'
  BY DEF Flags, Core, Links
<1>3. sock_conn \in 0 .. Len(conns) /\ (\A d \in Backlog : d > sock_conn) /\ (sw # "top" => sock_conn # 0)
  BY DEF Core, Typed, Links
<1> QED
  BY <1>1, <1>2, <1>3 DEF Lossy, Live, Flags

LEMMA FlagActions ==
  ASSUME Core, RecvPeeked \/ SigShutdown \/ SockSendFails PROVE Lossy
<1>0. faults \in Nat /\ nsig \in Nat /\ item \in Nat
  BY DEF Core, Typed
<1>1. \A c \in DOMAIN conns : conns[c] \in ConnShape
  BY TypedFacts DEF Core
<1>2. ASSUME UNCHANGED conns PROVE Flags
  BY <1>2 DEF Flags, Core, Typed
<1>3. CASE RecvPeeked
  <2>1. UNCHANGED conns \/ conns' = [conns EXCEPT ![blocked] = [conns[blocked] EXCEPT !.reset = FALSE]]
    BY <1>3 DEF RecvPeeked
  <2>2. blocked \in DOMAIN conns =>
          LET v == [conns[blocked] EXCEPT !.reset = FALSE]
          IN  /\ v \in ConnShape /\ v.up = conns[blocked].up /\ v.down = conns[blocked].down
              /\ v.acc = conns[blocked].acc /\ v.ceof = conns[blocked].ceof /\ (conns[blocked].peof => v.peof)
    BY <1>1 DEF ConnShape
  <2>3. Flags
    BY <1>2, <2>1, <2>2, FlagSet DEF Core
  <2> QED
    BY <1>0, <1>3, <2>3, FlagsLossy DEF RecvPeeked, proxy, world, Later
<1>4. CASE SigShutdown
  <2>1. UNCHANGED conns \/ conns' = [conns EXCEPT ![sock_fd] = [conns[sock_fd] EXCEPT !.crd = TRUE]]
    BY <1>4 DEF SigShutdown
  <2>2. sock_fd \in DOMAIN conns =>
          LET v == [conns[sock_fd] EXCEPT !.crd = TRUE]
          IN  /\ v \in ConnShape /\ v.up = conns[sock_fd].up /\ v.down = conns[sock_fd].down
              /\ v.acc = conns[sock_fd].acc /\ v.ceof = conns[sock_fd].ceof /\ (conns[sock_fd].peof => v.peof)
    BY <1>1 DEF ConnShape
  <2>3. Flags
    BY <1>2, <2>1, <2>2, FlagSet DEF Core
  <2> QED
    BY <1>0, <1>4, <2>3, FlagsLossy DEF SigShutdown, proxy, world, Later
<1>5. CASE SockSendFails
  <2>1. conns' = [conns EXCEPT ![sock_conn] = [conns[sock_conn] EXCEPT !.peof = TRUE]]
    BY <1>5 DEF SockSendFails
  <2>2. sock_conn \in DOMAIN conns =>
          LET v == [conns[sock_conn] EXCEPT !.peof = TRUE]
          IN  /\ v \in ConnShape /\ v.up = conns[sock_conn].up /\ v.down = conns[sock_conn].down
              /\ v.acc = conns[sock_conn].acc /\ v.ceof = conns[sock_conn].ceof /\ (conns[sock_conn].peof => v.peof)
    BY <1>1 DEF ConnShape
  <2>3. Flags
    BY <2>1, <2>2, FlagSet DEF Core
  <2>4. sw = "send" /\ sw' \in {"recv", "top"} /\ faults' = faults + 1 /\ item' = 0
    BY <1>5 DEF SockSendFails, AfterSend
  <2>5. ~Calm'
    BY <1>0, <2>4 DEF Calm
  <2> QED
    BY <1>0, <1>5, <2>3, <2>4, <2>5, FlagsLossy DEF SockSendFails, client, Later
<1> QED
  BY <1>3, <1>4, <1>5

(* A bundle that could not be sent. *)
LEMMA SendFailsLossy ==
  ASSUME Core, BpSendFails PROVE Lossy
<1>1. Flags
  BY DEF BpSendFails, Flags, Core, Typed
<1>2. faults \in Nat /\ nsig \in Nat /\ faults' = faults + 1 /\ bps' = 0 /\ item \in Nat
  BY DEF Core, Typed, BpSendFails
<1>3. ~Calm'
  BY <1>2 DEF Calm
<1>4. Backlog' = Backlog
  BY DEF BpSendFails, Backlog
<1>5. \A d \in DOMAIN conns : ~conns'[d].ceof => d = sock_fd'
  BY DEF BpSendFails, client, Core, Links
<1>6. sock_conn \in 0 .. Len(conns) /\ (\A d \in Backlog : d > sock_conn) /\ (sw # "top" => sock_conn # 0)
  BY DEF Core, Typed, Links
<1> QED
  BY <1>1, <1>2, <1>3, <1>4, <1>5, <1>6 DEF BpSendFails, client, Lossy, Live, Later, Flags

(* The proxy has gone. *)
LEMMA GoneLossy ==
  ASSUME Core, CalmOK, ProxyEnds \/ SockSendPipe PROVE Lossy
<1>1. /\ Gone /\ UNCHANGED <<client, bundles, nup, ndown>> /\ faults' \in {faults, faults + 1}
      /\ SockSendPipe => UNCHANGED faults
      /\ ProxyEnds => faults' = faults + 1
  BY DEF ProxyEnds, SockSendPipe, world
<1>2. faults \in Nat /\ nsig \in Nat /\ bps \in Nat /\ bpr \in Nat
  BY DEF Core, Typed
<1>3. ~Calm'
  <2>1. CASE ProxyEnds
    BY <1>1, <1>2, <2>1 DEF Calm
  <2>2. CASE SockSendPipe
    <3>1. sock_conn \in DOMAIN conns
      BY <2>2, TypedFacts DEF SockSendPipe, Core, Typed, Links
    <3> QED
      BY <1>1, <2>2, <3>1 DEF SockSendPipe, CalmOK, Calm, client
  <2> QED
    BY <2>1, <2>2
<1>4. /\ conns' = AllClosed /\ DOMAIN conns = 1 .. Len(conns) /\ Len(conns) \in Nat
      /\ \A c \in DOMAIN conns : conns[c] \in ConnShape
  BY <1>1, TypedFacts DEF Gone, Core
<1>5. \A d \in DOMAIN conns :
        /\ Closed(d) \in ConnShape /\ Closed(d).up = <<>> /\ Closed(d).down = conns[d].down
        /\ Closed(d).ceof = conns[d].ceof /\ Closed(d).peof
  BY <1>4, EmptyOrder DEF Closed, ConnShape
<1>6. /\ DOMAIN conns' = 1 .. Len(conns)
      /\ \A d \in DOMAIN conns :
           /\ conns'[d] \in ConnShape /\ conns'[d].peof
           /\ conns'[d].up = conns[d].up \/ conns'[d].up = <<>>
           /\ conns'[d].down = conns[d].down /\ conns'[d].ceof = conns[d].ceof
  BY <1>4, <1>5 DEF AllClosed
<1>7. conns' \in Seq(ConnShape) /\ Len(conns') = Len(conns)
  <2>1. conns' \in [1 .. Len(conns) -> ConnShape]
    BY <1>4, <1>6 DEF AllClosed
  <2> QED
    BY <1>4, <2>1
<1>8. Backlog' = {} /\ sock_conn' = 0 /\ 0 \notin DOMAIN conns
  BY <1>1, <1>4, <1>6 DEF Backlog, Gone
<1>9. \A d \in DOMAIN conns : ~conns'[d].ceof => d = sock_fd'
  BY <1>1, <1>6 DEF client, Core, Links
<1> QED
  BY <1>1, <1>2, <1>3, <1>4, <1>6, <1>7, <1>8, <1>9 DEF Gone, client, Lossy, Later

(* sock_worker accepts the oldest connection, and closes one that hung up. *)
LEMMA AcceptLossy ==
  ASSUME Core, SockAccept PROVE Lossy
<1>1. PICK c \in Backlog : /\ \A d \in Backlog : c <= d
                           /\ sock_conn' = c /\ conns' = [conns EXCEPT ![c] = [conns[c] EXCEPT !.acc = TRUE]]
  BY DEF SockAccept
<1>2. c \in DOMAIN conns /\ conns[c] \in ConnShape /\ DOMAIN conns = 1 .. Len(conns) /\ Len(conns) \in Nat
  BY TypedFacts DEF Backlog, Core
<1> DEFINE v == [conns[c] EXCEPT !.acc = TRUE]
<1>3. /\ v \in ConnShape /\ v.up = conns[c].up /\ v.down = conns[c].down /\ v.acc
      /\ v.ceof = conns[c].ceof /\ v.peof = conns[c].peof
  BY <1>2 DEF ConnShape
<1>4. conns' = [conns EXCEPT ![c] = v]
  BY <1>1
<1> HIDE DEF v
<1>5. ConnIs(c, v)
  BY <1>2, <1>3, <1>4, ConnSet DEF Core
<1>6. Backlog' = Backlog \ {c}
  BY <1>2, <1>3, <1>5 DEF ConnIs, Backlog
<1>7. \A d \in DOMAIN conns : ~conns'[d].ceof => d = sock_fd'
  BY <1>2, <1>3, <1>5 DEF ConnIs, SockAccept, client, Core, Links
<1>8. \A d \in Backlog' : d > sock_conn'
  BY <1>1, <1>2, <1>6 DEF Backlog
<1>9. faults \in Nat /\ nsig \in Nat /\ item \in Nat
  BY DEF Core, Typed
<1>10. /\ UNCHANGED <<sw, item, outgoing, incoming, bps, bpr, sock_fd, snd, nsig, accepted, delivered, bundles, nup, ndown, faults>>
       /\ sw = "top"
  BY DEF SockAccept, client, world
<1>11. \A d \in DOMAIN conns : (d = sock_conn' \/ d \in Backlog') => Live(d)
  BY <1>1, <1>6 DEF Live
<1>12. \A d \in DOMAIN conns : conns'[d].up = conns[d].up /\ conns'[d].down = conns[d].down
  BY <1>3, <1>5 DEF ConnIs
<1> QED
  BY <1>1, <1>2, <1>5, <1>7, <1>8, <1>9, <1>10, <1>11, <1>12 DEF ConnIs, Lossy, Later

LEMMA HangupLossy ==
  ASSUME Core, CalmOK, SockHangup PROVE Lossy
<1> DEFINE c == sock_conn
           v == Closed(c)
<1>1. /\ c \in DOMAIN conns /\ conns[c] \in ConnShape /\ DOMAIN conns = 1 .. Len(conns) /\ Len(conns) \in Nat
      /\ conns[c].ceof \/ conns[c].peof
  BY TypedFacts DEF SockHangup, Hangup, Core, Typed
<1>2. ~Calm /\ ~Calm'
  BY <1>1 DEF CalmOK, Calm, SockHangup, client, world
<1>3. /\ v \in ConnShape /\ v.up = <<>> /\ v.down = conns[c].down /\ v.ceof = conns[c].ceof /\ v.peof
  BY <1>1, EmptyOrder DEF Closed, ConnShape
<1>4. conns' = [conns EXCEPT ![c] = v] /\ sock_conn' = 0
  BY DEF SockHangup
<1> HIDE DEF v
<1>5. ConnIs(c, v)
  BY <1>1, <1>3, <1>4, ConnSet DEF Core
<1>6. Backlog' \subseteq Backlog /\ 0 \notin DOMAIN conns
  BY <1>1, <1>3, <1>5 DEF ConnIs, Backlog
<1>7. \A d \in DOMAIN conns : ~conns'[d].ceof => d = sock_fd'
  BY <1>1, <1>3, <1>5 DEF ConnIs, SockHangup, client, Core, Links
<1>8. \A d \in Backlog' : d > sock_conn'
  BY <1>1, <1>4, <1>6 DEF Backlog
<1>9. faults \in Nat /\ nsig \in Nat /\ item \in Nat
  BY DEF Core, Typed
<1>10. /\ UNCHANGED <<sw, item, outgoing, incoming, bps, bpr, sock_fd, snd, nsig, accepted, delivered, bundles, nup, ndown, faults>>
       /\ sw = "top"
  BY DEF SockHangup, client, world
<1>11. \A d \in DOMAIN conns : (d = sock_conn' \/ d \in Backlog') => Live(d)
  BY <1>4, <1>6 DEF Live
<1>12. \A d \in DOMAIN conns : /\ conns'[d].up = conns[d].up \/ conns'[d].up = <<>>
                               /\ conns'[d].down = conns[d].down
  BY <1>3, <1>5 DEF ConnIs
<1> QED
  BY <1>2, <1>4, <1>5, <1>7, <1>8, <1>9, <1>10, <1>11, <1>12, <1>1 DEF ConnIs, Lossy, Later

-----------------------------------------------------------------------------
(* Messages are given, moved on and taken.                                  *)

LEMMA ShiftOut ==
  ASSUME NEW X \in Seq(Msg), NEW T \in Seq(Msg), T # <<>>
  PROVE  /\ (X \o <<>>) \o T = (X \o <<Head(T)>>) \o Tail(T)
         /\ X \o T = Append(X, Head(T)) \o Tail(T)
<1>1. Head(T) \in Msg /\ Tail(T) \in Seq(Msg) /\ <<Head(T)>> \in Seq(Msg)
  OBVIOUS
<1>2. T = <<Head(T)>> \o Tail(T)
  OBVIOUS
<1>3. X \o (<<Head(T)>> \o Tail(T)) = (X \o <<Head(T)>>) \o Tail(T)
  BY <1>1, ConcatAssociative
<1>4. X \o <<>> = X
  BY ConcatEmptySeq
<1>5. Append(X, Head(T)) = X \o <<Head(T)>>
  BY <1>1, AppendIsConcat
<1> QED
  BY <1>2, <1>3, <1>4, <1>5

LEMMA ShiftIn ==
  ASSUME NEW X \in Seq(Msg), NEW T \in Seq(Msg), NEW x \in Msg
  PROVE  /\ (X \o T) \o <<x>> = (X \o Append(T, x)) \o <<>>
         /\ X \o <<x>> = Append(X, x) \o <<>>
         /\ X \o Append(T, x) = Append(X \o T, x)
<1>1. <<x>> \in Seq(Msg) /\ X \o T \in Seq(Msg)
  OBVIOUS
<1>2. Append(T, x) = T \o <<x>> /\ Append(X, x) = X \o <<x>> /\ Append(X \o T, x) = (X \o T) \o <<x>>
  BY <1>1, AppendIsConcat
<1>3. (X \o T) \o <<x>> = X \o (T \o <<x>>)
  BY <1>1, ConcatAssociative
<1>4. X \o (T \o <<x>>) \in Seq(Msg) /\ X \o <<x>> \in Seq(Msg)
  BY <1>1
<1>5. (X \o (T \o <<x>>)) \o <<>> = X \o (T \o <<x>>) /\ (X \o <<x>>) \o <<>> = X \o <<x>>
  BY <1>4, ConcatEmptySeq
<1> QED
  BY <1>2, <1>3, <1>5

LEMMA FirstNext ==
  ASSUME NEW n \in Nat PROVE First(n) \in Seq(Msg) /\ First(n + 1) = Append(First(n), n + 1)
<1>1. First(n) \in [1 .. n -> Msg] /\ First(n + 1) \in [1 .. n + 1 -> Msg]
  BY DEF First, Msg
<1>2. First(n) \in Seq(Msg) /\ Len(First(n)) = n /\ First(n + 1) \in Seq(Msg) /\ Len(First(n + 1)) = n + 1 /\ n + 1 \in Msg
  BY <1>1 DEF Msg
<1>3. Append(First(n), n + 1) \in Seq(Msg) /\ Len(Append(First(n), n + 1)) = n + 1
  BY <1>2
<1>4. \A i \in 1 .. n + 1 : First(n + 1)[i] = i /\ Append(First(n), n + 1)[i] = i
  <2>1. \A i \in 1 .. n + 1 : First(n + 1)[i] = i
    BY DEF First
  <2>2. \A i \in 1 .. n : First(n)[i] = i
    BY DEF First
  <2>3. \A i \in 1 .. n : Append(First(n), n + 1)[i] = First(n)[i]
    BY <1>2
  <2>4. Append(First(n), n + 1)[n + 1] = n + 1
    BY <1>2
  <2> QED
    BY <2>1, <2>2, <2>3, <2>4
<1> QED
  BY <1>2, <1>3, <1>4, SeqEqual

(* The connections stay as they are. *)
LEMMA StillLinks ==
  ASSUME Links, UNCHANGED <<conns, sock_fd, sock_conn>>, sw' # "top" => sw # "top"
  PROVE  /\ Links' /\ Up' = Up /\ Down' = Down /\ Backlog' = Backlog
         /\ \A c \in DOMAIN conns' : /\ c \in DOMAIN conns /\ conns'[c].up = conns[c].up
                                     /\ (c = sock_conn' \/ c \in Backlog') => Live(c)
<1>1. Backlog' = Backlog /\ Up' = Up /\ Down' = Down
  BY DEF Backlog, Up, Down
<1> QED
  BY <1>1 DEF Links, Live

(* What a step leaves alone in one direction while a message moves in the     *)
(* other.                                                                     *)
LEMMA UpQueueKept ==
  ASSUME Queues, Calm,
         UNCHANGED <<accepted, bundles, bps, outgoing>>, Up' = Up, Pushing' = Pushing
  PROVE  accepted' = bundles' \o Held(bps') \o outgoing' \o Pushing' \o Up'
  BY DEF Queues

LEMMA DownQueueKept ==
  ASSUME Queues, Calm,
         UNCHANGED <<delivered, incoming, bpr, ndown>>, Down' = Down, Sending' = Sending
  PROVE  First(ndown') = delivered' \o Down' \o Sending' \o incoming' \o Held(bpr')
  BY DEF Queues

LEMMA HeldIs ==
  /\ Held(0) = <<>>
  /\ \A x \in Msg : Held(x) = <<x>> /\ Held(x) \in Seq(Msg)
  /\ \A x \in Nat : Held(x) \in Seq(Msg)
<1>1. Held(0) = <<>> /\ <<>> \in Seq(Msg)
  BY DEF Held
<1>2. ASSUME NEW x \in Msg PROVE Held(x) = <<x>> /\ Held(x) \in Seq(Msg)
  <2>1. x # 0
    BY DEF Msg
  <2>2. <<x>> \in Seq(Msg)
    OBVIOUS
  <2> QED
    BY <2>1, <2>2 DEF Held
<1>3. \A x \in Nat : x = 0 \/ x \in Msg
  BY DEF Msg
<1> QED
  BY <1>1, <1>2, <1>3

LEMMA PartsTyped ==
  ASSUME Typed
  PROVE  /\ Held(bps) \in Seq(Msg) /\ Held(bpr) \in Seq(Msg) /\ Pushing \in Seq(Msg) /\ Sending \in Seq(Msg)
         /\ bundles \o Held(bps) \in Seq(Msg) /\ bundles \o Held(bps) \o outgoing \in Seq(Msg)
         /\ bundles \o Held(bps) \o outgoing \o Pushing \in Seq(Msg)
         /\ delivered \o Down \in Seq(Msg) /\ delivered \o Down \o Sending \in Seq(Msg)
         /\ delivered \o Down \o Sending \o incoming \in Seq(Msg)
<1>1. Held(bps) \in Seq(Msg) /\ Held(bpr) \in Seq(Msg) /\ Held(item) \in Seq(Msg)
  BY HeldIs DEF Typed
<1>2. Pushing \in Seq(Msg) /\ Sending \in Seq(Msg)
  BY <1>1, EmptyOrder DEF Pushing, Sending
<1>3. bundles \in Seq(Msg) /\ outgoing \in Seq(Msg) /\ delivered \in Seq(Msg) /\ incoming \in Seq(Msg) /\ Down \in Seq(Msg)
  BY TypedFacts DEF Typed
<1>4. bundles \o Held(bps) \in Seq(Msg) /\ delivered \o Down \in Seq(Msg)
  BY <1>1, <1>3
<1>5. bundles \o Held(bps) \o outgoing \in Seq(Msg) /\ delivered \o Down \o Sending \in Seq(Msg)
  BY <1>2, <1>3, <1>4
<1>6. bundles \o Held(bps) \o outgoing \o Pushing \in Seq(Msg) /\ delivered \o Down \o Sending \o incoming \in Seq(Msg)
  BY <1>2, <1>3, <1>5
<1> QED
  BY <1>1, <1>2, <1>4, <1>5, <1>6

(* bp_send_worker takes the first item of the queue ... *)
LEMMA BpSendPopStep ==
  ASSUME Core, BpSendPop PROVE Core'
<1> DEFINE x == Head(outgoing)
<1>1. /\ bps = 0 /\ outgoing # <<>> /\ bps' = x /\ outgoing' = Tail(outgoing)
      /\ UNCHANGED <<conns, sock_fd, sock_conn, sw, item, incoming, bpr, snd, accepted, delivered, nsig, bundles, nup, ndown, faults>>
  BY DEF BpSendPop, client, world
<1>2. outgoing \in Seq(Msg) /\ Increasing(outgoing)
  BY DEF Core, Typed, UpOrder
<1>3. /\ x \in Range(outgoing) /\ x \in Msg /\ Tail(outgoing) \in Seq(Msg) /\ Range(Tail(outgoing)) \subseteq Range(outgoing)
      /\ Increasing(Tail(outgoing)) /\ \A y \in Range(Tail(outgoing)) : x < y
  BY <1>1, <1>2, HeadFirst
<1>4. Typed'
  BY <1>1, <1>3 DEF Core, Typed, Msg
<1>5. /\ Links' /\ Up' = Up /\ Down' = Down /\ Backlog' = Backlog
  BY <1>1, StillLinks DEF Core
<1>6. UpOrder'
  <2>1. /\ \A n \in UpIndex : n \notin {2, 3} => UpStages'[n] = UpStages[n]
        /\ UpStages'[2] \subseteq {x} /\ UpStages'[3] = Range(Tail(outgoing)) /\ UpStages[3] = Range(outgoing)
    BY <1>1, <1>5, UpStagesAre, UpStagesNext DEF Live
  <2>2. 2 \in UpIndex /\ 3 \in UpIndex /\ UpIndex \in SUBSET Int
    BY UpStagesAre
  <2>3. \A n \in UpIndex : ~(2 < n /\ n < 3)
    BY <2>2
  <2>4. Chain(UpIndex, UpStages) /\ \A n \in UpIndex : UpStages[n] \subseteq Range(accepted)
    BY DEF Core, UpOrder
  <2>5. \A n \in UpIndex : n # 2 => UpStages'[n] \subseteq UpStages[n]
    BY <1>3, <2>1
  <2>6. Chain(UpIndex, UpStages')
    <3>1. Moved(UpIndex, UpStages, UpStages', 2, 3, x)
      BY <1>3, <2>1, <2>2, <2>3, <2>4, <2>5 DEF Moved
    <3> QED
      BY <3>1, ChainMoved
  <2>7. \A n \in UpIndex : UpStages'[n] \subseteq Range(accepted')
    BY <1>1, <1>3, <2>1, <2>2, <2>4, <2>5
  <2> QED
    BY <1>1, <1>3, <2>6, <2>7 DEF Core, UpOrder
<1>7. DownOrder'
  BY <1>1, <1>4, <1>5, DownLess DEF Core, Typed
<1>8. ASSUME Calm' PROVE Queues'
  <2>1. Calm
    BY <1>1, <1>8 DEF Calm
  <2>2. Pushing' = Pushing /\ Sending' = Sending
    BY <1>1 DEF Pushing, Sending, Held
  <2>3. (bundles \o <<>>) \o outgoing = (bundles \o <<x>>) \o Tail(outgoing)
    BY <1>1, <1>2, ShiftOut DEF Core, Typed
  <2>4. bundles \o Held(bps) \o outgoing = bundles' \o Held(bps') \o outgoing'
    BY <1>1, <1>3, <2>3, HeldIs
  <2>5. accepted' = bundles' \o Held(bps') \o outgoing' \o Pushing' \o Up'
    BY <1>1, <1>5, <2>1, <2>2, <2>4 DEF Core, Queues
  <2> QED
    BY <1>1, <1>5, <2>1, <2>2, <2>5, DownQueueKept DEF Core, Queues
<1> QED
  BY <1>4, <1>5, <1>6, <1>7, <1>8 DEF Core, Queues

(* ... and sends it. *)
LEMMA BpSendStep ==
  ASSUME Core, BpSend PROVE Core'
<1>1. /\ bps # 0 /\ bps' = 0 /\ bundles' = Append(bundles, bps)
      /\ UNCHANGED <<conns, sock_fd, sock_conn, sw, item, outgoing, incoming, bpr, snd, accepted, delivered, nsig, nup, ndown, faults>>
  BY DEF BpSend, client
<1>2. bundles \in Seq(Msg) /\ Increasing(bundles) /\ bps \in Msg
  BY <1>1 DEF Core, Typed, UpOrder, Msg
<1>3. bundles' \in Seq(Msg) /\ Range(bundles') = Range(bundles) \cup {bps}
  BY <1>1, <1>2, AppendedRange
<1>4. Typed'
  BY <1>1, <1>3 DEF Core, Typed
<1>5. /\ Links' /\ Up' = Up /\ Down' = Down /\ Backlog' = Backlog
  BY <1>1, StillLinks DEF Core
<1>6. UpOrder'
  <2>1. /\ \A n \in UpIndex : n \notin {1, 2} => UpStages'[n] = UpStages[n]
        /\ UpStages'[1] = UpStages[1] \cup {bps} /\ UpStages'[2] = {} /\ UpStages[2] = {bps} /\ UpStages[1] = Range(bundles)
    BY <1>1, <1>3, <1>5, UpStagesAre, UpStagesNext DEF Live
  <2>2. 1 \in UpIndex /\ 2 \in UpIndex /\ UpIndex \in SUBSET Int
    BY UpStagesAre
  <2>3. \A n \in UpIndex : ~(1 < n /\ n < 2)
    BY <2>2
  <2>4. Chain(UpIndex, UpStages) /\ \A n \in UpIndex : UpStages[n] \subseteq Range(accepted)
    BY DEF Core, UpOrder
  <2>5. \A n \in UpIndex : n # 1 => UpStages'[n] \subseteq UpStages[n]
    BY <2>1
  <2>6. Chain(UpIndex, UpStages')
    <3>1. Moved(UpIndex, UpStages, UpStages', 1, 2, bps)
      BY <2>1, <2>2, <2>3, <2>4, <2>5 DEF Moved
    <3> QED
      BY <3>1, ChainMoved
  <2>7. \A n \in UpIndex : UpStages'[n] \subseteq Range(accepted')
    BY <1>1, <2>1, <2>2, <2>4, <2>5
  <2>8. \A y \in Range(bundles) : y < bps
    BY <2>1, <2>2, <2>4 DEF Chain
  <2>9. Increasing(bundles')
    BY <1>1, <1>2, <2>8, AppendedOrder
  <2> QED
    BY <1>1, <2>6, <2>7, <2>9 DEF Core, UpOrder
<1>7. DownOrder'
  BY <1>1, <1>4, <1>5, DownLess DEF Core, Typed
<1>8. ASSUME Calm' PROVE Queues'
  <2>1. Calm
    BY <1>1, <1>8 DEF Calm
  <2>2. Pushing' = Pushing /\ Sending' = Sending
    BY <1>1 DEF Pushing, Sending, Held
  <2>3. bundles \o <<bps>> = Append(bundles, bps) \o <<>>
    BY <1>2, ShiftIn, EmptyOrder
  <2>4. bundles \o Held(bps) = bundles' \o Held(bps')
    BY <1>1, <1>2, <2>3, HeldIs
  <2>5. accepted' = bundles' \o Held(bps') \o outgoing' \o Pushing' \o Up'
    BY <1>1, <1>5, <2>1, <2>2, <2>4 DEF Core, Queues
  <2> QED
    BY <1>1, <1>5, <2>1, <2>2, <2>5, DownQueueKept DEF Core, Queues
<1> QED
  BY <1>4, <1>5, <1>6, <1>7, <1>8 DEF Core, Queues

(* sock_worker puts the datagram it has read in the queue to the BPA. *)
LEMMA SockPushStep ==
  ASSUME Core, SockPush PROVE Core'
<1>1. /\ sw = "push" /\ sw' = "top" /\ item' = 0 /\ outgoing' = Append(outgoing, item)
      /\ UNCHANGED <<conns, sock_fd, sock_conn, bps, incoming, bpr, snd, accepted, delivered, nsig, bundles, nup, ndown, faults>>
  BY DEF SockPush, client, world
<1>2. outgoing \in Seq(Msg) /\ Increasing(outgoing) /\ item \in Msg
  BY <1>1 DEF Core, Typed, UpOrder, Msg
<1>3. outgoing' \in Seq(Msg) /\ Range(outgoing') = Range(outgoing) \cup {item}
  BY <1>1, <1>2, AppendedRange
<1>4. Typed'
  BY <1>1, <1>3 DEF Core, Typed
<1>5. /\ Links' /\ Up' = Up /\ Down' = Down /\ Backlog' = Backlog
  BY <1>1, StillLinks DEF Core
<1>6. UpOrder'
  <2>1. /\ \A n \in UpIndex : n \notin {3, 4} => UpStages'[n] = UpStages[n]
        /\ UpStages'[3] = UpStages[3] \cup {item} /\ UpStages'[4] = {} /\ UpStages[4] = {item} /\ UpStages[3] = Range(outgoing)
    <3>1. UpStages'[1] = UpStages[1] /\ UpStages'[2] = UpStages[2]
      BY <1>1, UpStagesAre, UpStagesNext
    <3>2. ASSUME NEW d \in 1 .. MaxConn PROVE UpStages'[4 + d] = UpStages[4 + d]
      BY <1>1, <1>5, UpStagesAre, UpStagesNext DEF Live
    <3>3. UpStages'[3] = UpStages[3] \cup {item} /\ UpStages'[4] = {} /\ UpStages[4] = {item} /\ UpStages[3] = Range(outgoing)
      BY <1>1, <1>3, UpStagesAre, UpStagesNext
    <3> QED
      BY <3>1, <3>2, <3>3, UpStagesAre
  <2>2. 3 \in UpIndex /\ 4 \in UpIndex /\ UpIndex \in SUBSET Int
    BY UpStagesAre
  <2>3. \A n \in UpIndex : ~(3 < n /\ n < 4)
    BY <2>2
  <2>4. Chain(UpIndex, UpStages) /\ \A n \in UpIndex : UpStages[n] \subseteq Range(accepted)
    BY DEF Core, UpOrder
  <2>5. \A n \in UpIndex : n # 3 => UpStages'[n] \subseteq UpStages[n]
    BY <2>1
  <2>6. Chain(UpIndex, UpStages')
    <3>1. Moved(UpIndex, UpStages, UpStages', 3, 4, item)
      BY <2>1, <2>2, <2>3, <2>4, <2>5 DEF Moved
    <3> QED
      BY <3>1, ChainMoved
  <2>7. \A n \in UpIndex : UpStages'[n] \subseteq Range(accepted')
    BY <1>1, <2>1, <2>2, <2>4, <2>5
  <2>8. \A y \in Range(outgoing) : y < item
    BY <2>1, <2>2, <2>4 DEF Chain
  <2>9. Increasing(outgoing')
    BY <1>1, <1>2, <2>8, AppendedOrder
  <2> QED
    BY <1>1, <2>6, <2>7, <2>9 DEF Core, UpOrder
<1>7. DownOrder'
  BY <1>1, <1>4, <1>5, DownLess DEF Core, Typed
<1>8. ASSUME Calm' PROVE Queues'
  <2>1. Calm
    BY <1>1, <1>8 DEF Calm
  <2>2. Pushing = <<item>> /\ Pushing' = <<>> /\ Sending' = <<>> /\ Sending = <<>>
    BY <1>1, <1>2, HeldIs DEF Pushing, Sending
  <2>3. ((bundles \o Held(bps)) \o outgoing) \o <<item>> = ((bundles \o Held(bps)) \o Append(outgoing, item)) \o <<>>
    <3>1. bundles \o Held(bps) \in Seq(Msg)
      BY PartsTyped DEF Core
    <3> QED
      BY <1>2, <3>1, ShiftIn, Zenon
  <2>4. accepted' = bundles' \o Held(bps') \o outgoing' \o Pushing' \o Up'
    BY <1>1, <1>5, <2>1, <2>2, <2>3 DEF Core, Queues
  <2> QED
    BY <1>1, <1>5, <2>1, <2>2, <2>4, DownQueueKept DEF Core, Queues
<1> QED
  BY <1>4, <1>5, <1>6, <1>7, <1>8 DEF Core, Queues

(* sock_worker takes the first item from the BPA. *)
LEMMA SockPopStep ==
  ASSUME Core, SockPop PROVE Core'
<1> DEFINE x == Head(incoming)
<1>1. /\ sw = "pop" /\ sw' = "send" /\ incoming # <<>> /\ item' = x /\ incoming' = Tail(incoming)
      /\ UNCHANGED <<conns, sock_fd, sock_conn, bps, outgoing, bpr, snd, accepted, delivered, nsig, bundles, nup, ndown, faults>>
  BY DEF SockPop, client, world
<1>2. incoming \in Seq(Msg) /\ Increasing(incoming)
  BY DEF Core, Typed, DownOrder
<1>3. /\ x \in Range(incoming) /\ x \in Msg /\ Tail(incoming) \in Seq(Msg) /\ Range(Tail(incoming)) \subseteq Range(incoming)
      /\ Increasing(Tail(incoming)) /\ \A y \in Range(Tail(incoming)) : x < y
  BY <1>1, <1>2, HeadFirst
<1>4. Typed'
  BY <1>1, <1>3 DEF Core, Typed, Msg
<1>5. /\ Links' /\ Up' = Up /\ Down' = Down /\ Backlog' = Backlog
      /\ \A c \in DOMAIN conns' : /\ c \in DOMAIN conns /\ conns'[c].up = conns[c].up
                                  /\ (c = sock_conn' \/ c \in Backlog') => Live(c)
  BY <1>1, StillLinks DEF Core
<1>6. DownOrder'
  <2>1. /\ DownStages'[1] = DownStages[1] /\ DownStages'[2] = DownStages[2] /\ DownStages'[5] = DownStages[5]
        /\ DownStages'[3] = {x} /\ DownStages'[4] = Range(Tail(incoming)) /\ DownStages[4] = Range(incoming)
    BY <1>1, <1>5, DownStagesAre, DownStagesNext
  <2>2. 3 \in DownIndex /\ 4 \in DownIndex /\ DownIndex \in SUBSET Int /\ \A n \in DownIndex : ~(3 < n /\ n < 4)
    BY DownIndexIs
  <2>3. Chain(DownIndex, DownStages) /\ \A n \in DownIndex : DownStages[n] \subseteq 1 .. ndown
    BY DEF Core, DownOrder
  <2>4. \A n \in DownIndex : n # 3 => DownStages'[n] \subseteq DownStages[n]
    BY <1>3, <2>1, DownIndexIs
  <2>5. Chain(DownIndex, DownStages')
    <3>1. Moved(DownIndex, DownStages, DownStages', 3, 4, x)
      <4>1. x \in DownStages[4] /\ \A y \in DownStages'[4] : x < y
        BY <1>3, <2>1
      <4>2. DownStages'[3] \subseteq DownStages[3] \cup {x}
        BY <2>1
      <4> QED
        BY <2>2, <2>3, <2>4, <4>1, <4>2 DEF Moved
    <3> QED
      BY <3>1, ChainMoved
  <2>6. \A n \in DownIndex : DownStages'[n] \subseteq 1 .. ndown'
    BY <1>1, <1>3, <2>1, <2>2, <2>3, <2>4
  <2> QED
    BY <1>1, <1>3, <1>5, <2>5, <2>6 DEF Core, DownOrder
<1>7. UpOrder'
  BY <1>1, <1>4, <1>5, UpSame DEF Core
<1>8. ASSUME Calm' PROVE Queues'
  <2>1. Calm
    BY <1>1, <1>8 DEF Calm
  <2>2. Pushing = <<>> /\ Pushing' = <<>> /\ Sending' = <<x>> /\ Sending = <<>>
    BY <1>1, <1>3, HeldIs DEF Pushing, Sending
  <2>3. ((delivered \o Down) \o <<>>) \o incoming = ((delivered \o Down) \o <<x>>) \o Tail(incoming)
    BY <1>1, <1>2, ShiftOut, PartsTyped DEF Core
  <2>4. First(ndown') = delivered' \o Down' \o Sending' \o incoming' \o Held(bpr')
    BY <1>1, <1>5, <2>1, <2>2, <2>3 DEF Core, Queues
  <2> QED
    BY <1>1, <1>5, <2>1, <2>2, <2>4, UpQueueKept DEF Core, Queues
<1> QED
  BY <1>4, <1>5, <1>6, <1>7, <1>8 DEF Core, Queues

(* bp_recv_worker is given a message ... *)
LEMMA BpReceiveStep ==
  ASSUME Core, BpReceive PROVE Core'
<1> DEFINE x == ndown + 1
<1>1. /\ bpr = 0 /\ ndown' = x /\ bpr' \in {x, 0}
      /\ bpr' = x \/ faults' = faults + 1
      /\ faults' \in {faults, faults + 1}
      /\ UNCHANGED <<conns, sock_fd, sock_conn, sw, item, incoming, bps, outgoing, snd, accepted, delivered, nsig, bundles, nup>>
  BY DEF BpReceive, client
<1>2. ndown \in Nat /\ faults \in Nat /\ nsig \in Nat /\ x \in Msg
  BY DEF Core, Typed, Msg
<1>3. Typed'
  BY <1>1, <1>2 DEF Core, Typed, Msg
<1>4. /\ Links' /\ Up' = Up /\ Down' = Down /\ Backlog' = Backlog
      /\ \A c \in DOMAIN conns' : /\ c \in DOMAIN conns /\ conns'[c].up = conns[c].up
                                  /\ (c = sock_conn' \/ c \in Backlog') => Live(c)
  BY <1>1, StillLinks DEF Core
<1>5. DownOrder'
  <2>1. /\ \A n \in DownIndex : n # 5 => DownStages'[n] = DownStages[n]
        /\ DownStages'[5] \subseteq {x} /\ DownStages[5] = {}
    BY <1>1, <1>4, DownStagesAre, DownStagesNext, DownIndexIs
  <2>2. 5 \in DownIndex /\ DownIndex \in SUBSET Int /\ \A n \in DownIndex : ~(5 < n)
    BY DownIndexIs
  <2>3. Chain(DownIndex, DownStages) /\ \A n \in DownIndex : DownStages[n] \subseteq 1 .. ndown
    BY DEF Core, DownOrder
  <2>4. \A n \in DownIndex : \A y \in DownStages[n] : y < x
    BY <1>2, <2>3
  <2>5. Chain(DownIndex, DownStages')
    <3>1. Given(DownIndex, DownStages, DownStages', 5, x)
      BY <2>1, <2>2, <2>3, <2>4 DEF Given
    <3> QED
      BY <3>1, ChainGiven
  <2>6. \A n \in DownIndex : DownStages'[n] \subseteq 1 .. ndown'
    BY <1>1, <1>2, <2>1, <2>3
  <2> QED
    BY <1>1, <1>4, <2>5, <2>6 DEF Core, DownOrder
<1>6. UpOrder'
  BY <1>1, <1>3, <1>4, UpSame DEF Core
<1>7. ASSUME Calm' PROVE Queues'
  <2>1. Calm /\ bpr' = x
    BY <1>1, <1>2, <1>7 DEF Calm
  <2>2. Pushing' = Pushing /\ Sending' = Sending
    BY <1>1 DEF Pushing, Sending, Held
  <2> DEFINE Z == delivered \o Down \o Sending \o incoming
  <2>3. Z \in Seq(Msg)
    BY PartsTyped DEF Core
  <2>4. First(ndown) = Z \o <<>>
    BY <1>1, <2>1, HeldIs DEF Core, Queues
  <2>5. First(ndown) = Z
    BY <2>3, <2>4, ConcatEmptySeq
  <2>6. First(ndown') = Z \o <<x>>
    BY <1>1, <1>2, <2>5, FirstNext, AppendIsConcat
  <2>7. First(ndown') = delivered' \o Down' \o Sending' \o incoming' \o Held(bpr')
    BY <1>1, <1>2, <1>4, <2>1, <2>2, <2>6, HeldIs
  <2> QED
    BY <1>1, <1>4, <2>1, <2>2, <2>7, UpQueueKept DEF Core, Queues
<1> QED
  BY <1>3, <1>4, <1>5, <1>6, <1>7 DEF Core, Queues

(* ... and queues it. *)
LEMMA BpPushStep ==
  ASSUME Core, BpPush PROVE Core'
<1>1. /\ bpr # 0 /\ bpr' = 0 /\ incoming' = Append(incoming, bpr)
      /\ UNCHANGED <<conns, sock_fd, sock_conn, sw, item, bps, outgoing, snd, accepted, delivered, nsig, bundles, nup, ndown, faults>>
  BY DEF BpPush, client, world
<1>2. incoming \in Seq(Msg) /\ Increasing(incoming) /\ bpr \in Msg
  BY <1>1 DEF Core, Typed, DownOrder, Msg
<1>3. incoming' \in Seq(Msg) /\ Range(incoming') = Range(incoming) \cup {bpr}
  BY <1>1, <1>2, AppendedRange
<1>4. Typed'
  BY <1>1, <1>3 DEF Core, Typed
<1>5. /\ Links' /\ Up' = Up /\ Down' = Down /\ Backlog' = Backlog
      /\ \A c \in DOMAIN conns' : /\ c \in DOMAIN conns /\ conns'[c].up = conns[c].up
                                  /\ (c = sock_conn' \/ c \in Backlog') => Live(c)
  BY <1>1, StillLinks DEF Core
<1>6. DownOrder'
  <2>1. /\ DownStages'[1] = DownStages[1] /\ DownStages'[2] = DownStages[2] /\ DownStages'[3] = DownStages[3]
        /\ DownStages'[4] = DownStages[4] \cup {bpr} /\ DownStages'[5] = {} /\ DownStages[5] = {bpr}
        /\ DownStages[4] = Range(incoming)
    BY <1>1, <1>3, <1>5, DownStagesAre, DownStagesNext
  <2>2. 4 \in DownIndex /\ 5 \in DownIndex /\ DownIndex \in SUBSET Int /\ \A n \in DownIndex : ~(4 < n /\ n < 5)
    BY DownIndexIs
  <2>3. Chain(DownIndex, DownStages) /\ \A n \in DownIndex : DownStages[n] \subseteq 1 .. ndown
    BY DEF Core, DownOrder
  <2>4. \A n \in DownIndex : n # 4 => DownStages'[n] \subseteq DownStages[n]
    BY <2>1, DownIndexIs
  <2>5. Chain(DownIndex, DownStages')
    <3>1. Moved(DownIndex, DownStages, DownStages', 4, 5, bpr)
      <4>1. bpr \in DownStages[5] /\ DownStages'[5] = {} /\ DownStages'[4] \subseteq DownStages[4] \cup {bpr}
        BY <2>1
      <4>2. DownIndex \subseteq Int /\ 4 < 5 /\ \A n \in DownIndex : 4 < n /\ n < 5 => DownStages[n] = {}
        BY <2>2
      <4> QED
        BY <2>2, <2>3, <2>4, <4>1, <4>2, Zenon DEF Moved
    <3> QED
      BY <3>1, ChainMoved
  <2>6. \A n \in DownIndex : DownStages'[n] \subseteq 1 .. ndown'
    BY <1>1, <2>1, <2>2, <2>3, <2>4
  <2>7. \A y \in Range(incoming) : y < bpr
    BY <2>1, <2>2, <2>3 DEF Chain
  <2>8. Increasing(incoming')
    BY <1>1, <1>2, <2>7, AppendedOrder
  <2> QED
    BY <1>1, <1>5, <2>5, <2>6, <2>8 DEF Core, DownOrder
<1>7. UpOrder'
  BY <1>1, <1>4, <1>5, UpSame DEF Core
<1>8. ASSUME Calm' PROVE Queues'
  <2>1. Calm
    BY <1>1, <1>8 DEF Calm
  <2>2. Pushing' = Pushing /\ Sending' = Sending
    BY <1>1 DEF Pushing, Sending, Held
  <2>3. (delivered \o Down \o Sending \o incoming) \o <<bpr>> = ((delivered \o Down \o Sending) \o Append(incoming, bpr)) \o <<>>
    <3>1. delivered \o Down \o Sending \in Seq(Msg)
      BY PartsTyped DEF Core
    <3> QED
      BY <1>2, <3>1, ShiftIn, Zenon
  <2>4. First(ndown') = delivered' \o Down' \o Sending' \o incoming' \o Held(bpr')
    BY <1>1, <1>2, <1>5, <2>1, <2>2, <2>3, HeldIs DEF Core, Queues
  <2> QED
    BY <1>1, <1>5, <2>1, <2>2, <2>4, UpQueueKept DEF Core, Queues
<1> QED
  BY <1>4, <1>5, <1>6, <1>7, <1>8 DEF Core, Queues

(* The datagrams of a connection change, and nothing else of it. *)
DataSet(c, u, w) == conns' = [conns EXCEPT ![c] = [conns[c] EXCEPT !.up = u, !.down = w]]

LEMMA DataLinks ==
  ASSUME Typed, Links, NEW c \in DOMAIN conns, NEW u \in Seq(Msg), NEW w \in Seq(Msg), DataSet(c, u, w),
         UNCHANGED <<sock_fd, sock_conn>>, sw' # "top" => sw # "top"
  PROVE  /\ conns' \in Seq(ConnShape) /\ Len(conns') = Len(conns) /\ DOMAIN conns' = DOMAIN conns
         /\ conns'[c].up = u /\ conns'[c].down = w
         /\ \A d \in DOMAIN conns : d # c => conns'[d] = conns[d]
         /\ Backlog' = Backlog /\ Links'
<1> DEFINE v == [conns[c] EXCEPT !.up = u, !.down = w]
<1>1. conns[c] \in ConnShape
  BY TypedFacts
<1>2. /\ v \in ConnShape /\ v.up = u /\ v.down = w /\ v.acc = conns[c].acc
      /\ v.ceof = conns[c].ceof /\ v.peof = conns[c].peof
  BY <1>1 DEF ConnShape
<1>3. conns' = [conns EXCEPT ![c] = v]
  BY DEF DataSet
<1> HIDE DEF v
<1>4. ConnIs(c, v)
  BY <1>2, <1>3, ConnSet
<1>5. Backlog' = Backlog
  BY <1>2, <1>4 DEF ConnIs, Backlog
<1>6. \A d \in DOMAIN conns : conns'[d].ceof = conns[d].ceof
  BY <1>2, <1>4 DEF ConnIs
<1>7. Links'
  BY <1>4, <1>5, <1>6 DEF ConnIs, Links
<1> QED
  BY <1>2, <1>4, <1>5, <1>7 DEF ConnIs

(* cace_amp_proxy_cli_send gives a message to the last connection. *)
LEMMA SendOkStep ==
  ASSUME Core, SendOk PROVE Core'
<1> DEFINE c == sock_fd
           u == Append(conns[c].up, nup)
<1>1. /\ snd = "send" /\ snd' = "idle" /\ c # 0 /\ accepted' = Append(accepted, nup)
      /\ conns' = [conns EXCEPT ![c].up = u]
      /\ UNCHANGED <<sock_fd, sock_conn, sw, item, bps, outgoing, incoming, bpr, delivered, nsig, bundles, nup, ndown, faults>>
  BY DEF SendOk, proxy, world
<1>2. c \in DOMAIN conns /\ conns[c] \in ConnShape /\ conns[c].up \in Seq(Msg) /\ conns[c].down \in Seq(Msg) /\ nup \in Msg
      /\ accepted \in Seq(Msg) /\ DOMAIN conns = 1 .. Len(conns) /\ Len(conns) \in Nat /\ DOMAIN conns \subseteq 1 .. MaxConn
  <2>1. c \in 0 .. Len(conns) /\ nup \in Nat /\ nup # 0 /\ accepted \in Seq(Msg)
    BY <1>1 DEF Core, Typed
  <2>2. DOMAIN conns = 1 .. Len(conns) /\ Len(conns) \in Nat /\ DOMAIN conns \subseteq 1 .. MaxConn
    BY TypedFacts DEF Core
  <2>3. c \in DOMAIN conns
    BY <1>1, <2>1, <2>2
  <2>4. conns[c] \in ConnShape /\ conns[c].up \in Seq(Msg) /\ conns[c].down \in Seq(Msg)
    BY <2>3, TypedFacts DEF Core
  <2> QED
    BY <2>1, <2>2, <2>3, <2>4 DEF Msg
<1>3. u \in Seq(Msg) /\ Range(u) = Range(conns[c].up) \cup {nup}
  BY <1>2, AppendedRange
<1>4. DataSet(c, u, conns[c].down)
  BY <1>1, <1>2 DEF ConnShape, DataSet
<1>5. /\ conns' \in Seq(ConnShape) /\ Len(conns') = Len(conns) /\ DOMAIN conns' = DOMAIN conns
      /\ conns'[c].up = u /\ conns'[c].down = conns[c].down
      /\ \A d \in DOMAIN conns : d # c => conns'[d] = conns[d]
      /\ Backlog' = Backlog /\ Links'
  <2> HIDE DEF u
  <2> QED
    BY <1>1, <1>2, <1>3, <1>4, DataLinks DEF Core
<1>6. accepted' \in Seq(Msg) /\ Range(accepted') = Range(accepted) \cup {nup}
  BY <1>1, <1>2, AppendedRange
<1>7. Typed'
  BY <1>1, <1>5, <1>6 DEF Core, Typed
<1>8. UpOrder'
  <2>1. /\ 4 + c \in UpIndex /\ UpIndex \in SUBSET Int
        /\ \A n \in UpIndex : n # 4 + c => UpStages'[n] = UpStages[n]
    <3>1. ASSUME NEW n \in UpIndex, n \in {1, 2, 3, 4} PROVE UpStages'[n] = UpStages[n]
      BY <1>1, <3>1, UpStagesAre, UpStagesNext
    <3>2. ASSUME NEW d \in 1 .. MaxConn, d # c PROVE UpStages'[4 + d] = UpStages[4 + d]
      BY <1>1, <1>5, <3>2, UpStagesAre, UpStagesNext DEF Live
    <3> QED
      BY <1>2, <3>1, <3>2, UpStagesAre
  <2>2. UpStages'[4 + c] \subseteq UpStages[4 + c] \cup {nup}
    <3>1. c \in 1 .. MaxConn
      BY <1>2
    <3>2. UpStages[4 + c] = IF c \in DOMAIN conns /\ Live(c) THEN Range(conns[c].up) ELSE {}
      BY <3>1, UpStagesAre
    <3>3. UpStages'[4 + c] = IF c \in DOMAIN conns' /\ (c = sock_conn' \/ c \in Backlog') THEN Range(conns'[c].up) ELSE {}
      BY <3>1, UpStagesNext
    <3> QED
      BY <1>1, <1>2, <1>3, <1>5, <3>2, <3>3 DEF Live
  <2>3. \A n \in UpIndex : 4 + c < n => UpStages[n] = {}
    <3>1. c = Len(conns)
      BY <1>1 DEF Core, Links
    <3>2. ASSUME NEW d \in 1 .. MaxConn, 4 + c < 4 + d PROVE UpStages[4 + d] = {}
      BY <1>2, <3>1, <3>2, UpStagesAre
    <3>3. \A n \in {1, 2, 3, 4} : ~(4 + c < n)
      BY <1>2
    <3> QED
      BY <3>2, <3>3, UpStagesAre
  <2>4. Chain(UpIndex, UpStages) /\ \A n \in UpIndex : UpStages[n] \subseteq Range(accepted)
    BY DEF Core, UpOrder
  <2>5. \A y \in Range(accepted) : y < nup /\ y \in Nat
    BY <1>1, <1>2, MsgRange DEF Core, UpOrder, Msg
  <2>6. Chain(UpIndex, UpStages')
    <3>1. Given(UpIndex, UpStages, UpStages', 4 + c, nup)
      BY <1>2, <2>1, <2>2, <2>3, <2>4, <2>5, UpStagesAre DEF Given
    <3> QED
      BY <3>1, ChainGiven
  <2>7. \A n \in UpIndex : UpStages'[n] \subseteq Range(accepted')
    BY <1>6, <2>1, <2>2, <2>4
  <2>8. Increasing(conns[c].up) /\ Range(conns[c].up) \subseteq Range(accepted)
    BY <1>2 DEF Core, UpOrder
  <2>9. Increasing(u)
    BY <1>2, <2>5, <2>8, AppendedOrder
  <2>10. \A d \in DOMAIN conns' : Increasing(conns'[d].up) /\ Range(conns'[d].up) \subseteq Range(accepted')
    BY <1>3, <1>5, <1>6, <2>8, <2>9 DEF Core, UpOrder
  <2>11. \A x \in Range(accepted') : x <= nup' /\ (snd' # "idle" => x < nup')
    BY <1>1, <1>2, <1>6, <2>5 DEF Msg
  <2> QED
    BY <1>1, <2>6, <2>7, <2>10, <2>11 DEF Core, UpOrder
<1>9. Down' = Down /\ Up = conns[c].up /\ Up' = u
  BY <1>1, <1>5 DEF Up, Down
<1>10. DownOrder'
  BY <1>1, <1>7, <1>9, DownLess DEF Core, Typed
<1>11. ASSUME Calm' PROVE Queues'
  <2>1. Calm
    BY <1>1, <1>11 DEF Calm
  <2>2. Pushing' = Pushing /\ Sending' = Sending
    BY <1>1 DEF Pushing, Sending, Held
  <2> DEFINE X == bundles \o Held(bps) \o outgoing \o Pushing
  <2>3. X \in Seq(Msg)
    BY PartsTyped DEF Core
  <2>4. accepted = X \o conns[c].up
    BY <1>9, <2>1 DEF Core, Queues
  <2> HIDE DEF X
  <2>5. accepted' = X \o u
    BY <1>1, <1>2, <2>3, <2>4, ShiftIn
  <2>6. accepted' = bundles' \o Held(bps') \o outgoing' \o Pushing' \o Up'
    BY <1>1, <1>9, <2>2, <2>5 DEF X
  <2> QED
    BY <1>1, <1>9, <2>1, <2>2, <2>6, DownQueueKept DEF Core, Queues
<1> QED
  BY <1>5, <1>7, <1>8, <1>10, <1>11 DEF Core, Queues

(* sock_worker reads the first datagram of its connection, the oldest that    *)
(* anything waits in.                                                         *)
LEMMA SockRecvStep ==
  ASSUME Core, CalmOK, SockRecv PROVE Core'
<1> DEFINE c == sock_conn
           T == conns[c].up
           x == Head(T)
<1>1. /\ sw = "recv" /\ sw' = "push" /\ T # <<>> /\ item' = x
      /\ conns' = [conns EXCEPT ![c].up = Tail(T)]
      /\ UNCHANGED <<sock_fd, sock_conn, snd, accepted, bps, outgoing, incoming, bpr, delivered, nsig, bundles, nup, ndown, faults>>
  BY DEF SockRecv, client, world
<1>2. c \in DOMAIN conns /\ conns[c] \in ConnShape /\ T \in Seq(Msg) /\ conns[c].down \in Seq(Msg)
      /\ DOMAIN conns = 1 .. Len(conns) /\ Len(conns) \in Nat /\ DOMAIN conns \subseteq 1 .. MaxConn
  BY <1>1, TypedFacts DEF Core, Typed, Links
<1>3. Increasing(T) /\ Range(T) \subseteq Range(accepted)
  BY <1>2 DEF Core, UpOrder
<1>4. /\ x \in Range(T) /\ x \in Msg /\ Tail(T) \in Seq(Msg) /\ Range(Tail(T)) \subseteq Range(T)
      /\ Increasing(Tail(T)) /\ \A y \in Range(Tail(T)) : x < y
  BY <1>1, <1>2, <1>3, HeadFirst
<1>5. DataSet(c, Tail(T), conns[c].down)
  BY <1>1, <1>2 DEF ConnShape, DataSet
<1>6. /\ conns' \in Seq(ConnShape) /\ Len(conns') = Len(conns) /\ DOMAIN conns' = DOMAIN conns
      /\ conns'[c].up = Tail(T) /\ conns'[c].down = conns[c].down
      /\ \A d \in DOMAIN conns : d # c => conns'[d] = conns[d]
      /\ Backlog' = Backlog /\ Links'
  BY <1>1, <1>2, <1>4, <1>5, DataLinks DEF Core
<1>7. Typed'
  BY <1>1, <1>4, <1>6 DEF Core, Typed, Msg
<1>8. UpOrder'
  <2>1. /\ 4 \in UpIndex /\ 4 + c \in UpIndex /\ UpIndex \in SUBSET Int /\ 4 < 4 + c
        /\ \A n \in UpIndex : n \notin {4, 4 + c} => UpStages'[n] = UpStages[n]
    <3>1. ASSUME NEW n \in UpIndex, n \in {1, 2, 3} PROVE UpStages'[n] = UpStages[n]
      BY <1>1, <3>1, UpStagesAre, UpStagesNext
    <3>2. ASSUME NEW d \in 1 .. MaxConn, d # c PROVE UpStages'[4 + d] = UpStages[4 + d]
      BY <1>1, <1>6, <3>2, UpStagesAre, UpStagesNext DEF Live
    <3> QED
      BY <1>2, <3>1, <3>2, UpStagesAre
  <2>2. /\ UpStages[4 + c] = Range(T) /\ UpStages'[4 + c] = Range(Tail(T))
        /\ UpStages[4] = {} /\ UpStages'[4] = {x}
    BY <1>1, <1>2, <1>6, UpStagesAre, UpStagesNext DEF Live
  <2>3. \A n \in UpIndex : 4 < n /\ n < 4 + c => UpStages[n] = {}
    <3>1. ASSUME NEW d \in 1 .. MaxConn, 4 + d < 4 + c PROVE UpStages[4 + d] = {}
      <4>1. d # sock_conn /\ d \notin Backlog
        BY <1>2, <3>1 DEF Core, Links
      <4> QED
        BY <4>1, UpStagesAre DEF Live
    <3>2. \A n \in {1, 2, 3, 4} : ~(4 < n)
      OBVIOUS
    <3> QED
      BY <3>1, <3>2, UpStagesAre
  <2>4. Chain(UpIndex, UpStages) /\ \A n \in UpIndex : UpStages[n] \subseteq Range(accepted)
    BY DEF Core, UpOrder
  <2>5. \A n \in UpIndex : n # 4 => UpStages'[n] \subseteq UpStages[n]
    BY <1>4, <2>1, <2>2
  <2>6. Chain(UpIndex, UpStages')
    <3> HIDE DEF c, T, x
    <3>1. Moved(UpIndex, UpStages, UpStages', 4, 4 + c, x)
      BY <1>4, <2>1, <2>2, <2>3, <2>4, <2>5 DEF Moved
    <3> QED
      BY <3>1, ChainMoved
  <2>7. \A n \in UpIndex : UpStages'[n] \subseteq Range(accepted')
    BY <1>1, <1>4, <2>1, <2>2, <2>4, <2>5
  <2>8. \A d \in DOMAIN conns' : Increasing(conns'[d].up) /\ Range(conns'[d].up) \subseteq Range(accepted')
    BY <1>1, <1>3, <1>4, <1>6 DEF Core, UpOrder
  <2> QED
    BY <1>1, <2>6, <2>7, <2>8 DEF Core, UpOrder
<1>9. Down' = Down
  BY <1>1, <1>2, <1>6 DEF Down, Core, Typed
<1>10. DownOrder'
  BY <1>1, <1>7, <1>9, DownLess DEF Core, Typed
<1>11. ASSUME Calm' PROVE Queues'
  <2>1. Calm
    BY <1>1, <1>11 DEF Calm
  <2>2. Pushing = <<>> /\ Pushing' = <<x>> /\ Sending' = <<>> /\ Sending = <<>>
    BY <1>1, <1>4, HeldIs DEF Pushing, Sending
  <2>3. c = sock_fd /\ c # 0
    BY <1>2, <2>1 DEF CalmOK, Core, Links
  <2>4. Up = T /\ Up' = Tail(T)
    BY <1>1, <1>6, <2>3 DEF Up
  <2>5. ((bundles \o Held(bps) \o outgoing) \o <<>>) \o T = ((bundles \o Held(bps) \o outgoing) \o <<x>>) \o Tail(T)
    BY <1>1, <1>2, ShiftOut, PartsTyped DEF Core
  <2>6. accepted' = bundles' \o Held(bps') \o outgoing' \o Pushing' \o Up'
    BY <1>1, <2>1, <2>2, <2>4, <2>5 DEF Core, Queues
  <2> QED
    BY <1>1, <1>9, <2>1, <2>2, <2>6, DownQueueKept DEF Core, Queues
<1> QED
  BY <1>6, <1>7, <1>8, <1>10, <1>11 DEF Core, Queues

(* sock_worker writes the item from the BPA; the connection is the client's    *)
(* if the client has not shut it down.                                         *)
LEMMA SockSendStep ==
  ASSUME Core, SockSend PROVE Core'
<1> DEFINE c == sock_conn
           T == conns[c].down
           w == Append(T, item)
<1>1. /\ sw = "send" /\ sw' \in {"recv", "top"} /\ ~conns[c].ceof /\ item' = 0
      /\ conns' = [conns EXCEPT ![c].down = w]
      /\ UNCHANGED <<sock_fd, sock_conn, snd, accepted, bps, outgoing, incoming, bpr, delivered, nsig, bundles, nup, ndown, faults>>
  BY DEF SockSend, AfterSend, client, world
<1>2. c \in DOMAIN conns /\ c = sock_fd /\ c # 0 /\ conns[c] \in ConnShape /\ T \in Seq(Msg) /\ conns[c].up \in Seq(Msg) /\ item \in Msg
  BY <1>1, TypedFacts DEF Core, Typed, Links, Msg
<1>3. w \in Seq(Msg) /\ Range(w) = Range(T) \cup {item}
  BY <1>2, AppendedRange
<1>4. DataSet(c, conns[c].up, w)
  BY <1>1, <1>2 DEF ConnShape, DataSet
<1>5. /\ conns' \in Seq(ConnShape) /\ Len(conns') = Len(conns) /\ DOMAIN conns' = DOMAIN conns
      /\ conns'[c].up = conns[c].up /\ conns'[c].down = w
      /\ \A d \in DOMAIN conns : d # c => conns'[d] = conns[d]
      /\ Backlog' = Backlog /\ Links'
  <2>1. /\ Typed /\ Links /\ UNCHANGED <<sock_fd, sock_conn>> /\ (sw' # "top" => sw # "top")
    BY <1>1 DEF Core
  <2> HIDE DEF w
  <2> QED
    BY <1>2, <1>3, <1>4, <2>1, DataLinks
<1>6. Typed'
  BY <1>1, <1>5 DEF Core, Typed
<1>7. UpOrder'
  <2>1. \A d \in DOMAIN conns' : /\ d \in DOMAIN conns /\ conns'[d].up = conns[d].up
                                 /\ (d = sock_conn' \/ d \in Backlog') => Live(d)
    BY <1>1, <1>5 DEF Live
  <2> QED
    BY <1>1, <1>6, <2>1, UpLess DEF Core, Typed
<1>8. Down = T /\ Down' = w /\ Up' = Up
  BY <1>1, <1>2, <1>5 DEF Up, Down
<1>9. DownOrder'
  <2>1. /\ DownStages'[1] = DownStages[1] /\ DownStages'[4] = DownStages[4] /\ DownStages'[5] = DownStages[5]
        /\ DownStages'[2] = DownStages[2] \cup {item} /\ DownStages'[3] = {} /\ DownStages[3] = {item}
        /\ DownStages[2] = Range(T)
    BY <1>1, <1>3, <1>8, DownStagesAre, DownStagesNext
  <2>2. 2 \in DownIndex /\ 3 \in DownIndex /\ DownIndex \in SUBSET Int /\ \A n \in DownIndex : ~(2 < n /\ n < 3)
    BY DownIndexIs
  <2>3. Chain(DownIndex, DownStages) /\ \A n \in DownIndex : DownStages[n] \subseteq 1 .. ndown
    BY DEF Core, DownOrder
  <2>4. \A n \in DownIndex : n # 2 => DownStages'[n] \subseteq DownStages[n]
    BY <2>1, DownIndexIs
  <2>5. Chain(DownIndex, DownStages')
    <3>1. Moved(DownIndex, DownStages, DownStages', 2, 3, item)
      BY <2>1, <2>2, <2>3, <2>4 DEF Moved
    <3> QED
      BY <3>1, ChainMoved
  <2>6. \A n \in DownIndex : DownStages'[n] \subseteq 1 .. ndown'
    BY <1>1, <2>1, <2>2, <2>3, <2>4
  <2>7. \A y \in Range(T) : y < item
    BY <2>1, <2>2, <2>3 DEF Chain
  <2>8. Increasing(T)
    BY <1>8 DEF Core, DownOrder
  <2>9. Increasing(w)
    BY <1>2, <2>7, <2>8, AppendedOrder
  <2> QED
    BY <1>1, <1>8, <2>5, <2>6, <2>9 DEF Core, DownOrder
<1>10. ASSUME Calm' PROVE Queues'
  <2>1. Calm
    BY <1>1, <1>10 DEF Calm
  <2>2. Pushing' = <<>> /\ Pushing = <<>> /\ Sending = <<item>> /\ Sending' = <<>>
    BY <1>1, <1>2, HeldIs DEF Pushing, Sending
  <2>3. (delivered \o T) \o <<item>> = (delivered \o w) \o <<>>
    BY <1>2, ShiftIn DEF Core, Typed
  <2>4. First(ndown') = delivered' \o Down' \o Sending' \o incoming' \o Held(bpr')
    BY <1>1, <1>8, <2>1, <2>2, <2>3 DEF Core, Queues
  <2> QED
    BY <1>1, <1>8, <2>1, <2>2, <2>4, UpQueueKept DEF Core, Queues
<1> QED
  BY <1>5, <1>6, <1>7, <1>9, <1>10 DEF Core, Queues

(* cace_amp_proxy_cli_recv takes a message from the connection there is by    *)
(* then.                                                                      *)
LEMMA RecvReadStep ==
  ASSUME Core, RecvRead, sock_fd # 0, ~conns[sock_fd].reset, Readable(sock_fd),
         delivered' = Append(delivered, Head(conns[sock_fd].down)),
         conns' = [conns EXCEPT ![sock_fd].down = Tail(@)]
  PROVE  Core'
<1> DEFINE c == sock_fd
           T == conns[c].down
           x == Head(T)
<1>1. /\ T # <<>> /\ delivered' = Append(delivered, x)
      /\ conns' = [conns EXCEPT ![c].down = Tail(T)]
      /\ UNCHANGED <<sock_fd, sock_conn, sw, item, snd, accepted, bps, outgoing, incoming, bpr, nsig, bundles, nup, ndown, faults>>
  BY DEF RecvRead, Readable, proxy, world
<1>2. c \in DOMAIN conns /\ conns[c] \in ConnShape /\ T \in Seq(Msg) /\ conns[c].up \in Seq(Msg) /\ delivered \in Seq(Msg)
  <2>1. c \in DOMAIN conns /\ delivered \in Seq(Msg)
    BY TypedFacts DEF Core, Typed
  <2> QED
    BY <2>1, TypedFacts DEF Core
<1>3. Down = T
  BY DEF Down
<1>4. Increasing(T) /\ Increasing(delivered)
  BY <1>3 DEF Core, DownOrder
<1>5. /\ x \in Range(T) /\ x \in Msg /\ Tail(T) \in Seq(Msg) /\ Range(Tail(T)) \subseteq Range(T)
      /\ Increasing(Tail(T)) /\ \A y \in Range(Tail(T)) : x < y
  BY <1>1, <1>2, <1>4, HeadFirst
<1>6. DataSet(c, conns[c].up, Tail(T))
  BY <1>1, <1>2 DEF ConnShape, DataSet
<1>7. /\ conns' \in Seq(ConnShape) /\ Len(conns') = Len(conns) /\ DOMAIN conns' = DOMAIN conns
      /\ conns'[c].up = conns[c].up /\ conns'[c].down = Tail(T)
      /\ \A d \in DOMAIN conns : d # c => conns'[d] = conns[d]
      /\ Backlog' = Backlog /\ Links'
  BY <1>1, <1>2, <1>5, <1>6, DataLinks DEF Core
<1>8. delivered' \in Seq(Msg) /\ Range(delivered') = Range(delivered) \cup {x}
  BY <1>1, <1>2, <1>5, AppendedRange
<1>9. Typed'
  BY <1>1, <1>7, <1>8 DEF Core, Typed
<1>10. UpOrder'
  <2>1. \A d \in DOMAIN conns' : /\ d \in DOMAIN conns /\ conns'[d].up = conns[d].up
                                 /\ (d = sock_conn' \/ d \in Backlog') => Live(d)
    BY <1>1, <1>7 DEF Live
  <2> QED
    BY <1>1, <1>9, <2>1, UpLess DEF Core, Typed
<1>11. Down' = Tail(T) /\ Up' = Up
  BY <1>1, <1>7 DEF Up, Down
<1>12. DownOrder'
  <2> HIDE DEF c, T, x
  <2>1. /\ DownStages'[3] = DownStages[3] /\ DownStages'[4] = DownStages[4] /\ DownStages'[5] = DownStages[5]
        /\ DownStages'[1] = DownStages[1] \cup {x} /\ DownStages'[2] = Range(Tail(T)) /\ DownStages[2] = Range(T)
        /\ DownStages[1] = Range(delivered)
    BY <1>1, <1>3, <1>8, <1>11, DownStagesAre, DownStagesNext
  <2>2. 1 \in DownIndex /\ 2 \in DownIndex /\ DownIndex \in SUBSET Int /\ \A n \in DownIndex : ~(1 < n /\ n < 2)
    BY DownIndexIs
  <2>3. Chain(DownIndex, DownStages) /\ \A n \in DownIndex : DownStages[n] \subseteq 1 .. ndown
    BY DEF Core, DownOrder
  <2>4. \A n \in DownIndex : n # 1 => DownStages'[n] \subseteq DownStages[n]
    BY <1>5, <2>1, DownIndexIs
  <2>5. Chain(DownIndex, DownStages')
    <3>1. Moved(DownIndex, DownStages, DownStages', 1, 2, x)
      BY <1>5, <2>1, <2>2, <2>3, <2>4 DEF Moved
    <3> QED
      BY <3>1, ChainMoved
  <2>6. \A n \in DownIndex : DownStages'[n] \subseteq 1 .. ndown'
    BY <1>1, <1>5, <2>1, <2>2, <2>3, <2>4
  <2>7. \A y \in Range(delivered) : y < x
    BY <1>5, <2>1, <2>2, <2>3 DEF Chain
  <2>8. Increasing(delivered')
    BY <1>1, <1>2, <1>4, <1>5, <2>7, AppendedOrder
  <2> QED
    BY <1>1, <1>5, <1>11, <2>5, <2>6, <2>8 DEF Core, DownOrder
<1>13. ASSUME Calm' PROVE Queues'
  <2>1. Calm
    BY <1>1, <1>13 DEF Calm
  <2>2. Pushing' = Pushing /\ Sending' = Sending
    BY <1>1 DEF Pushing, Sending, Held
  <2>3. delivered \o T = Append(delivered, x) \o Tail(T)
    BY <1>1, <1>2, ShiftOut
  <2>4. First(ndown') = delivered' \o Down' \o Sending' \o incoming' \o Held(bpr')
    BY <1>1, <1>3, <1>11, <2>1, <2>2, <2>3 DEF Core, Queues
  <2> QED
    BY <1>1, <1>11, <2>1, <2>2, <2>4, UpQueueKept DEF Core, Queues
<1> QED
  BY <1>7, <1>9, <1>10, <1>12, <1>13 DEF Core, Queues

-----------------------------------------------------------------------------
(* As long as nothing fails ...                                             *)

Sound(c) == ~conns[c].peof /\ ~conns[c].ceof /\ ~conns[c].reset /\ ~conns[c].crd

(* One field that says nothing of the end of a connection changes. *)
LEMMA SoundStep ==
  ASSUME Typed, \A d \in DOMAIN conns : Sound(d), NEW c, NEW e,
         \/ conns' = conns
         \/ conns' = [conns EXCEPT ![c].up = e]
         \/ conns' = [conns EXCEPT ![c].down = e]
         \/ conns' = [conns EXCEPT ![c].acc = e]
  PROVE  \A d \in DOMAIN conns' : /\ ~conns'[d].peof /\ ~conns'[d].ceof /\ ~conns'[d].reset /\ ~conns'[d].crd
<1>1. \A d \in DOMAIN conns : conns[d] \in ConnShape
  BY TypedFacts
<1>2. CASE conns' = conns
  BY <1>2 DEF Sound
<1>3. CASE conns' = [conns EXCEPT ![c].up = e]
  BY <1>1, <1>3 DEF Sound, ConnShape
<1>4. CASE conns' = [conns EXCEPT ![c].down = e]
  BY <1>1, <1>4 DEF Sound, ConnShape
<1>5. CASE conns' = [conns EXCEPT ![c].acc = e]
  BY <1>1, <1>5 DEF Sound, ConnShape
<1> QED
  BY <1>2, <1>3, <1>4, <1>5

LEMMA SoundNew ==
  ASSUME Typed, \A d \in DOMAIN conns : Sound(d), conns' = Append(conns, NewConn)
  PROVE  \A d \in DOMAIN conns' : /\ ~conns'[d].peof /\ ~conns'[d].ceof /\ ~conns'[d].reset /\ ~conns'[d].crd
<1>1. NewConn \in ConnShape /\ ~NewConn.peof /\ ~NewConn.ceof /\ ~NewConn.reset /\ ~NewConn.crd
  BY EmptyOrder DEF NewConn, ConnShape
<1>2. conns \in Seq(ConnShape) /\ DOMAIN conns = 1 .. Len(conns) /\ Len(conns) \in Nat
  BY TypedFacts DEF Typed
<1>3. /\ DOMAIN conns' = 1 .. Len(conns) + 1 /\ conns'[Len(conns) + 1] = NewConn
      /\ \A d \in 1 .. Len(conns) : conns'[d] = conns[d]
  BY <1>1, <1>2, AppendProperties, LenProperties
<1> QED
  BY <1>1, <1>2, <1>3 DEF Sound

(* The sending thread ... *)
LEMMA CalmSend ==
  ASSUME RelayInv, Calm, SendLock \/ SendConnect \/ SendOk \/ SendFails \/ SendDisconnect
  PROVE  CalmOK'
<1>0. /\ up /\ sig = "none" /\ (\A d \in DOMAIN conns : Sound(d))
      /\ snd # "fail" /\ (snd = "send" => sock_fd # 0)
      /\ rcv \notin {"drop", "drop_end", "ended"}
      /\ (rcv \in {"recv", "peek", "read"} => sock_fd # 0) /\ (rcv = "peek" => blocked = sock_fd)
      /\ Typed /\ (sock_fd # 0 => sock_fd \in DOMAIN conns)
  BY TypedFacts DEF RelayInv, CalmOK, Sound, Typed
<1>1. CASE SendLock
  BY <1>0, <1>1 DEF SendLock, CalmOK, Sound, proxy
<1>2. CASE SendConnect
  <2>1. CASE ConnectKeep("snd", "send")
    BY <1>0, <2>1 DEF ConnectKeep, ConnectedTo, CalmOK, Sound, proxy
  <2>2. CASE ConnectNew("snd", "send")
    <3>1. conns' = Append(conns, NewConn) /\ sock_fd = 0 /\ sock_fd' = Len(conns) + 1 /\ snd' = "send"
          /\ UNCHANGED <<rcv, blocked, sig, up>>
      BY <2>2 DEF ConnectNew, ConnectedTo, proxy
    <3>2. sock_fd' # 0
      BY <1>0, <3>1, TypedFacts
    <3> QED
      BY <1>0, <3>1, <3>2, SoundNew DEF CalmOK
  <2>3. CASE ConnectTimeout("snd", "idle")
    BY <1>0, <2>3 DEF ConnectTimeout, ConnectedTo, CalmOK, Sound, proxy
  <2> QED
    BY <1>2, <2>1, <2>2, <2>3 DEF SendConnect
<1>3. CASE SendOk
  <2>1. /\ conns' = [conns EXCEPT ![sock_fd].up = Append(@, nup)] /\ snd' = "idle"
        /\ UNCHANGED <<sock_fd, rcv, blocked, sig, up>>
    BY <1>3 DEF SendOk, proxy
  <2> QED
    BY <1>0, <2>1, SoundStep DEF CalmOK
<1>4. CASE SendFails \/ SendDisconnect
  BY <1>0, <1>4 DEF SendFails, SendDisconnect, Sound
<1> QED
  BY <1>1, <1>2, <1>3, <1>4

(* ... the receiving one ... *)
LEMMA CalmRecv ==
  ASSUME RelayInv, Calm, RecvCheck \/ RecvLock \/ RecvConnect \/ RecvPeek \/ RecvPeeked \/ RecvRead \/ RecvDisconnect
  PROVE  CalmOK'
<1>0. /\ up /\ sig = "none" /\ (\A d \in DOMAIN conns : Sound(d))
      /\ snd # "fail" /\ (snd = "send" => sock_fd # 0)
      /\ rcv \notin {"drop", "drop_end", "ended"}
      /\ (rcv \in {"recv", "peek", "read"} => sock_fd # 0) /\ (rcv = "peek" => blocked = sock_fd)
      /\ Typed /\ (sock_fd # 0 => sock_fd \in DOMAIN conns)
  BY TypedFacts DEF RelayInv, CalmOK, Sound, Typed
<1>1. CASE RecvCheck \/ RecvLock \/ RecvPeek
  BY <1>0, <1>1 DEF RecvCheck, RecvLock, RecvPeek, Running, CalmOK, Sound, proxy
<1>2. CASE RecvConnect
  <2>1. CASE ConnectKeep("rcv", "recv")
    BY <1>0, <2>1 DEF ConnectKeep, ConnectedTo, CalmOK, Sound, proxy
  <2>2. CASE ConnectNew("rcv", "recv")
    <3>1. conns' = Append(conns, NewConn) /\ sock_fd = 0 /\ sock_fd' = Len(conns) + 1 /\ rcv' = "recv"
          /\ UNCHANGED <<snd, blocked, sig, up>>
      BY <2>2 DEF ConnectNew, ConnectedTo, proxy
    <3>2. sock_fd' # 0
      BY <1>0, <3>1, TypedFacts
    <3> QED
      BY <1>0, <3>1, <3>2, SoundNew DEF CalmOK
  <2>3. CASE ConnectTimeout("rcv", "check")
    BY <1>0, <2>3 DEF ConnectTimeout, ConnectedTo, CalmOK, Sound, proxy
  <2> QED
    BY <1>2, <2>1, <2>2, <2>3 DEF RecvConnect
<1>3. CASE RecvPeeked
  <2>1. rcv = "peek" /\ Sound(blocked)
    BY <1>0, <1>3 DEF RecvPeeked
  <2> QED
    BY <1>0, <1>3, <2>1 DEF RecvPeeked, AtEnd, CalmOK, Sound, proxy
<1>4. CASE RecvRead
  <2>1. sock_fd # 0 /\ Sound(sock_fd)
    BY <1>0, <1>4 DEF RecvRead
  <2>2. /\ conns' = [conns EXCEPT ![sock_fd].down = Tail(@)] /\ rcv' = "check"
        /\ UNCHANGED <<sock_fd, snd, blocked, sig, up>>
    BY <1>4, <2>1 DEF RecvRead, AtEnd, Sound, proxy
  <2> QED
    BY <1>0, <2>2, SoundStep DEF CalmOK
<1>5. CASE RecvDisconnect
  BY <1>0, <1>5 DEF RecvDisconnect
<1> QED
  BY <1>1, <1>2, <1>3, <1>4, <1>5

(* ... the signal handler, which is not called, and the proxy. *)
LEMMA CalmRest ==
  ASSUME RelayInv, Calm, Calm', SigStop \/ SigGetFd \/ SigShutdown \/ Server
  PROVE  CalmOK'
<1>0. /\ up /\ sig = "none" /\ (\A d \in DOMAIN conns : Sound(d))
      /\ snd # "fail" /\ (snd = "send" => sock_fd # 0)
      /\ rcv \notin {"drop", "drop_end", "ended"}
      /\ (rcv \in {"recv", "peek", "read"} => sock_fd # 0) /\ (rcv = "peek" => blocked = sock_fd)
      /\ Typed /\ (sw # "top" => sock_conn \in DOMAIN conns) /\ (sock_conn # 0 => sock_conn \in DOMAIN conns)
  BY TypedFacts DEF RelayInv, CalmOK, Sound, Typed, Links
<1>1. faults = 0 /\ nsig = 0 /\ faults' = 0 /\ nsig' = 0
  BY DEF Calm
<1>2. ASSUME UNCHANGED client, up' = up, \A d \in DOMAIN conns' : /\ ~conns'[d].peof /\ ~conns'[d].ceof
                                                                   /\ ~conns'[d].reset /\ ~conns'[d].crd
      PROVE  CalmOK'
  BY <1>0, <1>2 DEF CalmOK, client
<1>3. CASE SigStop \/ SigGetFd \/ SigShutdown
  BY <1>0, <1>1, <1>3 DEF SigStop, SigGetFd, SigShutdown
<1>4. CASE ProxyEnds \/ ProxyStarts \/ SockSendFails \/ BpSendFails
  BY <1>0, <1>1, <1>4 DEF ProxyEnds, ProxyStarts, SockSendFails, BpSendFails
<1>5. CASE SockHangup \/ SockSendPipe
  BY <1>0, <1>5 DEF SockHangup, Hangup, SockSendPipe, Sound
<1>6. CASE SockAccept
  <2>1. PICK c : conns' = [conns EXCEPT ![c].acc = TRUE]
    BY <1>6 DEF SockAccept
  <2> QED
    BY <1>0, <1>2, <1>6, <2>1, SoundStep DEF SockAccept
<1>7. CASE SockSend
  BY <1>0, <1>2, <1>7, SoundStep DEF SockSend
<1>8. CASE SockRecv
  BY <1>0, <1>2, <1>8, SoundStep DEF SockRecv
<1>9. CASE SockPoll \/ SockPop \/ SockPush \/ BpSendPop \/ BpSend \/ BpReceive \/ BpPush
  <2>1. UNCHANGED <<client, up, conns>>
    BY <1>9 DEF SockPoll, SockPop, SockPush, BpSendPop, BpSend, BpReceive, BpPush
  <2> QED
    BY <1>0, <1>2, <2>1 DEF Sound
<1> QED
  BY <1>3, <1>4, <1>5, <1>6, <1>7, <1>8, <1>9 DEF Server

-----------------------------------------------------------------------------
LEMMA InitRelay ==
  ASSUME Init PROVE RelayInv
<1> USE DEF Init
<1>1. Typed
  BY EmptyOrder, ProxyAssumption DEF Typed
<1>2. Links
  BY DEF Links, Backlog
<1>3. UpOrder
  <2>1. \A n \in UpIndex : UpStages[n] = {}
    BY UpStagesAre, EmptyOrder
  <2> QED
    BY <2>1, EmptyOrder DEF UpOrder, Chain
<1>4. DownOrder
  <2>1. \A n \in DownIndex : DownStages[n] = {}
    BY DownStagesAre, DownIndexIs, EmptyOrder DEF Down
  <2> QED
    BY <2>1, EmptyOrder DEF DownOrder, Chain, Down
<1>5. CalmOK
  BY DEF CalmOK
<1>6. Queues
  <2>1. Held(bps) = <<>> /\ Held(bpr) = <<>> /\ Pushing = <<>> /\ Sending = <<>> /\ Up = <<>> /\ Down = <<>>
    BY DEF Held, Pushing, Sending, Up, Down
  <2>2. <<>> \o <<>> = <<>>
    BY EmptyOrder, ConcatEmptySeq
  <2>3. First(0) = <<>>
    BY DEF First
  <2> QED
    BY <2>1, <2>2, <2>3 DEF Queues
<1> QED
  BY <1>1, <1>2, <1>3, <1>4, <1>5, <1>6 DEF RelayInv

LEMMA CoreStep ==
  ASSUME RelayInv, Next PROVE Core'
<1>0. Core /\ CalmOK
  BY DEF RelayInv, Core
<1>1. ASSUME Quiet PROVE Core'
  BY <1>0, <1>1, QuietStep
<1>2. ASSUME Lossy PROVE Core'
  BY <1>0, <1>2, LossyStep
<1>3. CASE SendLock \/ SendFails \/ RecvCheck \/ RecvLock \/ RecvPeek \/ SigStop \/ SigGetFd \/ ProxyStarts \/ SockPoll
  BY <1>0, <1>1, <1>3, QuietActions
<1>4. CASE SendConnect
  <2>1. ConnectKeep("snd", "send") \/ ConnectTimeout("snd", "idle") => Quiet
    BY <1>0, QuietActions
  <2> QED
    BY <1>0, <1>1, <1>4, <2>1, NewStep DEF SendConnect
<1>5. CASE RecvConnect
  <2>1. ConnectKeep("rcv", "recv") \/ ConnectTimeout("rcv", "check") => Quiet
    BY <1>0, QuietActions
  <2> QED
    BY <1>0, <1>1, <1>5, <2>1, NewStep DEF RecvConnect
<1>6. CASE SendDisconnect \/ RecvDisconnect
  BY <1>0, <1>2, <1>6, DisconnectLossy
<1>7. CASE RecvPeeked \/ SigShutdown \/ SockSendFails \/ BpSendFails
  BY <1>0, <1>2, <1>7, FlagActions, SendFailsLossy
<1>8. CASE ProxyEnds \/ SockSendPipe \/ SockAccept \/ SockHangup
  BY <1>0, <1>2, <1>8, GoneLossy, AcceptLossy, HangupLossy
<1>9. CASE RecvRead
  <2>1. CASE UNCHANGED <<delivered, conns>>
    <3>1. Quiet
      BY <1>0, <1>9, <2>1 DEF RecvRead, Quiet, Later, proxy, world, Core, Typed
    <3> QED
      BY <1>1, <3>1
  <2>2. CASE ~UNCHANGED <<delivered, conns>>
    BY <1>0, <1>9, <2>2, RecvReadStep DEF RecvRead
  <2> QED
    BY <2>1, <2>2
<1>10. CASE SendOk \/ SockPop \/ SockSend \/ SockRecv \/ SockPush \/ BpSendPop \/ BpSend \/ BpReceive \/ BpPush
  BY <1>0, <1>10, SendOkStep, SockPopStep, SockSendStep, SockRecvStep, SockPushStep, BpSendPopStep, BpSendStep,
     BpReceiveStep, BpPushStep
<1> QED
  BY <1>3, <1>4, <1>5, <1>6, <1>7, <1>8, <1>9, <1>10 DEF Next, Client, Server

LEMMA StepRelay ==
  ASSUME RelayInv, [Next]_vars PROVE RelayInv'
<1>1. CASE Next
  <2>1. Core'
    BY <1>1, CoreStep
  <2>2. ASSUME Calm' PROVE Calm
    <3>1. faults \in Nat /\ nsig \in Nat /\ faults' \in {faults, faults + 1} /\ nsig' \in {nsig, nsig + 1}
      <4>0. faults \in Nat /\ nsig \in Nat
        BY DEF RelayInv, Typed
      <4>1. CASE SendConnect \/ RecvConnect
        BY <4>0, <4>1 DEF SendConnect, RecvConnect, ConnectKeep, ConnectNew, ConnectTimeout, ConnectedTo, world
      <4>2. CASE SendLock \/ SendOk \/ SendFails \/ SendDisconnect \/ SigStop \/ SigGetFd \/ SigShutdown
        BY <4>0, <4>2 DEF SendLock, SendOk, SendFails, SendDisconnect, SigStop, SigGetFd, SigShutdown, world
      <4>3. CASE RecvCheck \/ RecvLock \/ RecvPeek \/ RecvPeeked \/ RecvRead \/ RecvDisconnect
        BY <4>0, <4>3 DEF RecvCheck, RecvLock, RecvPeek, RecvPeeked, RecvRead, RecvDisconnect, world
      <4>4. CASE Server
        BY <4>0, <4>4 DEF Server, ProxyEnds, ProxyStarts, SockAccept, SockHangup, SockPoll, SockPop, SockSend, SockSendPipe,
           SockSendFails, SockRecv, SockPush, BpSendPop, BpSend, BpSendFails, BpReceive, BpPush, client, world
      <4> QED
        BY <1>1, <4>1, <4>2, <4>3, <4>4 DEF Next, Client
    <3> QED
      BY <2>2, <3>1 DEF Calm
  <2>3. CalmOK'
    <3> SUFFICES ASSUME Calm' PROVE CalmOK'
      BY DEF CalmOK
    <3> QED
      BY <1>1, <2>2, CalmSend, CalmRecv, CalmRest DEF Next, Client
  <2> QED
    BY <2>1, <2>3 DEF RelayInv, Core
<1>2. CASE UNCHANGED vars
  <2> USE <1>2 DEF vars, client, proxy, world
  <2>1. Core'
    <3>1. Quiet
      BY DEF Quiet, Later, RelayInv, Typed
    <3> QED
      BY <3>1, QuietStep DEF RelayInv, Core
  <2>2. CalmOK'
    BY DEF RelayInv, CalmOK, Calm
  <2> QED
    BY <2>1, <2>2 DEF RelayInv, Core
<1> QED
  BY <1>1, <1>2

(* However often the proxy ends and the client of cace_amp_proxy_cli_send and *)
(* cace_amp_proxy_cli_recv connects again, both directions keep the order of  *)
(* messages and repeat none; and as long as nothing fails none is lost, for   *)
(* any depth of the queues between sock_worker, bp_send_worker and            *)
(* bp_recv_worker.                                                            *)
THEOREM OrderKept == Spec => []RelayedInOrder
<1>1. Init => RelayInv
  BY InitRelay
<1>2. RelayInv /\ [Next]_vars => RelayInv'
  BY StepRelay
<1>3. ASSUME RelayInv PROVE RelayedInOrder
  <2>1. Increasing(bundles) /\ Range(bundles) \subseteq Range(accepted)
    <3>1. Increasing(bundles) /\ \A n \in UpIndex : UpStages[n] \subseteq Range(accepted)
      BY <1>3 DEF RelayInv, UpOrder
    <3>2. 1 \in UpIndex /\ UpStages[1] = Range(bundles)
      BY UpStagesAre
    <3> QED
      BY <3>1, <3>2
  <2>2. Increasing(delivered) /\ Range(delivered) \subseteq 1 .. ndown
    BY <1>3, DownStagesAre, DownIndexIs DEF RelayInv, DownOrder
  <2> QED
    BY <1>3, <2>1, <2>2 DEF RelayInv, Queues, Calm, First, Up, Down, Pushing, Sending, RelayedInOrder
<1> QED
  BY <1>1, <1>2, <1>3, PTL DEF Spec
=============================================================================
