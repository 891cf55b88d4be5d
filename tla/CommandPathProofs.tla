------------------------- MODULE CommandPathProofs -------------------------
(***************************************************************************)
(* What the agent handles of a connection is an initial part of what       *)
(* SendCommand accepted for it, for any number of connections and requests *)
(* and every capacity of the channels on the way.                          *)
(***************************************************************************)
EXTENDS CommandPath, AgentLinkProofs

\* The requests are accepted once, and written only when they are.
AcceptedOK ==
  /\ accepted \in [Conns -> Seq(Requests)] /\ delivered \in [Conns -> Seq(Requests)]
  /\ \A c \in Conns : Len(delivered[c]) <= Len(accepted[c])
  /\ \A c, d \in Conns : \A p \in DOMAIN accepted[c], q \in DOMAIN accepted[d] :
       accepted[c][p] = accepted[d][q] => c = d /\ p = q

\* The commands of the link are the written requests, each one once, and those
\* of a connection are numbered in their order.
OriginOK ==
  /\ origin \in Seq(Conns \X Nat) /\ Len(origin) = commands
  /\ \A n \in 1..commands : origin[n][2] \in 1..Len(delivered[origin[n][1]])
  /\ \A m, n \in 1..commands :
       m < n /\ origin[m][1] = origin[n][1] => origin[m][2] < origin[n][2]
  /\ \A c \in Conns : \A p \in 1..Len(delivered[c]) : \E n \in 1..commands : origin[n] = <<c, p>>

\* The commands that were written to a connection.
From(c) == {n \in 1..commands : origin[n][1] = c}

Arriving(c, n) == \E i \in DOMAIN Arrived : Arrived[i] = <<c, n>>
HeldOf(c, n)   == \E k \in Holding : readOf[k] = c /\ held[k] = n
Buffered(c, n) == \E j \in DOMAIN inbox[c] : inbox[c][j] = n

\* A command does not change its connection.
StaysOK ==
  \A c \in Conns : \A n \in Nat :
    Arriving(c, n) \/ HeldOf(c, n) \/ Buffered(c, n) => n \in From(c)

\* The connection has one reader at most, which has not ended.
Sound(c) == ~Shared(c) /\ \A k \in Conns : readOf[k] = c => reader[k] # "exited"

\* As long as its reader runs, no command of a connection is lost.
NoneLost ==
  \A c \in Conns : Sound(c) =>
    \A n \in From(c) : Arriving(c, n) \/ HeldOf(c, n) \/ Buffered(c, n)

\* What arrives has been preceded by all that was written before it.
Gapless ==
  \A i \in DOMAIN Arrived : ~Shared(Arrived[i][1]) =>
    \A n \in From(Arrived[i][1]) : n < Arrived[i][2] =>
      \E h \in DOMAIN Arrived : h < i /\ Arrived[h] = <<Arrived[i][1], n>>

\* The inductive invariant.
PathInv == IInv /\ AcceptedOK /\ OriginOK /\ StaysOK /\ NoneLost /\ Gapless

-----------------------------------------------------------------------------
(* The path is made of the link and the channels.                           *)

LEMMA PathSteps ==
  ASSUME [PathNext]_pathVars
  PROVE  /\ [Next]_vars
         /\ \/ (Step \/ UNCHANGED vars) /\ UNCHANGED channels
            \/ \E c \in Conns : Transmit(c) \/ \E m \in Requests : Accept(c, m)
<1>1. CASE main # "exited" /\ Step /\ UNCHANGED channels
  BY <1>1 DEF Next
<1>2. ASSUME NEW c \in Conns, main # "exited", Transmit(c) PROVE [Next]_vars
  BY <1>2 DEF Next, Transmit
<1>3. ASSUME NEW c \in Conns, NEW m \in Requests, Accept(c, m) PROVE [Next]_vars
  BY <1>3 DEF Accept
<1>4. CASE UNCHANGED pathVars
  BY <1>4 DEF pathVars
<1>5. QED BY <1>1, <1>2, <1>3, <1>4 DEF PathNext

-----------------------------------------------------------------------------
(* What is accepted and written.                                            *)

LEMMA AcceptedStep ==
  ASSUME AcceptedOK, [PathNext]_pathVars
  PROVE  AcceptedOK'
<1>1. CASE UNCHANGED channels
  BY <1>1 DEF channels, AcceptedOK
<1>2. ASSUME NEW c \in Conns, NEW m \in Requests, Accept(c, m)
      PROVE  AcceptedOK'
  <2>1. /\ accepted[c] \in Seq(Requests)
        /\ accepted' = [accepted EXCEPT ![c] = Append(@, m)]
        /\ UNCHANGED delivered
        /\ \A x \in Conns : \A p \in DOMAIN accepted[x] : accepted[x][p] # m
    BY <1>2 DEF Accept, Channel!Accept, Channel!Contents, AcceptedOK
  <2>2. accepted'[c] = Append(accepted[c], m) /\ \A d \in Conns : d # c => accepted'[d] = accepted[d]
    BY <2>1 DEF AcceptedOK
  <2>3. PICK n \in Nat :
          /\ n = Len(accepted[c]) /\ DOMAIN accepted[c] = 1..n
          /\ accepted'[c] \in Seq(Requests) /\ Len(accepted'[c]) = n + 1
          /\ \A p \in DOMAIN accepted[c] : accepted'[c][p] = accepted[c][p]
          /\ accepted'[c][n + 1] = m
          /\ \A p \in DOMAIN accepted'[c] : p \in DOMAIN accepted[c] \/ p = n + 1
    BY <2>1, <2>2, AppendDomain
  <2>4. accepted' \in [Conns -> Seq(Requests)] /\ delivered' \in [Conns -> Seq(Requests)]
    BY <2>1, <2>2, <2>3 DEF AcceptedOK
  <2>5. \A d \in Conns : Len(delivered'[d]) <= Len(accepted'[d])
    <3>1. Len(delivered[c]) \in Nat /\ Len(delivered[c]) <= n
      BY <2>3, LenProperties DEF AcceptedOK
    <3>2. QED BY <2>1, <2>2, <2>3, <3>1 DEF AcceptedOK
  <2>6. \A d \in Conns : \A p \in DOMAIN accepted'[d] :
          \/ p \in DOMAIN accepted[d] /\ accepted'[d][p] = accepted[d][p] /\ accepted[d][p] # m
          \/ d = c /\ p = n + 1 /\ accepted'[d][p] = m
    BY <2>1, <2>2, <2>3
  <2>7. QED BY <2>4, <2>5, <2>6 DEF AcceptedOK
<1>3. ASSUME NEW c \in Conns, Transmit(c)
      PROVE  AcceptedOK'
  <2>1. PICK r : r = accepted[c][Len(delivered[c]) + 1]
    OBVIOUS
  <2>2. /\ UNCHANGED accepted /\ delivered' = [delivered EXCEPT ![c] = Append(@, r)]
        /\ Len(delivered[c]) < Len(accepted[c])
    BY <1>3, <2>1 DEF Transmit, Channel!Deliver
  <2>3. r \in Requests /\ delivered[c] \in Seq(Requests)
        /\ Len(delivered[c]) \in Nat /\ Len(accepted[c]) \in Nat
    BY <2>1, <2>2, LenProperties DEF AcceptedOK
  <2>4. /\ delivered'[c] = Append(delivered[c], r)
        /\ \A d \in Conns : d # c => delivered'[d] = delivered[d]
    BY <2>2 DEF AcceptedOK
  <2>5. delivered'[c] \in Seq(Requests) /\ Len(delivered'[c]) = Len(delivered[c]) + 1
    BY <2>3, <2>4, AppendProperties
  <2>6. delivered' \in [Conns -> Seq(Requests)]
    BY <2>2, <2>4, <2>5 DEF AcceptedOK
  <2>7. \A d \in Conns : Len(delivered'[d]) <= Len(accepted'[d])
    BY <2>2, <2>3, <2>4, <2>5 DEF AcceptedOK
  <2>8. QED BY <2>2, <2>6, <2>7 DEF AcceptedOK
<1>4. QED BY <1>1, <1>2, <1>3, PathSteps

\* The steps between commands do not change their number.
LEMMA SameCommands ==
  ASSUME TypeOK, RunOK, Step \/ UNCHANGED vars
  PROVE  UNCHANGED commands
BY InboundEffect DEF NoneMoves, StartReading, ReadCommand, PushCommand, inbound

\* A command that is written is the next request of its connection.
LEMMA Transmitted ==
  ASSUME TypeOK, AcceptedOK, OriginOK, NEW c \in Conns, Transmit(c)
  PROVE  \E N \in Nat, P \in Nat :
           /\ N = commands /\ commands' = N + 1 /\ DOMAIN origin = 1..N
           /\ P = Len(delivered[c]) /\ Len(delivered'[c]) = P + 1
           /\ \A d \in Conns : d # c => delivered'[d] = delivered[d]
           /\ origin' \in Seq(Conns \X Nat) /\ Len(origin') = N + 1
           /\ \A n \in 1..N : origin'[n] = origin[n]
           /\ origin'[N + 1] = <<c, P + 1>>
<1>1. commands \in Nat /\ commands' = commands + 1
  BY LinkAssumption DEF TypeOK, Transmit, PeerWrites
<1>2. PICK r : r = accepted[c][Len(delivered[c]) + 1]
  OBVIOUS
<1>3. /\ delivered' = [delivered EXCEPT ![c] = Append(@, r)]
      /\ Len(delivered[c]) < Len(accepted[c])
      /\ origin' = Append(origin, <<c, Len(delivered[c]) + 1>>)
  BY <1>2 DEF Transmit, Channel!Deliver
<1>4. r \in Requests /\ delivered[c] \in Seq(Requests)
      /\ Len(delivered[c]) \in Nat /\ Len(accepted[c]) \in Nat
  BY <1>2, <1>3, LenProperties DEF AcceptedOK
<1>5. /\ delivered'[c] = Append(delivered[c], r)
      /\ \A d \in Conns : d # c => delivered'[d] = delivered[d]
  BY <1>3 DEF AcceptedOK
<1>6. Len(delivered'[c]) = Len(delivered[c]) + 1
  BY <1>4, <1>5, AppendProperties
<1>7. PICK e \in Conns \X Nat : e = <<c, Len(delivered[c]) + 1>>
  <2>1. PICK p \in Nat : p = Len(delivered[c]) + 1
    BY <1>4
  <2>2. <<c, p>> \in Conns \X Nat
    OBVIOUS
  <2>3. QED BY <2>1, <2>2
<1>8. origin' = Append(origin, e) /\ origin \in Seq(Conns \X Nat) /\ Len(origin) = commands
  BY <1>3, <1>7 DEF OriginOK
<1>9. /\ DOMAIN origin = 1..commands
      /\ origin' \in Seq(Conns \X Nat) /\ Len(origin') = commands + 1
      /\ \A n \in DOMAIN origin : origin'[n] = origin[n]
      /\ origin'[commands + 1] = e
  BY <1>8, AppendDomain
<1>10. QED BY <1>1, <1>4, <1>5, <1>6, <1>7, <1>9

\* The source of a command.
LEMMA OriginTypes ==
  ASSUME OriginOK, commands \in Nat
  PROVE  \A n \in 1..commands : /\ origin[n] = <<origin[n][1], origin[n][2]>>
                                /\ origin[n][1] \in Conns /\ origin[n][2] \in Nat
<1>1. DOMAIN origin = 1..commands /\ origin \in Seq(Conns \X Nat)
  BY LenProperties DEF OriginOK
<1>2. \A n \in 1..commands : origin[n] \in Conns \X Nat
  BY <1>1, Elements
<1>3. QED BY <1>2

LEMMA OriginStep ==
  ASSUME TypeOK, RunOK, AcceptedOK, OriginOK, [PathNext]_pathVars
  PROVE  OriginOK'
<1>1. CASE (Step \/ UNCHANGED vars) /\ UNCHANGED channels
  BY <1>1, SameCommands DEF channels, OriginOK
<1>2. ASSUME NEW c \in Conns, NEW m \in Requests, Accept(c, m)
      PROVE  OriginOK'
  BY <1>2 DEF Accept, Channel!Accept, OriginOK, vars, inbound
<1>3. ASSUME NEW c \in Conns, Transmit(c)
      PROVE  OriginOK'
  <2>1. PICK N \in Nat, P \in Nat :
          /\ N = commands /\ commands' = N + 1 /\ DOMAIN origin = 1..N
          /\ P = Len(delivered[c]) /\ Len(delivered'[c]) = P + 1
          /\ \A d \in Conns : d # c => delivered'[d] = delivered[d]
          /\ origin' \in Seq(Conns \X Nat) /\ Len(origin') = N + 1
          /\ \A n \in 1..N : origin'[n] = origin[n]
          /\ origin'[N + 1] = <<c, P + 1>>
    BY <1>3, Transmitted
  <2>2. \A n \in 1..N : origin[n][1] \in Conns /\ origin[n][2] \in Nat
    BY <2>1, OriginTypes
  <2>3. \A d \in Conns : Len(delivered[d]) \in Nat
    BY LenProperties DEF AcceptedOK
  <2>4. \A n \in 1..commands' : n \in 1..N \/ n = N + 1
    BY <2>1
  <2>5. \A d \in Conns : Len(delivered'[d]) = IF d = c THEN P + 1 ELSE Len(delivered[d])
    BY <2>1
  <2>6. ASSUME NEW n \in 1..commands' PROVE origin'[n][2] \in 1..Len(delivered'[origin'[n][1]])
    <3>1. CASE n = N + 1
      BY <2>1, <3>1
    <3>2. CASE n \in 1..N
      <4>1. origin'[n] = origin[n] /\ origin[n][2] \in 1..Len(delivered[origin[n][1]])
        BY <2>1, <3>2 DEF OriginOK
      <4>2. PICK d \in Conns : d = origin[n][1]
        BY <2>2, <3>2
      <4>3. Len(delivered[d]) \in Nat /\ Len(delivered'[d]) \in Nat /\ Len(delivered[d]) <= Len(delivered'[d])
        <5>1. /\ Len(delivered[d]) \in Nat
              /\ Len(delivered'[d]) = IF d = c THEN P + 1 ELSE Len(delivered[d])
          BY <2>3, <2>5
        <5>2. d = c => Len(delivered[d]) = P
          BY <2>1
        <5>3. QED BY <5>1, <5>2
      <4>4. QED BY <4>1, <4>2, <4>3
    <3>3. QED BY <2>4, <3>1, <3>2
  <2>7. ASSUME NEW m \in 1..commands', NEW n \in 1..commands', m < n, origin'[m][1] = origin'[n][1]
        PROVE  origin'[m][2] < origin'[n][2]
    <3>1. m \in 1..N /\ origin'[m] = origin[m] /\ origin[m][2] \in 1..Len(delivered[origin[m][1]])
      BY <2>1, <2>7 DEF OriginOK
    <3>2. CASE n = N + 1
      <4>1. origin'[n][1] = c /\ origin'[n][2] = P + 1
        BY <2>1, <3>2
      <4>2. origin[m][1] = c /\ origin'[m][2] = origin[m][2]
        BY <2>7, <3>1, <4>1
      <4>3. origin[m][2] \in 1..P
        BY <2>1, <3>1, <4>2
      <4>4. QED BY <4>1, <4>2, <4>3
    <3>3. CASE n \in 1..N
      BY <2>1, <2>7, <3>1, <3>3 DEF OriginOK
    <3>4. QED BY <2>4, <3>2, <3>3
  <2>8. ASSUME NEW d \in Conns, NEW p \in 1..Len(delivered'[d])
        PROVE  \E n \in 1..commands' : origin'[n] = <<d, p>>
    <3>1. CASE p \in 1..Len(delivered[d])
      <4>1. PICK n \in 1..N : origin[n] = <<d, p>>
        BY <2>1, <3>1 DEF OriginOK
      <4>2. n \in 1..commands' /\ origin'[n] = <<d, p>>
        BY <2>1, <4>1
      <4>3. QED BY <4>2
    <3>2. CASE d = c /\ p = P + 1
      BY <2>1, <3>2
    <3>3. CASE d # c
      BY <2>8, <2>5, <3>1, <3>3
    <3>4. CASE d = c
      <4>1. p \in 1..(P + 1) /\ P = Len(delivered[d])
        BY <2>1, <2>8, <2>5, <3>4
      <4>2. QED BY <3>1, <3>2, <3>4, <4>1
    <3>5. QED BY <3>3, <3>4
  <2>9. QED BY <2>1, <2>6, <2>7, <2>8 DEF OriginOK
<1>4. QED BY <1>1, <1>2, <1>3, PathSteps

-----------------------------------------------------------------------------
(* Where the commands of a connection are.                                  *)

PlacesOK == StaysOK /\ NoneLost /\ Gapless

\* A reader that forgets a command has ended, and its connection with it.
LEMMA NoneMovesPlaces ==
  ASSUME PlacesOK, NoneMoves, UNCHANGED origin
  PROVE  PlacesOK'
<1> USE DEF NoneMoves
<1>1. \A c : /\ From(c)' = From(c) /\ Shared(c)' = Shared(c)
             /\ Sound(c)' => Sound(c)
  BY DEF From, Shared, Sound
<1>2. \A c, n : /\ Arriving(c, n)' = Arriving(c, n) /\ Buffered(c, n)' = Buffered(c, n)
                /\ HeldOf(c, n)' => HeldOf(c, n)
  BY DEF Arriving, Buffered, HeldOf
<1>3. ASSUME NEW c \in Conns, NEW n, Sound(c)', HeldOf(c, n) PROVE HeldOf(c, n)'
  BY <1>3 DEF HeldOf, Sound, Holding
<1>4. StaysOK'
  BY <1>1, <1>2 DEF PlacesOK, StaysOK
<1>5. NoneLost'
  BY <1>1, <1>2, <1>3 DEF PlacesOK, NoneLost
<1>6. Gapless'
  BY <1>1 DEF PlacesOK, Gapless
<1>7. QED BY <1>4, <1>5, <1>6 DEF PlacesOK

\* A reader that starts leaves every command where it is.
LEMMA StartReadingPlaces ==
  ASSUME TypeOK, ReadersOK, PlacesOK, NEW k \in Conns, StartReading(k), UNCHANGED origin
  PROVE  PlacesOK'
<1>1. /\ UNCHANGED <<held, inbox, Arrived, commands>> /\ readOf[k] = NoConn
      /\ \A l \in Conns : l # k => readOf'[l] = readOf[l] /\ reader'[l] = reader[l]
      /\ Holding' = Holding /\ k \notin Holding /\ Holding \subseteq Conns
  BY DEF StartReading, ReadersOK, TypeOK, Holding, inbound, Arrived
<1>2. NoConn \notin Conns
  BY InboundTypes
<1>3. \A c \in Conns : From(c)' = From(c) /\ (Shared(c) => Shared(c)') /\ (Sound(c)' => Sound(c))
  BY <1>1, <1>2 DEF From, Shared, Sound
<1>4. \A c, n : /\ Arriving(c, n)' = Arriving(c, n) /\ Buffered(c, n)' = Buffered(c, n)
                /\ HeldOf(c, n)' = HeldOf(c, n)
  BY <1>1 DEF Arriving, Buffered, HeldOf
<1>5. StaysOK'
  BY <1>3, <1>4 DEF PlacesOK, StaysOK
<1>6. NoneLost'
  BY <1>3, <1>4 DEF PlacesOK, NoneLost
<1>7. Gapless'
  BY <1>1, <1>3, InboundTypes DEF PlacesOK, Gapless
<1>8. QED BY <1>5, <1>6, <1>7 DEF PlacesOK

\* The oldest command of a socket goes into the hand of its reader.
LEMMA ReadCommandPlaces ==
  ASSUME TypeOK, ReadersOK, PlacesOK, NEW k \in Conns, ReadCommand(k), UNCHANGED origin
  PROVE  PlacesOK'
<1>1. PICK c \in Conns : c = readOf[k]
  BY DEF ReadCommand, ReadersOK
<1>2. /\ inbox[c] \in Seq(1..MaxCommands) /\ inbox[c] # <<>>
      /\ inbox' = [inbox EXCEPT ![c] = Tail(@)]
      /\ held' = [held EXCEPT ![k] = Head(inbox[c])]
      /\ reader[k] = "reading" /\ reader' = [reader EXCEPT ![k] = "holding"]
      /\ UNCHANGED <<readOf, Arrived, commands>>
  BY <1>1 DEF ReadCommand, TypeOK, Arrived
<1>3. PICK L \in Nat \ {0} :
        /\ DOMAIN inbox[c] = 1..L /\ DOMAIN Tail(inbox[c]) = 1..(L - 1)
        /\ Head(inbox[c]) = inbox[c][1]
        /\ \A j \in 1..(L - 1) : Tail(inbox[c])[j] = inbox[c][j + 1]
  <2>1. /\ DOMAIN inbox[c] = 1..Len(inbox[c]) /\ Len(inbox[c]) \in Nat \ {0}
        /\ Tail(inbox[c]) \in Seq(1..MaxCommands) /\ Len(Tail(inbox[c])) = Len(inbox[c]) - 1
        /\ Head(inbox[c]) = inbox[c][1]
        /\ \A j \in DOMAIN Tail(inbox[c]) : Tail(inbox[c])[j] = inbox[c][j + 1]
    BY <1>2, TailDomain
  <2>2. DOMAIN Tail(inbox[c]) = 1..(Len(inbox[c]) - 1)
    BY <2>1, LenProperties
  <2>3. QED BY <2>1, <2>2
<1>4. inbox'[c] = Tail(inbox[c]) /\ \A d \in Conns : d # c => inbox'[d] = inbox[d]
  BY <1>2 DEF TypeOK
<1>5. /\ held'[k] = inbox[c][1] /\ \A l \in Conns : l # k => held'[l] = held[l]
      /\ Holding' = Holding \cup {k} /\ k \notin Holding /\ Holding \subseteq Conns
      /\ \A l \in Conns : reader'[l] = "exited" <=> reader[l] = "exited"
  BY <1>2, <1>3 DEF TypeOK, Holding
<1>6. \A d \in Conns : From(d)' = From(d) /\ Shared(d)' = Shared(d) /\ Sound(d)' = Sound(d)
  BY <1>2, <1>5 DEF From, Shared, Sound
<1>7. \A d, n : Arriving(d, n)' = Arriving(d, n)
  BY <1>2 DEF Arriving
<1>8. \A d \in Conns : \A n :
        /\ HeldOf(d, n)' <=> HeldOf(d, n) \/ (d = c /\ n = inbox[c][1])
        /\ Buffered(d, n)' => Buffered(d, n)
        /\ Buffered(d, n) => Buffered(d, n)' \/ (d = c /\ n = inbox[c][1])
  <2>1. SUFFICES ASSUME NEW d \in Conns, NEW n
                 PROVE  /\ HeldOf(d, n)' <=> HeldOf(d, n) \/ (d = c /\ n = inbox[c][1])
                        /\ Buffered(d, n)' => Buffered(d, n)
                        /\ Buffered(d, n) => Buffered(d, n)' \/ (d = c /\ n = inbox[c][1])
    OBVIOUS
  <2>2. HeldOf(d, n)' <=> HeldOf(d, n) \/ (d = c /\ n = inbox[c][1])
    BY <1>1, <1>2, <1>5 DEF HeldOf
  <2>3. CASE d # c
    BY <1>4, <2>2, <2>3 DEF Buffered
  <2>4. CASE d = c
    <3>1. ASSUME Buffered(c, n)' PROVE Buffered(c, n)
      <4>1. PICK j \in 1..(L - 1) : Tail(inbox[c])[j] = n
        BY <1>3, <1>4, <3>1 DEF Buffered
      <4>2. j + 1 \in 1..L /\ inbox[c][j + 1] = n
        BY <1>3, <4>1
      <4>3. QED BY <1>3, <4>2 DEF Buffered
    <3>2. ASSUME Buffered(c, n), n # inbox[c][1] PROVE Buffered(c, n)'
      <4>1. PICK j \in 1..L : inbox[c][j] = n
        BY <1>3, <3>2 DEF Buffered
      <4>2. j # 1 /\ j - 1 \in 1..(L - 1) /\ j = (j - 1) + 1
        BY <3>2, <4>1
      <4>3. Tail(inbox[c])[j - 1] = n
        BY <1>3, <4>1, <4>2
      <4>4. QED BY <1>3, <1>4, <4>2, <4>3 DEF Buffered
    <3>3. QED BY <2>2, <2>4, <3>1, <3>2
  <2>5. QED BY <2>3, <2>4
<1>9. Buffered(c, inbox[c][1])
  BY <1>3 DEF Buffered
<1>10. StaysOK'
  BY <1>6, <1>7, <1>8, <1>9 DEF PlacesOK, StaysOK
<1>11. NoneLost'
  BY <1>6, <1>7, <1>8 DEF PlacesOK, NoneLost
<1>12. Gapless'
  BY <1>2, <1>6, InboundTypes DEF PlacesOK, Gapless
<1>13. QED BY <1>10, <1>11, <1>12 DEF PlacesOK

\* The command a reader holds arrives; all that were written before it to its
\* connection have arrived, if the connection has one reader.
LEMMA PushCommandPlaces ==
  ASSUME TypeOK, ReadersOK, InboundOK, PlacesOK, NEW k \in Conns, PushCommand(k), UNCHANGED origin
  PROVE  PlacesOK'
<1>1. /\ k \in Holding /\ Holding' = Holding \ {k} /\ Holding \subseteq Conns
      /\ UNCHANGED <<readOf, held, inbox, commands>>
      /\ \A l \in Conns : reader'[l] = "exited" <=> reader[l] = "exited"
  BY DEF PushCommand, Holding, TypeOK
<1>2. PICK c \in Conns : c = readOf[k]
  BY DEF PushCommand, ReadersOK
<1>3. PICK m \in Nat : m = held[k]
  BY InboundTypes
<1>4. PICK N \in Nat :
        /\ DOMAIN Arrived = 1..N /\ DOMAIN Arrived' = 1..(N + 1)
        /\ \A i \in 1..N : Arrived'[i] = Arrived[i]
        /\ Arrived'[N + 1] = <<c, m>>
  <2>1. PICK e \in Command : e = <<c, m>> /\ Arrived' = Append(Arrived, e) /\ Arrived \in Seq(Command)
    BY <1>2, <1>3, PushArrives, InboundTypes
  <2>2. /\ DOMAIN Arrived = 1..Len(Arrived) /\ Len(Arrived) \in Nat
        /\ Arrived' \in Seq(Command) /\ Len(Arrived') = Len(Arrived) + 1
        /\ \A i \in DOMAIN Arrived : Arrived'[i] = Arrived[i]
        /\ Arrived'[Len(Arrived) + 1] = e
    BY <2>1, AppendDomain
  <2>3. DOMAIN Arrived' = 1..(Len(Arrived) + 1)
    BY <2>2, LenProperties
  <2>4. QED BY <2>1, <2>2, <2>3
<1>5. \A d \in Conns : From(d)' = From(d) /\ Shared(d)' = Shared(d) /\ Sound(d)' = Sound(d)
  BY <1>1 DEF From, Shared, Sound
<1>6. \A d, n : Buffered(d, n)' = Buffered(d, n)
  BY <1>1 DEF Buffered
<1>7. \A d, n : Arriving(d, n)' <=> Arriving(d, n) \/ <<d, n>> = <<c, m>>
  BY <1>4 DEF Arriving
<1>8. \A d \in Conns : \A n :
        /\ HeldOf(d, n)' => HeldOf(d, n)
        /\ HeldOf(d, n) => HeldOf(d, n)' \/ (d = c /\ n = m)
  BY <1>1, <1>2, <1>3 DEF HeldOf
<1>9. HeldOf(c, m)
  BY <1>1, <1>2, <1>3 DEF HeldOf
<1>10. StaysOK'
  BY <1>5, <1>6, <1>7, <1>8, <1>9 DEF PlacesOK, StaysOK
<1>11. NoneLost'
  BY <1>5, <1>6, <1>7, <1>8 DEF PlacesOK, NoneLost
<1>12. Gapless'
  <2>1. SUFFICES ASSUME NEW i \in DOMAIN Arrived', ~Shared(Arrived[i][1])',
                        NEW n \in From(Arrived[i][1])', n < Arrived'[i][2]
                 PROVE  \E h \in DOMAIN Arrived' : h < i /\ Arrived'[h] = <<Arrived'[i][1], n>>
    BY DEF Gapless
  <2>2. i \in 1..N => Arrived'[i] = Arrived[i] /\ Arrived[i][1] \in Conns
    BY <1>4, InboundTypes
  <2>3. i = N + 1 => Arrived'[i][1] = c /\ Arrived'[i][2] = m
    BY <1>4
  <2>4. PICK d \in Conns : d = Arrived'[i][1]
    BY <1>4, <2>1, <2>2, <2>3
  <2>5. ~Shared(d) /\ n \in From(d)
    BY <1>1, <2>1, <2>4 DEF Shared, From
  <2>6. CASE i \in 1..N
    <3>1. PICK h \in 1..N : h < i /\ Arrived[h] = <<d, n>>
      <4>1. /\ i \in DOMAIN Arrived /\ DOMAIN Arrived = 1..N
            /\ Arrived[i][1] = d /\ n < Arrived[i][2]
        BY <1>4, <2>1, <2>2, <2>4, <2>6
      <4>2. QED BY <2>5, <4>1 DEF PlacesOK, Gapless
    <3>2. h \in DOMAIN Arrived' /\ Arrived'[h] = <<d, n>>
      BY <1>4, <3>1
    <3>3. QED BY <2>4, <3>1, <3>2
  <2>7. CASE i = N + 1
    <3>1. d = c /\ n < m
      BY <2>1, <2>3, <2>4, <2>7
    <3>2. \A l \in Conns : readOf[l] = c => l = k
      BY <1>2, <2>5, <3>1 DEF Shared
    <3>3. Sound(c)
      BY <1>1, <2>5, <3>1, <3>2 DEF Sound, Holding
    <3>4. n \in Nat
      BY <2>5, InboundTypes DEF From
    <3>5. ~Buffered(c, n)
      <4>1. \A j \in DOMAIN inbox[c] : m < inbox[c][j] /\ inbox[c][j] \in Nat
        BY <1>1, <1>2, <1>3, <2>5, <3>1, InboundTypes DEF InboundOK, SoleReaderOrder
      <4>2. QED BY <3>1, <3>4, <4>1 DEF Buffered
    <3>6. ~HeldOf(c, n)
      BY <1>1, <1>3, <3>1, <3>2, <3>4 DEF HeldOf
    <3>7. Arriving(c, n)
      BY <2>5, <3>1, <3>3, <3>5, <3>6 DEF PlacesOK, NoneLost
    <3>8. PICK h \in 1..N : Arrived[h] = <<c, n>>
      BY <1>4, <3>7 DEF Arriving
    <3>9. h \in DOMAIN Arrived' /\ h < i /\ Arrived'[h] = <<d, n>>
      BY <1>4, <2>7, <3>1, <3>8
    <3>10. QED BY <2>4, <3>9
  <2>8. QED BY <1>4, <2>1, <2>6, <2>7
<1>13. QED BY <1>10, <1>11, <1>12 DEF PlacesOK

\* The request that is written becomes the newest command of its connection,
\* and waits in the socket.
LEMMA TransmitPlaces ==
  ASSUME TypeOK, AcceptedOK, OriginOK, InboundOK, PlacesOK, NEW c \in Conns, Transmit(c)
  PROVE  PlacesOK'
<1>1. PICK N \in Nat :
        /\ N = commands /\ commands' = N + 1
        /\ \A n \in 1..N : origin'[n] = origin[n]
        /\ origin'[N + 1][1] = c
  BY Transmitted
<1>2. /\ UNCHANGED <<readOf, held, Arrived, reader>> /\ Holding' = Holding
      /\ inbox[c] \in Seq(1..MaxCommands) /\ N + 1 \in 1..MaxCommands
      /\ inbox'[c] = Append(inbox[c], N + 1)
      /\ \A d \in Conns : d # c => inbox'[d] = inbox[d]
  <2>1. PeerWrites(c)
    BY DEF Transmit
  <2>2. UNCHANGED <<readOf, held, taken, recvCh, reader>>
    BY <2>1 DEF PeerWrites, readers
  <2>3. UNCHANGED <<Arrived, Holding>>
    BY <2>2 DEF Arrived, Holding
  <2>4. inbox \in [Conns -> Seq(1..MaxCommands)]
    BY DEF TypeOK
  <2>5. inbox' = [inbox EXCEPT ![c] = Append(@, N + 1)] /\ N < MaxCommands
    BY <1>1, <2>1 DEF PeerWrites
  <2>6. /\ inbox[c] \in Seq(1..MaxCommands)
        /\ inbox'[c] = Append(inbox[c], N + 1)
        /\ \A d \in Conns : d # c => inbox'[d] = inbox[d]
    BY <2>4, <2>5
  <2>7. N + 1 \in 1..MaxCommands
    BY <1>1, <2>5, LinkAssumption
  <2>8. QED BY <2>2, <2>3, <2>6, <2>7
<1>3. \A d \in Conns : \A n : n \in From(d)' <=> n \in From(d) \/ (d = c /\ n = N + 1)
  <2>1. \A n : n \in 1..(N + 1) <=> n \in 1..N \/ n = N + 1
    BY <1>1
  <2>2. QED BY <1>1, <2>1 DEF From
<1>4. \A d \in Conns : Shared(d)' = Shared(d) /\ Sound(d)' = Sound(d)
  BY <1>2 DEF Shared, Sound
<1>5. \A d, n : Arriving(d, n)' = Arriving(d, n) /\ HeldOf(d, n)' = HeldOf(d, n)
  BY <1>2 DEF Arriving, HeldOf
<1>6. \A d \in Conns : \A n : Buffered(d, n)' <=> Buffered(d, n) \/ (d = c /\ n = N + 1)
  <2>1. PICK L \in Nat :
          /\ DOMAIN inbox[c] = 1..L /\ DOMAIN inbox'[c] = 1..(L + 1)
          /\ \A j \in 1..L : inbox'[c][j] = inbox[c][j]
          /\ inbox'[c][L + 1] = N + 1
    <3>1. /\ DOMAIN inbox[c] = 1..Len(inbox[c]) /\ Len(inbox[c]) \in Nat
          /\ inbox'[c] \in Seq(1..MaxCommands) /\ Len(inbox'[c]) = Len(inbox[c]) + 1
          /\ \A j \in DOMAIN inbox[c] : inbox'[c][j] = inbox[c][j]
          /\ inbox'[c][Len(inbox[c]) + 1] = N + 1
      BY <1>2, AppendDomain
    <3>2. DOMAIN inbox'[c] = 1..(Len(inbox[c]) + 1)
      BY <3>1, LenProperties
    <3>3. QED BY <3>1, <3>2
  <2>2. \A n : Buffered(c, n)' <=> Buffered(c, n) \/ n = N + 1
    BY <2>1 DEF Buffered
  <2>3. \A d \in Conns : d # c => \A n : Buffered(d, n)' = Buffered(d, n)
    BY <1>2 DEF Buffered
  <2>4. QED BY <2>2, <2>3
<1>7. StaysOK'
  BY <1>3, <1>5, <1>6 DEF PlacesOK, StaysOK
<1>8. NoneLost'
  BY <1>3, <1>4, <1>5, <1>6 DEF PlacesOK, NoneLost
<1>9. Gapless'
  <2>1. SUFFICES ASSUME NEW i \in DOMAIN Arrived, ~Shared(Arrived[i][1]),
                        NEW n \in From(Arrived[i][1])', n < Arrived[i][2]
                 PROVE  \E h \in DOMAIN Arrived : h < i /\ Arrived[h] = <<Arrived[i][1], n>>
    BY <1>2, <1>4, InboundTypes DEF Gapless
  <2>2. /\ Arrived[i][1] \in Conns /\ Arrived[i][2] \in Nat /\ Arrived[i][2] <= N
    BY <1>1, <2>1, InboundTypes DEF InboundOK, ArrivedOK
  <2>3. n \in From(Arrived[i][1])
    <3>1. PICK d \in Conns : d = Arrived[i][1]
      BY <2>2
    <3>2. n \in From(d)'
      BY <1>2, <2>1, <3>1
    <3>3. n \in 1..(N + 1)
      BY <1>1, <3>2 DEF From
    <3>4. n # N + 1
      BY <2>1, <2>2, <3>3
    <3>5. QED BY <1>3, <3>1, <3>2, <3>4
  <2>4. QED BY <2>1, <2>3 DEF PlacesOK, Gapless
<1>10. QED BY <1>7, <1>8, <1>9 DEF PlacesOK

LEMMA PlacesStep ==
  ASSUME IInv, AcceptedOK, OriginOK, PlacesOK, [PathNext]_pathVars
  PROVE  PlacesOK'
<1>1. TypeOK /\ RunOK /\ ReadersOK /\ InboundOK
  BY DEF IInv, InboundOK
<1>2. CASE (Step \/ UNCHANGED vars) /\ UNCHANGED channels
  <2>1. UNCHANGED origin
    BY <1>2 DEF channels
  <2>2. CASE NoneMoves
    BY <2>1, <2>2, NoneMovesPlaces
  <2>3. ASSUME NEW k \in Conns, StartReading(k) \/ ReadCommand(k) \/ PushCommand(k)
        PROVE  PlacesOK'
    BY <1>1, <2>1, <2>3, StartReadingPlaces, ReadCommandPlaces, PushCommandPlaces
  <2>4. QED BY <1>1, <1>2, <2>2, <2>3, InboundEffect
<1>3. ASSUME NEW c \in Conns, NEW m \in Requests, Accept(c, m)
      PROVE  PlacesOK'
  <2>1. UNCHANGED vars /\ UNCHANGED origin
    BY <1>3 DEF Accept
  <2>2. NoneMoves
    BY <2>1 DEF vars, readers, inbound, Arrived, Holding, NoneMoves
  <2>3. QED BY <2>1, <2>2, NoneMovesPlaces
<1>4. ASSUME NEW c \in Conns, Transmit(c)
      PROVE  PlacesOK'
  BY <1>1, <1>4, TransmitPlaces
<1>5. QED BY <1>2, <1>3, <1>4, PathSteps

-----------------------------------------------------------------------------
(* The invariant of the path.                                               *)

LEMMA PathInvariantInit == PathInit => PathInv
<1>1. SUFFICES ASSUME PathInit PROVE PathInv
  OBVIOUS
<1>2. IInv
  BY <1>1, InvariantInit DEF PathInit
<1>3. /\ accepted = [c \in Conns |-> <<>>] /\ delivered = [c \in Conns |-> <<>>]
      /\ origin = <<>> /\ commands = 0
      /\ taken = <<>> /\ recvCh = <<>> /\ inbox = [c \in Conns |-> <<>>]
      /\ Holding = {}
  BY <1>1 DEF PathInit, Channel!Init, Init, Holding
<1>4. /\ <<>> \in Seq(Requests) /\ <<>> \in Seq(Conns \X Nat) /\ <<>> \in Seq(Command)
      /\ Len(<<>>) = 0 /\ DOMAIN <<>> = {}
  BY EmptySeq
<1>5. AcceptedOK
  BY <1>3, <1>4 DEF AcceptedOK
<1>6. OriginOK
  BY <1>3, <1>4 DEF OriginOK
<1>7. Arrived = <<>>
  BY <1>3, <1>4, ConcatEmptySeq DEF Arrived
<1>8. \A c \in Conns : From(c) = {} /\ \A n : ~Arriving(c, n) /\ ~HeldOf(c, n) /\ ~Buffered(c, n)
  BY <1>3, <1>4, <1>7 DEF From, Arriving, HeldOf, Buffered
<1>9. PlacesOK
  BY <1>4, <1>7, <1>8 DEF PlacesOK, StaysOK, NoneLost, Gapless
<1>10. QED BY <1>2, <1>5, <1>6, <1>9 DEF PathInv, PlacesOK

LEMMA PathInvariantStep == PathInv /\ [PathNext]_pathVars => PathInv'
<1>1. SUFFICES ASSUME PathInv, [PathNext]_pathVars PROVE PathInv'
  OBVIOUS
<1>2. IInv'
  BY <1>1, PathSteps, InvariantStep DEF PathInv
<1>3. AcceptedOK' /\ OriginOK'
  BY <1>1, AcceptedStep, OriginStep DEF PathInv, IInv
<1>4. PlacesOK'
  BY <1>1, PlacesStep DEF PathInv, PlacesOK
<1>5. QED BY <1>2, <1>3, <1>4 DEF PathInv, PlacesOK

\* With the commands of its connection numbered and none missing before it, an
\* arrived command carries a request whose predecessors have arrived.
LEMMA OrderFollows == PathInv => HandledInOrder
<1>1. SUFFICES ASSUME PathInv, NEW i \in DOMAIN Arrived
               PROVE  LET c == Arrived[i][1] IN
                      /\ \A j \in DOMAIN Arrived : j # i => Request(j) # Request(i)
                      /\ \E p \in DOMAIN accepted[c] :
                           /\ Request(i) = accepted[c][p]
                           /\ ~Shared(c) =>
                                \A q \in 1..(p - 1) : \E h \in 1..(i - 1) :
                                  Arrived[h][1] = c /\ Request(h) = accepted[c][q]
  BY DEF HandledInOrder
<1>2. /\ TypeOK /\ InboundOnce /\ ArrivedOK /\ AcceptedOK /\ OriginOK /\ StaysOK /\ Gapless
      /\ commands \in Nat
  BY <1>1, InboundTypes DEF PathInv, IInv
<1>3. PICK N \in Nat : DOMAIN Arrived = 1..N
  BY <1>2, InboundTypes, LenProperties
\* The request of an arrived command.
<1>4. ASSUME NEW j \in DOMAIN Arrived
      PROVE  \E c \in Conns, n \in 1..commands, p \in Nat :
               /\ Arrived[j] = <<c, n>> /\ origin[n] = <<c, p>>
               /\ p \in DOMAIN accepted[c] /\ Request(j) = accepted[c][p]
  <2>1. PICK c \in Conns, n \in Nat : Arrived[j] = <<c, n>>
    <3>1. Arrived[j] \in Command
      BY <1>2, InboundTypes, Elements, Zenon
    <3>2. \A e \in Command : \E c \in Conns, n \in Nat : e = <<c, n>>
      BY DEF Command
    <3>3. QED BY <3>1, <3>2
  <2>2. n \in 1..commands /\ origin[n][1] = c
    BY <1>2, <2>1 DEF StaysOK, Arriving, From
  <2>3. PICK p \in Nat : origin[n] = <<c, p>> /\ p \in 1..Len(delivered[c])
    BY <1>2, <2>2, OriginTypes DEF OriginOK
  <2>4. p \in DOMAIN accepted[c]
    <3>1. /\ DOMAIN accepted[c] = 1..Len(accepted[c])
          /\ Len(accepted[c]) \in Nat /\ Len(delivered[c]) \in Nat
          /\ Len(delivered[c]) <= Len(accepted[c])
      BY <1>2, LenProperties DEF AcceptedOK
    <3>2. QED BY <2>3, <3>1
  <2>5. Request(j) = accepted[c][p]
    BY <2>1, <2>3 DEF Request
  <2>6. QED BY <2>1, <2>2, <2>3, <2>4, <2>5
<1>5. PICK c \in Conns, n \in 1..commands, p \in Nat :
        /\ Arrived[i] = <<c, n>> /\ origin[n] = <<c, p>>
        /\ p \in DOMAIN accepted[c] /\ Request(i) = accepted[c][p]
  BY <1>4
<1>6. ASSUME NEW j \in DOMAIN Arrived, j # i
      PROVE  Request(j) # Request(i)
  <2>1. PICK d \in Conns, m \in 1..commands, q \in Nat :
          /\ Arrived[j] = <<d, m>> /\ origin[m] = <<d, q>>
          /\ q \in DOMAIN accepted[d] /\ Request(j) = accepted[d][q]
    BY <1>4
  <2>2. m # n
    <3>1. i < j \/ j < i
      BY <1>3, <1>6
    <3>2. Arrived[i][2] # Arrived[j][2]
      BY <1>2, <3>1 DEF InboundOnce
    <3>3. QED BY <1>5, <2>1, <3>2
  <2>3. d = c => q # p
    <3>1. m < n \/ n < m
      BY <1>2, <2>2
    <3>2. SUFFICES ASSUME d = c PROVE q < p \/ p < q
      OBVIOUS
    <3>3. \A a, b \in 1..commands :
            a < b /\ origin[a][1] = origin[b][1] => origin[a][2] < origin[b][2]
      BY <1>2 DEF OriginOK
    <3>4. /\ origin[m][1] = c /\ origin[m][2] = q
          /\ origin[n][1] = c /\ origin[n][2] = p
      BY <1>5, <2>1, <3>2
    <3>5. QED BY <3>1, <3>3, <3>4
  <2>4. QED BY <1>2, <1>5, <2>1, <2>3 DEF AcceptedOK
<1>7. ASSUME ~Shared(c), NEW q \in 1..(p - 1)
      PROVE  \E h \in 1..(i - 1) : Arrived[h][1] = c /\ Request(h) = accepted[c][q]
  <2>1. p \in 1..Len(delivered[c]) /\ Len(delivered[c]) \in Nat
    <3>1. origin[n][2] \in 1..Len(delivered[origin[n][1]])
      BY <1>2 DEF OriginOK
    <3>2. Len(delivered[c]) \in Nat
      BY <1>2, LenProperties DEF AcceptedOK
    <3>3. QED BY <1>5, <3>1, <3>2
  <2>2. q \in 1..Len(delivered[c]) /\ q < p /\ q \in Nat
    BY <1>7, <2>1
  <2>3. PICK m \in 1..commands : origin[m] = <<c, q>>
    BY <1>2, <2>2 DEF OriginOK
  <2>4. m < n
    <3>1. ~(n < m)
      <4>1. SUFFICES ASSUME n < m PROVE p < q
        BY <2>2, <1>5
      <4>2. QED BY <1>2, <1>5, <2>3, <4>1 DEF OriginOK
    <3>2. m # n
      BY <1>5, <2>2, <2>3
    <3>3. QED BY <1>2, <3>1, <3>2
  <2>5. m \in From(c) /\ Arrived[i][1] = c /\ Arrived[i][2] = n
    BY <1>5, <2>3 DEF From
  <2>6. PICK h \in DOMAIN Arrived : h < i /\ Arrived[h] = <<c, m>>
    BY <1>2, <1>7, <2>4, <2>5 DEF Gapless
  <2>7. h \in 1..(i - 1)
    BY <1>3, <2>6
  <2>8. Request(h) = accepted[c][q]
    BY <2>3, <2>6 DEF Request
  <2>9. QED BY <2>6, <2>7, <2>8
<1>8. Arrived[i][1] = c
  BY <1>5
<1>9. QED BY <1>5, <1>6, <1>7, <1>8

\* From SendCommand to the agent's dispatcher nothing is reordered, repeated or
\* left out, through every loss, reconnect and shutdown.
THEOREM RequestsInOrder == PathSpec => []HandledInOrder
BY PathInvariantInit, PathInvariantStep, OrderFollows, PTL DEF PathSpec

-----------------------------------------------------------------------------
(* The path implements the link and the channels.                           *)

\* A socket exists from its dial on; Hub.conn and the readers use only those.
SocketsOK ==
  /\ \A c \in Conns : socket[c] = "none" <=> c > dials
  /\ conn <= dials
  /\ \A k \in Conns : readOf[k] <= dials

Opens(c) ==
  /\ c = dials + 1 /\ dials' = c /\ conn' = c /\ UNCHANGED readOf
  /\ socket' = [socket EXCEPT ![c] = "open"]

Ends(c) ==
  /\ c <= dials /\ conn' \in {conn, NoConn} /\ UNCHANGED <<dials, readOf>>
  /\ \E gone \in {"lost", "closed"} : socket' = [socket EXCEPT ![c] = gone]

SocketsStay ==
  /\ UNCHANGED <<socket, dials, conn>>
  /\ \A k \in Conns : readOf'[k] \in {readOf[k], conn}

\* A step opens the next socket, ends one that exists, or leaves them alone.
LEMMA SocketEffect ==
  ASSUME TypeOK, RunOK, ReadersOK, SocketsOK, [Next]_vars
  PROVE  SocketsStay \/ \E c \in Conns : Opens(c) \/ Ends(c)
<1> USE LinkAssumption DEF Conns, NoConn
<1>1. CASE InitialConnect \/ Redial
  <2>1. Dialled /\ UNCHANGED readOf
    BY <1>1 DEF InitialConnect, Redial, readers
  <2>2. dials + 1 \in Conns
    BY <2>1, DialStep
  <2>3. Opens(dials + 1)
    BY <2>1 DEF Opens, Dialled
  <2>4. QED BY <2>2, <2>3
<1>2. CASE closeConn
  <2>1. conn \in Conns /\ conn = dials
    BY <1>2, Working DEF closeConn
  <2>2. Ends(conn)
    BY <1>2, <2>1 DEF closeConn, Ends, readers, TypeOK
  <2>3. QED BY <2>1, <2>2
<1>3. ASSUME NEW k \in Conns, Reader(k)
      PROVE  SocketsStay \/ \E c \in Conns : Opens(c) \/ Ends(c)
  <2>1. CASE StartReading(k)
    <3>1. \A l \in Conns : readOf'[l] \in {readOf[l], conn}
      BY <2>1 DEF StartReading, TypeOK
    <3>2. QED BY <2>1, <3>1 DEF StartReading, SocketsStay
  <2>2. CASE ReadCommand(k) \/ PushCommand(k)
    BY <2>2 DEF ReadCommand, PushCommand, SocketsStay
  <2>3. CASE PushStopped(k) \/ ReadError(k)
    <3>1. ReaderExits(k) /\ reader[k] \in {"reading", "holding"}
      BY <2>3 DEF PushStopped, ReadError
    <3>2. PICK c \in Conns : c = readOf[k]
      BY <3>1 DEF ReadersOK
    <3>3. Ends(c)
      BY <3>1, <3>2 DEF ReaderExits, Ends, SocketsOK
    <3>4. QED BY <3>3
  <2>4. QED BY <1>3, <2>1, <2>2, <2>3 DEF Reader
<1>4. ASSUME NEW c \in Conns, LinkLost(c)
      PROVE  Ends(c)
  <2>1. c <= dials
    BY <1>4 DEF LinkLost, SocketsOK, TypeOK
  <2>2. QED BY <1>4, <2>1 DEF LinkLost, Ends, readers
<1>5. CASE RedialStopped \/ SpawnPumps \/ AfterPumps \/ Pump
  BY <1>5 DEF RedialStopped, SpawnPumps, AfterPumps, Pump, ReadDone, WriteClose, PingFails,
     WriteMessage, PumpReturns, Written, Vanished, SocketsStay, readers
<1>6. CASE Send \/ TakeCommand \/ Shutdown \/ StopHub \/ Exit
  BY <1>6 DEF Send, TakeCommand, Shutdown, StopHub, Exit, SocketsStay, readers
<1>7. ASSUME NEW c \in Conns, PeerWrites(c)
      PROVE  SocketsStay
  BY <1>7 DEF PeerWrites, SocketsStay, readers
<1>8. CASE UNCHANGED vars
  BY <1>8 DEF vars, readers, SocketsStay
<1>9. QED BY <1>1, <1>2, <1>3, <1>4, <1>5, <1>6, <1>7, <1>8 DEF Next, Step

LEMMA SocketsStep ==
  ASSUME TypeOK, RunOK, ReadersOK, SocketsOK, [Next]_vars
  PROVE  SocketsOK'
<1> USE LinkAssumption DEF Conns, NoConn
<1>1. CASE SocketsStay
  BY <1>1 DEF SocketsStay, SocketsOK
<1>2. ASSUME NEW c \in Conns, Opens(c)
      PROVE  SocketsOK'
  <2>1. \A d \in Conns : socket'[d] = IF d = c THEN "open" ELSE socket[d]
    BY <1>2 DEF Opens, TypeOK
  <2>2. \A k \in Conns : readOf'[k] = readOf[k] /\ readOf[k] \in Int
    BY <1>2 DEF Opens, TypeOK
  <2>3. PICK n \in Nat : n = dials /\ dials' = n + 1 /\ c = n + 1 /\ conn' = n + 1
    BY <1>2 DEF Opens, TypeOK
  <2>4. \A d \in Conns : socket'[d] = "none" <=> d > dials'
    BY <2>1, <2>3 DEF SocketsOK
  <2>5. \A k \in Conns : readOf'[k] <= dials'
    BY <2>2, <2>3 DEF SocketsOK
  <2>6. QED BY <2>3, <2>4, <2>5 DEF SocketsOK
<1>3. ASSUME NEW c \in Conns, Ends(c)
      PROVE  SocketsOK'
  <2>1. \A d \in Conns : d # c => socket'[d] = socket[d]
    BY <1>3 DEF Ends, TypeOK
  <2>2. socket'[c] # "none"
    BY <1>3 DEF Ends, TypeOK
  <2>3. conn' <= dials
    BY <1>3 DEF Ends, SocketsOK, TypeOK
  <2>4. UNCHANGED <<dials, readOf>> /\ dials \in Nat /\ c <= dials
    BY <1>3 DEF Ends, TypeOK
  <2>5. \A d \in Conns : socket'[d] = "none" <=> d > dials'
    BY <2>1, <2>2, <2>4 DEF SocketsOK
  <2>6. QED BY <2>3, <2>4, <2>5 DEF SocketsOK
<1>4. QED BY <1>1, <1>2, <1>3, SocketEffect

LEMMA SocketsInvariance == PathSpec => [](IInv /\ SocketsOK)
<1>1. PathInit => IInv /\ SocketsOK
  <2>1. SUFFICES ASSUME PathInit PROVE SocketsOK
    BY InvariantInit DEF PathInit
  <2>2. QED BY <2>1 DEF PathInit, Init, SocketsOK, Conns, NoConn
<1>2. (IInv /\ SocketsOK) /\ [PathNext]_pathVars => (IInv /\ SocketsOK)'
  BY PathSteps, InvariantStep, SocketsStep DEF IInv
<1>3. QED BY <1>1, <1>2, PTL DEF PathSpec

\* A step of the agent opens a channel, fails one, or is not seen by them.
LEMMA StepImplements ==
  ASSUME TypeOK, RunOK, ReadersOK, SocketsOK, [Next]_vars, UNCHANGED <<accepted, delivered>>
  PROVE  [Channel!Next]_(Channel!vars)
<1>1. CASE SocketsStay
  BY <1>1 DEF SocketsStay, ChannelState, Channel!vars
<1>2. ASSUME NEW c \in Conns, Opens(c)
      PROVE  [Channel!Next]_(Channel!vars)
  <2>1. socket[c] = "none"
    BY <1>2, LinkAssumption DEF Opens, SocketsOK, TypeOK, Conns
  <2>2. \A d \in Conns : ChannelState(d)' = IF d = c THEN "up" ELSE ChannelState(d)
    BY <1>2 DEF Opens, ChannelState, TypeOK
  <2>3. ChannelState(c) = "new"
    BY <2>1 DEF ChannelState
  <2>4. Channel!Open(c)
    BY <2>2, <2>3 DEF Channel!Open
  <2>5. QED BY <2>4 DEF Channel!Next
<1>3. ASSUME NEW c \in Conns, Ends(c)
      PROVE  [Channel!Next]_(Channel!vars)
  <2>1. socket[c] # "none"
    BY <1>3, LinkAssumption DEF Ends, SocketsOK, TypeOK, Conns
  <2>2. /\ socket'[c] \in {"lost", "closed"}
        /\ \A d \in Conns : d # c => socket'[d] = socket[d]
    BY <1>3 DEF Ends, TypeOK
  <2>3. ChannelState(c) \in {"up", "down"} /\ ChannelState(c)' = "down"
    BY <2>1, <2>2 DEF ChannelState
  <2>4. \A d \in Conns : d # c => ChannelState(d)' = ChannelState(d)
    BY <2>2 DEF ChannelState
  <2>5. CASE ChannelState(c) = "up"
    <3>1. PICK S \in SUBSET Conns : S = {c}
      OBVIOUS
    <3>2. Channel!Fail(S)
      BY <2>3, <2>4, <2>5, <3>1 DEF Channel!Fail
    <3>3. QED BY <3>2 DEF Channel!Next
  <2>6. CASE ChannelState(c) = "down"
    <3>1. \A d \in Conns : ChannelState(d)' = ChannelState(d)
      BY <2>3, <2>4, <2>6
    <3>2. QED BY <3>1 DEF Channel!vars
  <2>7. QED BY <2>3, <2>5, <2>6
<1>4. QED BY <1>1, <1>2, <1>3, SocketEffect

\* What the agent does with its sockets leaves the channels what AgentHub
\* implements: each is opened once, fed and emptied in order, and fails for good.
THEOREM PathImplementsChannel == PathSpec => Channel!Init /\ [][Channel!Next]_(Channel!vars)
<1>1. PathInit => Channel!Init
  BY DEF PathInit
<1>2. IInv /\ SocketsOK /\ [PathNext]_pathVars => [Channel!Next]_(Channel!vars)
  <2>1. SUFFICES ASSUME IInv, SocketsOK, [PathNext]_pathVars
                 PROVE  [Channel!Next]_(Channel!vars)
    OBVIOUS
  <2>2. CASE UNCHANGED channels
    BY <2>1, <2>2, PathSteps, StepImplements DEF IInv, channels
  <2>3. ASSUME NEW c \in Conns, Transmit(c) PROVE Channel!Next
    BY <2>3 DEF Transmit, Channel!Next
  <2>4. ASSUME NEW c \in Conns, NEW m \in Requests, Accept(c, m) PROVE Channel!Next
    BY <2>4 DEF Accept, Channel!Next
  <2>5. QED BY <2>1, <2>2, <2>3, <2>4, PathSteps
<1>3. QED BY <1>1, <1>2, SocketsInvariance, PTL DEF PathSpec
=============================================================================
