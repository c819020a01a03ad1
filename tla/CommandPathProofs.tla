-------------------------- MODULE CommandPathProofs --------------------------
(***************************************************************************)
(* The arm obeys, for every set of joints and bodies and any number of      *)
(* commands and breaks.                                                     *)
(***************************************************************************)
EXTENDS CommandPath, SequenceTheorems, TLAPS

\* What the broker read passed the validation, and it read no command twice.
OrderIsSound ==
    /\ published = Entries(order)
    /\ \A r \in published : Valid(posts[r])
    /\ \A i, k \in 1..Len(order) : i < k => order[i] # order[k]

\* The commands on their way follow those that moved the arm, in the broker's order.
InLine ==
    /\ Entries(channel) \subseteq published
    /\ \A i \in 1..Len(moves) : moves[i].of \in published
    /\ \A i, k \in 1..Len(channel) : i < k => ReadBefore(channel[i], channel[k])
    /\ \A i \in 1..Len(moves) : \A k \in 1..Len(channel) : ReadBefore(moves[i].of, channel[k])
    /\ \A i, k \in 1..Len(moves) : i < k => ReadBefore(moves[i].of, moves[k].of)

\* A trajectory is the meaning of its command.
Obeys(move) ==
    LET body == posts[move.of]
    IN  /\ \A j \in DOMAIN move.target : move.target[j] \in {"zero", "angle"}
        /\ IF body.kind = "home"
           THEN DOMAIN body.positions = {} /\ move.target = [j \in Joints |-> "zero"]
           ELSE DOMAIN body.positions # {} /\ move.target = body.positions

MovesObey == \A i \in 1..Len(moves) : Obeys(moves[i])

IInv == TypeOK /\ OrderIsSound /\ InLine /\ MovesObey

-----------------------------------------------------------------------------
LEMMA AppendEntries ==
    ASSUME NEW S, NEW s \in Seq(S), NEW x \in S
    PROVE  /\ Append(s, x) \in Seq(S) /\ Len(Append(s, x)) = Len(s) + 1 /\ Len(s) \in Nat
           /\ \A i \in 1..Len(s) : Append(s, x)[i] = s[i]
           /\ Append(s, x)[Len(s) + 1] = x
           /\ Entries(Append(s, x)) = Entries(s) \cup {x}
<1> DEFINE t == Append(s, x)
<1>1. /\ t \in Seq(S) /\ Len(t) = Len(s) + 1 /\ Len(s) \in Nat
      /\ \A i \in 1..Len(s) : t[i] = s[i]
      /\ t[Len(s) + 1] = x
  OBVIOUS
<1> HIDE DEF t
<1>2. \A i \in 1..Len(t) : i \in 1..Len(s) \/ i = Len(s) + 1
  BY <1>1
<1>3. \A i \in 1..Len(s) : i \in 1..Len(t)
  BY <1>1
<1>4. Len(s) + 1 \in 1..Len(t)
  BY <1>1
<1>5. Entries(t) = Entries(s) \cup {x}
  <2>1. ASSUME NEW y \in Entries(t) PROVE y \in Entries(s) \cup {x}
    BY <1>1, <1>2, <2>1 DEF Entries
  <2>2. ASSUME NEW y \in Entries(s) PROVE y \in Entries(t)
    BY <1>1, <1>3, <2>2 DEF Entries
  <2>3. x \in Entries(t)
    BY <1>1, <1>4 DEF Entries
  <2> QED
    BY <2>1, <2>2, <2>3
<1> QED
  BY <1>1, <1>5 DEF t

\* Reading one more command keeps the order of the others.
LEMMA OrderGrows ==
    ASSUME order \in Seq(Commands), NEW r \in Commands, order' = Append(order, r)
    PROVE  /\ \A a, b : ReadBefore(a, b) => ReadBefore(a, b)'
           /\ \A a \in Entries(order) : ReadBefore(a, r)'
<1>1. /\ Len(order') = Len(order) + 1 /\ Len(order) \in Nat
      /\ \A i \in 1..Len(order) : order'[i] = order[i]
      /\ order'[Len(order) + 1] = r
  BY AppendEntries
<1>2. \A i \in 1..Len(order) : i \in 1..Len(order') /\ i < Len(order) + 1
  BY <1>1
<1>3. Len(order) + 1 \in 1..Len(order')
  BY <1>1
<1>4. ASSUME NEW a, NEW b, ReadBefore(a, b) PROVE ReadBefore(a, b)'
  BY <1>1, <1>2, <1>4 DEF ReadBefore
<1>5. ASSUME NEW a \in Entries(order) PROVE ReadBefore(a, r)'
  <2>1. PICK i \in 1..Len(order) : order[i] = a
    BY <1>5 DEF Entries
  <2>2. order'[i] = a /\ i \in 1..Len(order') /\ i < Len(order) + 1
    BY <1>1, <1>2, <2>1
  <2> QED
    BY <1>1, <1>3, <2>2 DEF ReadBefore
<1> QED
  BY <1>4, <1>5

\* A command that the bridge can read says what the body said, which is finite.
LEMMA ReadableIsMeant ==
    ASSUME NEW body \in Bodies, Valid(Serialised(body))
    PROVE  /\ Target(Serialised(body)) \in Positions
           /\ \A j \in DOMAIN Target(Serialised(body)) :
                 Target(Serialised(body))[j] \in {"zero", "angle"}
           /\ IF body.kind = "home"
              THEN /\ DOMAIN body.positions = {}
                   /\ Target(Serialised(body)) = [j \in Joints |-> "zero"]
              ELSE /\ DOMAIN body.positions # {}
                   /\ Target(Serialised(body)) = body.positions
<1> DEFINE p == body.positions
           q == [j \in DOMAIN p |-> IF p[j] = "infinite" THEN "null" ELSE p[j]]
<1>1. /\ body \in AllBodies
      /\ \A j \in DOMAIN p : p[j] # "null"
  BY CommandPathAssumption
<1>2. /\ Serialised(body).kind = body.kind
      /\ Serialised(body).positions = q
      /\ body.kind \in {"home", "move_joints"}
      /\ p \in Positions
  BY <1>1 DEF Serialised, AllBodies
<1>3. PICK J \in SUBSET Names : p \in [J -> Values]
  BY <1>2 DEF Positions
<1>4. \A j \in DOMAIN q : q[j] # "null"
  BY <1>2 DEF Valid
<1>5. \A j \in DOMAIN p : p[j] \in {"zero", "angle"} /\ q[j] = p[j]
  BY <1>1, <1>3, <1>4 DEF Values
<1>6. q = p
  BY <1>3, <1>5
<1> HIDE DEF q, p
<1>7. CASE body.kind = "home"
  <2>1. DOMAIN p = {}
    BY <1>2, <1>6, <1>7 DEF Valid
  <2>2. Target(Serialised(body)) = [j \in Joints |-> "zero"]
    BY <1>2, <1>7 DEF Target
  <2>3. [j \in Joints |-> "zero"] \in [Joints -> Values]
    BY DEF Values
  <2> QED
    BY <1>7, <2>1, <2>2, <2>3, CommandPathAssumption DEF Positions, p
<1>8. CASE body.kind = "move_joints"
  <2>1. DOMAIN p # {}
    BY <1>2, <1>6, <1>8 DEF Valid
  <2>2. Target(Serialised(body)) = p
    BY <1>2, <1>6, <1>8 DEF Target
  <2> QED
    BY <1>2, <1>5, <1>8, <2>1, <2>2 DEF p
<1> QED
  BY <1>2, <1>7, <1>8

-----------------------------------------------------------------------------
LEMMA InitInvariant == Init => IInv
<1> SUFFICES ASSUME Init PROVE IInv
  OBVIOUS
<1>1. /\ posts = <<>> /\ order = <<>> /\ channel = <<>> /\ moves = <<>> /\ published = {}
      /\ answer = [r \in Commands |-> "none"]
      /\ worker = "connecting" /\ link = "none" /\ breaks = 0 /\ brokerUp \in BOOLEAN
  BY DEF Init, Promise!Init
<1>2. TypeOK
  BY <1>1, CommandPathAssumption DEF TypeOK, Workers, Links
<1>3. OrderIsSound
  BY <1>1 DEF OrderIsSound, Entries
<1> QED
  BY <1>1, <1>2, <1>3 DEF IInv, InLine, MovesObey, Entries

\* The steps that neither read, deliver nor lose a command.
LEMMA QuietKeeps ==
    ASSUME IInv, TypeOK', UNCHANGED <<order, published, moves>>,
           channel' = channel \/ channel' = <<>>,
           \A r \in published : posts'[r] = posts[r]
    PROVE  IInv'
<1>1. OrderIsSound'
  BY DEF IInv, OrderIsSound, Entries, Valid
<1>2. InLine'
  <2>1. \A a, b : ReadBefore(a, b)' <=> ReadBefore(a, b)
    BY DEF ReadBefore
  <2>2. CASE channel' = channel
    BY <2>1, <2>2 DEF IInv, InLine, Entries
  <2>3. CASE channel' = <<>>
    <3>1. 1..Len(channel') = {} /\ Entries(channel)' = {}
      BY <2>3 DEF Entries
    <3> QED
      BY <2>1, <3>1 DEF IInv, InLine
  <2> QED
    BY <2>2, <2>3
<1>3. MovesObey'
  <2>1. ASSUME NEW i \in 1..Len(moves) PROVE Obeys(moves[i])'
    <3>1. moves[i].of \in published /\ Obeys(moves[i])
      BY DEF IInv, InLine, MovesObey
    <3>2. posts'[moves[i].of] = posts[moves[i].of]
      BY <3>1
    <3> QED
      BY <3>1, <3>2 DEF Obeys
  <2> QED
    BY <2>1 DEF MovesObey
<1> QED
  BY <1>1, <1>2, <1>3 DEF IInv

LEMMA PostKeeps == ASSUME IInv, NEW body \in Bodies, Post(body) PROVE IInv'
<1>1. /\ posts \in Seq(Bodies) /\ Len(posts) < MaxPosts
      /\ posts' = Append(posts, body)
      /\ UNCHANGED <<published, order, brokerUp, bridge, breaks>>
      /\ published \subseteq 1..Len(posts)
  BY DEF IInv, TypeOK, Post, Promise!Answer
<1>2. /\ posts' \in Seq(Bodies) /\ Len(posts') = Len(posts) + 1 /\ Len(posts) \in Nat
      /\ \A r \in 1..Len(posts) : posts'[r] = posts[r]
  BY <1>1, AppendEntries
<1>3. answer' \in [Commands -> {"none", "accepted", "refused", "broken"}]
  BY DEF IInv, TypeOK, Post, Promise!Answer
<1>4. Len(posts') <= MaxPosts /\ published' \subseteq 1..Len(posts')
  BY <1>1, <1>2, CommandPathAssumption
<1>5. TypeOK'
  BY <1>1, <1>2, <1>3, <1>4 DEF IInv, TypeOK, bridge
<1> QED
  BY <1>1, <1>2, <1>5, QuietKeeps DEF bridge

LEMMA PublishKeeps == ASSUME IInv, NEW r \in Commands, Publish(r) PROVE IInv'
<1>1. /\ r \in 1..Len(posts) /\ Valid(posts[r]) /\ r \notin published
      /\ published' = published \cup {r}
      /\ order' = Append(order, r)
      /\ channel' = Append(channel, r) \/ channel' = channel
      /\ UNCHANGED <<posts, answer, brokerUp, worker, link, moves, breaks>>
  BY DEF Publish, Promise!Publish
<1>2. /\ order \in Seq(Commands) /\ channel \in Seq(Commands)
      /\ published = Entries(order)
  BY DEF IInv, TypeOK, OrderIsSound
<1>3. /\ order' \in Seq(Commands) /\ Len(order') = Len(order) + 1 /\ Len(order) \in Nat
      /\ \A i \in 1..Len(order) : order'[i] = order[i]
      /\ order'[Len(order) + 1] = r
      /\ Entries(order)' = Entries(order) \cup {r}
  BY <1>1, <1>2, AppendEntries DEF Entries
<1>4. /\ \A a, b : ReadBefore(a, b) => ReadBefore(a, b)'
      /\ \A a \in published : ReadBefore(a, r)'
  BY <1>1, <1>2, OrderGrows
<1>5. OrderIsSound'
  <2>1. \A s \in published' : Valid(posts[s])'
    BY <1>1 DEF IInv, OrderIsSound, Valid
  <2>2. ASSUME NEW i \in 1..Len(order'), NEW k \in 1..Len(order'), i < k
        PROVE  order'[i] # order'[k]
    <3>1. i \in 1..Len(order) /\ (k \in 1..Len(order) \/ k = Len(order) + 1)
      BY <1>3, <2>2
    <3>2. order[i] \in Entries(order)
      BY <3>1 DEF Entries
    <3>3. CASE k = Len(order) + 1
      BY <1>1, <1>2, <1>3, <3>1, <3>2, <3>3
    <3>4. CASE k \in 1..Len(order)
      BY <1>3, <2>2, <3>1, <3>4 DEF IInv, OrderIsSound
    <3> QED
      BY <3>1, <3>3, <3>4
  <2> QED
    BY <1>1, <1>2, <1>3, <2>1, <2>2 DEF OrderIsSound
<1>6. CASE channel' = channel
  <2>1. InLine'
    BY <1>1, <1>4, <1>6 DEF IInv, InLine, Entries
  <2>2. TypeOK'
    BY <1>1, <1>3, <1>6 DEF IInv, TypeOK
  <2> QED
    BY <1>1, <1>5, <2>1, <2>2 DEF IInv, MovesObey, Obeys
<1>7. CASE channel' = Append(channel, r)
  <2>1. /\ channel' \in Seq(Commands) /\ Len(channel') = Len(channel) + 1 /\ Len(channel) \in Nat
        /\ \A i \in 1..Len(channel) : channel'[i] = channel[i]
        /\ channel'[Len(channel) + 1] = r
        /\ Entries(channel)' = Entries(channel) \cup {r}
    BY <1>2, <1>7, AppendEntries DEF Entries
  <2>2. \A i \in 1..Len(channel') : i \in 1..Len(channel) \/ i = Len(channel) + 1
    BY <2>1
  <2>3. \A i \in 1..Len(channel) : channel[i] \in published
    BY DEF IInv, InLine, Entries
  <2>4. ASSUME NEW i \in 1..Len(channel'), NEW k \in 1..Len(channel'), i < k
        PROVE  ReadBefore(channel[i], channel[k])'
    <3>1. i \in 1..Len(channel)
      BY <2>1, <2>4
    <3>2. CASE k = Len(channel) + 1
      BY <1>4, <2>1, <2>3, <3>1, <3>2
    <3>3. CASE k \in 1..Len(channel)
      <4>1. ReadBefore(channel[i], channel[k])
        BY <2>4, <3>1, <3>3 DEF IInv, InLine
      <4> QED
        BY <1>4, <2>1, <3>1, <3>3, <4>1
    <3> QED
      BY <2>2, <3>2, <3>3
  <2>5. ASSUME NEW i \in 1..Len(moves), NEW k \in 1..Len(channel')
        PROVE  ReadBefore(moves[i].of, channel[k])'
    <3>1. moves[i].of \in published
      BY DEF IInv, InLine
    <3>2. CASE k = Len(channel) + 1
      BY <1>1, <1>4, <2>1, <3>1, <3>2
    <3>3. CASE k \in 1..Len(channel)
      <4>1. ReadBefore(moves[i].of, channel[k])
        BY <3>3 DEF IInv, InLine
      <4> QED
        BY <1>1, <1>4, <2>1, <3>3, <4>1
    <3> QED
      BY <2>2, <3>2, <3>3
  <2>6. InLine'
    <3>1. Entries(channel)' \subseteq published' /\ \A i \in 1..Len(moves') : moves'[i].of \in published'
      BY <1>1, <2>1 DEF IInv, InLine
    <3>2. \A i, k \in 1..Len(moves') : i < k => ReadBefore(moves[i].of, moves[k].of)'
      BY <1>1, <1>4 DEF IInv, InLine
    <3>3. \A i \in 1..Len(moves') : \A k \in 1..Len(channel') : ReadBefore(moves[i].of, channel[k])'
      BY <1>1, <2>5
    <3> QED
      BY <2>4, <3>1, <3>2, <3>3 DEF InLine
  <2>7. TypeOK'
    BY <1>1, <1>3, <2>1 DEF IInv, TypeOK
  <2> QED
    BY <1>1, <1>5, <2>6, <2>7 DEF IInv, MovesObey, Obeys
<1> QED
  BY <1>1, <1>6, <1>7

LEMMA HandleKeeps == ASSUME IInv, Handle PROVE IInv'
<1>0. PICK r, command, move :
          /\ r = Head(channel) /\ command = Serialised(posts[r])
          /\ move = [of |-> r, target |-> Target(command)]
  OBVIOUS
<1>1. /\ channel # <<>> /\ channel \in Seq(Commands) /\ channel' = Tail(channel)
      /\ moves' = (IF Valid(command) THEN Append(moves, move) ELSE moves)
      /\ moves \in Seq([of : Commands, target : Positions])
      /\ UNCHANGED <<front, brokerUp, worker, link, breaks>>
  BY <1>0 DEF Handle, IInv, TypeOK
<1>2. /\ channel' \in Seq(Commands) /\ Len(channel') = Len(channel) - 1
      /\ Len(channel) \in Nat /\ Len(channel) > 0
      /\ \A k \in 1..Len(channel') : channel'[k] = channel[k + 1]
      /\ r = channel[1]
  BY <1>0, <1>1
<1>3. \A k \in 1..Len(channel') : k \in 1..Len(channel) /\ k + 1 \in 1..Len(channel) /\ 1 < k + 1
  BY <1>2
<1>4. 1 \in 1..Len(channel)
  BY <1>2
<1>5. r \in published /\ r \in 1..Len(posts) /\ r \in Commands /\ posts[r] \in Bodies
  <2>1. r \in published
    BY <1>2, <1>4 DEF IInv, InLine, Entries
  <2>2. published \subseteq 1..Len(posts) /\ posts \in Seq(Bodies) /\ Len(posts) <= MaxPosts
    BY DEF IInv, TypeOK
  <2>3. 1..Len(posts) \subseteq Commands
    BY <2>2, CommandPathAssumption DEF Commands
  <2> QED
    BY <2>1, <2>2, <2>3
<1>6. /\ OrderIsSound'
      /\ \A a, b : ReadBefore(a, b)' <=> ReadBefore(a, b)
      /\ Entries(channel)' \subseteq published
      /\ \A i, k \in 1..Len(channel') : i < k => ReadBefore(channel[i], channel[k])'
      /\ \A k \in 1..Len(channel') : ReadBefore(r, channel[k])'
      /\ \A i \in 1..Len(moves) : \A k \in 1..Len(channel') : ReadBefore(moves[i].of, channel'[k])
      /\ \A i \in 1..Len(moves) : ReadBefore(moves[i].of, r)
  <2>1. OrderIsSound'
    BY <1>1 DEF IInv, OrderIsSound, Entries, Valid, front
  <2>2. \A a, b : ReadBefore(a, b)' <=> ReadBefore(a, b)
    BY <1>1 DEF ReadBefore, front
  <2>3. Entries(channel)' \subseteq published
    BY <1>2, <1>3 DEF IInv, InLine, Entries
  <2>4. \A i, k \in 1..Len(channel') : i < k => ReadBefore(channel[i], channel[k])'
    <3> SUFFICES ASSUME NEW i \in 1..Len(channel'), NEW k \in 1..Len(channel'), i < k
                 PROVE  ReadBefore(channel[i], channel[k])'
      OBVIOUS
    <3>1. i + 1 < k + 1 /\ channel'[i] = channel[i + 1] /\ channel'[k] = channel[k + 1]
      BY <1>2
    <3>2. ReadBefore(channel[i + 1], channel[k + 1])
      BY <1>3, <3>1 DEF IInv, InLine
    <3> QED
      BY <2>2, <3>1, <3>2
  <2>5. \A k \in 1..Len(channel') : ReadBefore(r, channel[k])'
    <3> SUFFICES ASSUME NEW k \in 1..Len(channel') PROVE ReadBefore(r, channel[k])'
      OBVIOUS
    <3>1. ReadBefore(channel[1], channel[k + 1])
      BY <1>3, <1>4 DEF IInv, InLine
    <3> QED
      BY <1>2, <2>2, <3>1
  <2>6. \A i \in 1..Len(moves) : \A k \in 1..Len(channel') : ReadBefore(moves[i].of, channel'[k])
    BY <1>2, <1>3 DEF IInv, InLine
  <2>7. \A i \in 1..Len(moves) : ReadBefore(moves[i].of, r)
    BY <1>2, <1>4 DEF IInv, InLine
  <2> QED
    BY <2>1, <2>2, <2>3, <2>4, <2>5, <2>6, <2>7
<1>7. CASE ~Valid(command)
  <2>1. moves' = moves
    BY <1>1, <1>7
  <2>2. TypeOK'
    BY <1>1, <1>2, <2>1 DEF IInv, TypeOK, front
  <2>3. InLine'
    BY <1>1, <1>6, <2>1 DEF IInv, InLine, front
  <2>4. MovesObey'
    BY <1>1, <2>1 DEF IInv, MovesObey, Obeys, front
  <2> QED
    BY <1>6, <2>2, <2>3, <2>4 DEF IInv
<1>8. CASE Valid(command)
  <2>1. /\ Target(command) \in Positions
        /\ Obeys(move)
    BY <1>0, <1>5, <1>8, ReadableIsMeant DEF Obeys
  <2>2. /\ move \in [of : Commands, target : Positions] /\ move.of = r
        /\ Obeys(move)'
    BY <1>0, <1>1, <1>5, <2>1 DEF Obeys, front
  <2>3. /\ moves' \in Seq([of : Commands, target : Positions])
        /\ Len(moves') = Len(moves) + 1 /\ Len(moves) \in Nat
        /\ \A i \in 1..Len(moves) : moves'[i] = moves[i]
        /\ moves'[Len(moves) + 1] = move
    BY <1>1, <1>8, <2>2, AppendEntries
  <2>4. \A i \in 1..Len(moves') : i \in 1..Len(moves) \/ i = Len(moves) + 1
    BY <2>3
  <2>5. MovesObey'
    <3>1. \A m : Obeys(m)' <=> Obeys(m)
      BY <1>1 DEF Obeys, front
    <3>2. \A i \in 1..Len(moves) : Obeys(moves[i])
      BY DEF IInv, MovesObey
    <3> SUFFICES ASSUME NEW i \in 1..Len(moves') PROVE Obeys(moves[i])'
      BY DEF MovesObey
    <3>3. CASE i = Len(moves) + 1
      BY <2>2, <2>3, <3>1, <3>3
    <3>4. CASE i \in 1..Len(moves)
      BY <2>3, <3>1, <3>2, <3>4
    <3> QED
      BY <2>4, <3>3, <3>4
  <2>6. TypeOK'
    BY <1>1, <1>2, <2>3 DEF IInv, TypeOK, front
  <2>7. ASSUME NEW i \in 1..Len(moves'), NEW k \in 1..Len(moves'), i < k
        PROVE  ReadBefore(moves[i].of, moves[k].of)'
    <3>1. i \in 1..Len(moves)
      BY <2>3, <2>7
    <3>2. CASE k = Len(moves) + 1
      BY <1>6, <2>2, <2>3, <3>1, <3>2
    <3>3. CASE k \in 1..Len(moves)
      <4>1. ReadBefore(moves[i].of, moves[k].of)
        BY <2>7, <3>1, <3>3 DEF IInv, InLine
      <4> QED
        BY <1>6, <2>3, <3>1, <3>3, <4>1
    <3> QED
      BY <2>4, <3>2, <3>3
  <2>8. ASSUME NEW i \in 1..Len(moves'), NEW k \in 1..Len(channel')
        PROVE  ReadBefore(moves[i].of, channel[k])'
    <3>1. CASE i = Len(moves) + 1
      BY <1>6, <2>2, <2>3, <3>1
    <3>2. CASE i \in 1..Len(moves)
      BY <1>6, <2>3, <3>2
    <3> QED
      BY <2>4, <3>1, <3>2
  <2>9. InLine'
    <3>1. \A i \in 1..Len(moves') : moves'[i].of \in published
      BY <1>5, <2>2, <2>3, <2>4 DEF IInv, InLine
    <3>2. published' = published
      BY <1>1 DEF front
    <3> QED
      BY <1>6, <2>7, <2>8, <3>1, <3>2 DEF InLine
  <2> QED
    BY <1>6, <2>5, <2>6, <2>9 DEF IInv
<1> QED
  BY <1>7, <1>8

LEMMA BreakKeeps == ASSUME IInv, BrokerCrashes \/ LinkBreaks PROVE IInv'
<1>1. PICK n \in 0..Len(channel) : channel' = SubSeq(channel, 1, n)
  BY DEF BrokerCrashes, LinkBreaks, Break
<1>2. /\ channel \in Seq(Commands) /\ breaks < MaxBreaks /\ breaks \in 0..MaxBreaks
      /\ breaks' = breaks + 1 /\ brokerUp' \in BOOLEAN /\ link' \in Links
      /\ UNCHANGED <<front, worker, moves>>
  BY DEF BrokerCrashes, LinkBreaks, Break, IInv, TypeOK, Links
<1>3. /\ channel' \in Seq(Commands) /\ Len(channel') = n /\ Len(channel) \in Nat
      /\ \A k \in 1..n : channel'[k] = channel[k]
  BY <1>1, <1>2
<1>4. \A k \in 1..n : k \in 1..Len(channel)
  BY <1>3
<1>5. TypeOK'
  <2>1. breaks' \in 0..MaxBreaks
    BY <1>2, CommandPathAssumption
  <2> QED
    BY <1>2, <1>3, <2>1 DEF IInv, TypeOK, front
<1>6. OrderIsSound'
  BY <1>2 DEF IInv, OrderIsSound, Entries, Valid, front
<1>7. InLine'
  <2>1. \A a, b : ReadBefore(a, b)' <=> ReadBefore(a, b)
    BY <1>2 DEF ReadBefore, front
  <2>2. Entries(channel)' \subseteq published
    BY <1>3, <1>4 DEF IInv, InLine, Entries
  <2>3. \A i, k \in 1..Len(channel') : i < k => ReadBefore(channel[i], channel[k])'
    BY <1>3, <1>4, <2>1 DEF IInv, InLine
  <2>4. \A i \in 1..Len(moves) : \A k \in 1..Len(channel') : ReadBefore(moves[i].of, channel'[k])
    BY <1>3, <1>4 DEF IInv, InLine
  <2> QED
    BY <1>2, <2>1, <2>2, <2>3, <2>4 DEF IInv, InLine, front
<1>8. MovesObey'
  BY <1>2 DEF IInv, MovesObey, Obeys, front
<1> QED
  BY <1>5, <1>6, <1>7, <1>8 DEF IInv

LEMMA StepKeeps == ASSUME IInv, [Next]_vars PROVE IInv'
<1>1. ASSUME UNCHANGED vars PROVE IInv'
  <2>1. TypeOK'
    BY <1>1 DEF IInv, TypeOK, vars, front, bridge
  <2> QED
    BY <1>1, <2>1, QuietKeeps DEF vars, front, bridge
<1>2. ASSUME NEW r \in Commands, NEW a \in {"accepted", "refused"}, Reply(r, a) PROVE IInv'
  <2>1. TypeOK'
    BY <1>2 DEF IInv, TypeOK, Reply, Promise!Answer, bridge
  <2> QED
    BY <1>2, <2>1, QuietKeeps DEF Reply, Promise!Answer, bridge
<1>3. ASSUME BreakOff PROVE IInv'
  <2>1. TypeOK'
    <3>1. answer' \in [Commands -> {"none", "accepted", "refused", "broken"}]
      BY <1>3 DEF IInv, TypeOK, BreakOff, Promise!BreakOff
    <3> QED
      BY <1>3, <3>1 DEF IInv, TypeOK, BreakOff, Promise!BreakOff, bridge
  <2> QED
    BY <1>3, <2>1, QuietKeeps DEF BreakOff, Promise!BreakOff, bridge
<1>4. ASSUME Connect \/ Subscribe \/ Fails \/ Wake \/ BrokerReturns \/ LossDetected PROVE IInv'
  <2>1. TypeOK'
    <3> DEFINE Quiet == /\ worker' \in Workers /\ link' \in Links /\ brokerUp' \in BOOLEAN
                        /\ channel' = channel \/ channel' = <<>>
                        /\ UNCHANGED <<front, moves, breaks>>
    <3>1. Connect => Quiet
      BY DEF IInv, TypeOK, Connect, Workers, Links
    <3>2. Subscribe => Quiet
      BY DEF IInv, TypeOK, Subscribe, Workers
    <3>3. Fails => Quiet
      BY DEF IInv, TypeOK, Fails, Workers, Links
    <3>4. Wake => Quiet
      BY DEF IInv, TypeOK, Wake, Workers
    <3>5. BrokerReturns => Quiet
      BY DEF IInv, TypeOK, BrokerReturns, bridge
    <3>6. LossDetected => Quiet
      BY DEF IInv, TypeOK, LossDetected, Links
    <3>7. Quiet
      BY <1>4, <3>1, <3>2, <3>3, <3>4, <3>5, <3>6, Zenon
    <3>8. channel \in Seq(Commands) /\ <<>> \in Seq(Commands)
      BY DEF IInv, TypeOK
    <3>9. channel' \in Seq(Commands)
      BY <3>7, <3>8, Zenon
    <3> QED
      BY <3>7, <3>9 DEF IInv, TypeOK, front
  <2>2. UNCHANGED front /\ moves' = moves /\ (channel' = channel \/ channel' = <<>>)
    BY <1>4 DEF Connect, Subscribe, Fails, Wake, BrokerReturns, LossDetected, bridge
  <2> QED
    BY <2>1, <2>2, QuietKeeps DEF front
<1> QED
  BY <1>1, <1>2, <1>3, <1>4, PostKeeps, PublishKeeps, HandleKeeps, BreakKeeps DEF Next

-----------------------------------------------------------------------------
\* The arm is told what clients posted, nothing else, once, and in the order of the
\* broker (POST /command, JointCommand, command_worker, publish_command).
THEOREM ArmObeysAlways == Spec => []ArmObeys
<1>1. IInv => ArmObeys
  <2> SUFFICES ASSUME IInv PROVE ArmObeys
    OBVIOUS
  <2>1. \A a, b : ReadBefore(a, b) => a # b
    BY DEF IInv, OrderIsSound, ReadBefore
  <2>2. \A i, k \in 1..Len(moves) :
          i < k => moves[i].of # moves[k].of /\ ReadBefore(moves[i].of, moves[k].of)
    BY <2>1 DEF IInv, InLine
  <2>3. \A i \in 1..Len(moves) : moves[i].of \in published /\ Obeys(moves[i])
    BY DEF IInv, InLine, MovesObey
  <2> QED
    BY <2>2, <2>3 DEF ArmObeys, Obeys
<1> QED
  BY <1>1, InitInvariant, StepKeeps, PTL DEF Spec

\* Every variable keeps its type.
THEOREM TypeCorrect == Spec => []TypeOK
<1>1. IInv => TypeOK
  BY DEF IInv
<1> QED
  BY <1>1, InitInvariant, StepKeeps, PTL DEF Spec
=============================================================================
