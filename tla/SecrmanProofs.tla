---------------------------- MODULE SecrmanProofs ----------------------------
(***************************************************************************)
(* The handshake of card_auth, what the scripts of secrman may do to the   *)
(* two devices, what a signed file is and where it boots, for any cards,   *)
(* files, faults and numbers of tries.                                     *)
(*                                                                         *)
(* A script is a sequence of exchanges.  HInv says how far the devices are *)
(* when n exchanges of a handshake are done (AuthAt), and that no other    *)
(* script has an exchange that could authenticate anybody (ScriptInv).     *)
(* KInv says where a signing is, in its header, its loop, a block or the   *)
(* keys, and what the MECHACON has counted, which key halves the card has  *)
(* bound and which of them the buffer holds by then (SignInv, SignedInv).  *)
(* BootInv follows one key half through a boot on another card, where it   *)
(* becomes noise (BootAt), up to the check of the header that it fails.    *)
(***************************************************************************)
EXTENDS Secrman, SequenceTheorems, FiniteSetTheorems, TLAPS

(* The exchanges of the handshake up to and including the CardNonce, then those after the
   challenge has been handed over. *)
EarlySteps ==
    {card_auth_key_change, card_auth("00"), mechacon_auth_81, card_auth_read("CardIV", "01"),
     card_auth_read("CardMaterial", "02"), mechacon_auth_82, card_auth("03"),
     card_auth_read("CardNonce", "04"), mechacon_auth_83, card_auth("05"), pol_cal_cmplt}
LateSteps ==
    {ToCard("07", <<"MechaChallenge2lo", "MechaChallenge2hi">>, <<>>),
     card_auth("08"), card_auth2("09"), card_auth("0A"),
     card_auth_write("MechaChallenge1", "0B"), card_auth("0C"), card_auth2("0D"),
     card_auth("0E"), card_auth_read("CardResponse1", "0F"), card_auth("10"),
     card_auth_read("CardResponse2", "11"), mechacon_auth_86, card_auth("12"),
     card_auth_read("CardResponse3", "13"), mechacon_auth_87, pol_cal_cmplt}

(* How long the opening is: a developer's console skips the change of the key. *)
P == IF isDEX THEN 12 ELSE 13

(* Where each exchange of the script of card_auth stands, part by part. *)
LEMMA OpeningAt ==
  /\ Len(Opening) = P /\ Opening \in Seq(EarlySteps \cup {card_auth_60, mechacon_auth_80})
  /\ Opening[1] = card_auth_60 /\ Opening[2] = mechacon_auth_80
  /\ \A i \in 3 .. P : Opening[i] \in EarlySteps
<1> DEFINE T == <<card_auth("00"), mechacon_auth_81,
         card_auth_read("CardIV", "01"), card_auth_read("CardMaterial", "02"), mechacon_auth_82,
         card_auth("03"), card_auth_read("CardNonce", "04"), mechacon_auth_83,
         card_auth("05"), pol_cal_cmplt>>
<1> DEFINE S == EarlySteps \cup {card_auth_60, mechacon_auth_80}
<1>1. T \in Seq(S) /\ Len(T) = 10 /\ \A i \in 1 .. 10 : T[i] \in EarlySteps
  BY DEF EarlySteps
<1>2. CASE isDEX
  <2>1. Opening = <<card_auth_60, mechacon_auth_80>> \o T
    BY <1>2 DEF Opening
  <2>2. <<card_auth_60, mechacon_auth_80>> \in Seq(S)
    OBVIOUS
  <2>3. Opening \in Seq(S)
    <3> HIDE DEF T, S
    <3> QED
      BY <1>1, <2>1, <2>2, ConcatProperties
  <2> QED
    BY <1>1, <1>2, <2>1, <2>3 DEF P
<1>3. CASE ~isDEX
  <2>1. Opening = <<card_auth_60, mechacon_auth_80, card_auth_key_change>> \o T
    BY <1>3 DEF Opening
  <2>2. card_auth_key_change \in EarlySteps
    BY DEF EarlySteps
  <2>3. <<card_auth_60, mechacon_auth_80, card_auth_key_change>> \in Seq(S)
    BY <2>2
  <2>4. Opening \in Seq(S)
    <3> HIDE DEF T, S
    <3> QED
      BY <1>1, <2>1, <2>3, ConcatProperties
  <2> QED
    BY <1>1, <1>3, <2>1, <2>2, <2>4 DEF P
<1> QED
  BY <1>2, <1>3

(* Likewise for the challenges of the MECHACON. *)
LEMMA ChallengesAt ==
  /\ Len(MechaChallenges) = 10
  /\ MechaChallenges[1] = mechacon_auth_84 /\ MechaChallenges[2] = mechacon_auth_85
  /\ MechaChallenges[3] = card_auth_write("MechaChallenge3", "06")
  /\ \A i \in 4 .. 10 : MechaChallenges[i] \in LateSteps
BY DEF MechaChallenges, LateSteps

(* And for the responses of the card. *)
LEMMA ResponsesAt ==
  /\ Len(CardResponses) = 11
  /\ \A i \in 1 .. 9 : CardResponses[i] \in LateSteps
  /\ CardResponses[10] = card_auth("14") /\ CardResponses[11] = mechacon_auth_88
BY DEF CardResponses, LateSteps

(* What is left of a script when its first n steps are done. *)
After(s, n) == SubSeq(s, n + 1, Len(s))

(* One step more is done. *)
LEMMA SuffixStep ==
  ASSUME NEW S, NEW s \in Seq(S), NEW n \in Nat, n < Len(s)
  PROVE  /\ After(s, n) # <<>> /\ Len(After(s, n)) = Len(s) - n
         /\ Head(After(s, n)) = s[n + 1]
         /\ Tail(After(s, n)) = After(s, n + 1)
<1>1. n + 1 \in 1 .. Len(s) /\ Len(s) \in n + 1 .. Len(s) /\ n + 1 \in Int /\ Len(s) \in Int
  OBVIOUS
<1>2. \A i \in n + 1 .. Len(s) : s[i] \in S
  OBVIOUS
<1>3. Len(After(s, n)) = Len(s) - n
  BY <1>1, <1>2, SubSeqProperties DEF After
<1>4. After(s, n) # <<>>
  BY <1>1, <1>3
<1>5. /\ Head(SubSeq(s, n + 1, Len(s))) = s[n + 1]
      /\ Tail(SubSeq(s, n + 1, Len(s))) = SubSeq(s, n + 1 + 1, Len(s))
  BY <1>1, HeadTailOfSubSeq
<1> QED
  BY <1>3, <1>4, <1>5 DEF After

(* Nothing done, and everything. *)
LEMMA SuffixEnds ==
  ASSUME NEW S, NEW s \in Seq(S)
  PROVE  After(s, 0) = s /\ After(s, Len(s)) = <<>>
BY DEF After

HandshakeSteps == EarlySteps \cup LateSteps \cup {card_auth_60, mechacon_auth_80, mechacon_auth_84, mechacon_auth_85,
  card_auth_write("MechaChallenge3", "06"), card_auth("14"), mechacon_auth_88}

(* Where each exchange of the whole handshake stands. *)
LEMMA HandshakeAt ==
  /\ P \in Nat /\ P > 2
  /\ Handshake \in Seq(HandshakeSteps) /\ Len(Handshake) = P + 21
  /\ Handshake[1] = card_auth_60 /\ Handshake[2] = mechacon_auth_80
  /\ \A i \in 3 .. P : Handshake[i] \in EarlySteps
  /\ Handshake[P + 1] = mechacon_auth_84 /\ Handshake[P + 2] = mechacon_auth_85
  /\ Handshake[P + 3] = card_auth_write("MechaChallenge3", "06")
  /\ \A i \in P + 4 .. P + 19 : Handshake[i] \in LateSteps
  /\ Handshake[P + 20] = card_auth("14") /\ Handshake[P + 21] = mechacon_auth_88
<1>0. P \in Nat /\ P > 2
  BY DEF P
<1>3. Opening \in Seq(HandshakeSteps)
  BY OpeningAt DEF HandshakeSteps
<1>4. MechaChallenges \in Seq(HandshakeSteps)
  BY DEF MechaChallenges, LateSteps, HandshakeSteps
<1>5. CardResponses \in Seq(HandshakeSteps)
  BY DEF CardResponses, LateSteps, HandshakeSteps
<1>6. /\ Opening \o MechaChallenges \in Seq(HandshakeSteps)
      /\ Len(Opening \o MechaChallenges) = Len(Opening) + Len(MechaChallenges)
      /\ \A i \in 1 .. Len(Opening) + Len(MechaChallenges) : (Opening \o MechaChallenges)[i] =
              IF i <= Len(Opening) THEN Opening[i] ELSE MechaChallenges[i - Len(Opening)]
  BY <1>3, <1>4, ConcatProperties
<1>7. /\ Len(Opening) = P /\ Len(MechaChallenges) = 10 /\ Len(CardResponses) = 11
  BY OpeningAt, ChallengesAt, ResponsesAt
<1> DEFINE s == Opening \o MechaChallenges
<1>8. /\ s \o CardResponses \in Seq(HandshakeSteps)
      /\ Len(s \o CardResponses) = Len(s) + Len(CardResponses)
      /\ \A i \in 1 .. Len(s) + Len(CardResponses) : (s \o CardResponses)[i] =
              IF i <= Len(s) THEN s[i] ELSE CardResponses[i - Len(s)]
  <2> HIDE DEF s
  <2> QED
    BY <1>5, <1>6, ConcatProperties DEF s
<1>9. Handshake = s \o CardResponses /\ Len(s) = P + 10 /\ Len(Handshake) = P + 21 /\ Handshake \in Seq(HandshakeSteps)
  <2>1. Handshake = s \o CardResponses
    BY DEF Handshake
  <2> HIDE DEF s
  <2> QED
    BY <2>1, <1>0, <1>6, <1>7, <1>8 DEF s
<1> HIDE DEF s
<1>10. \A i \in 1 .. P : Handshake[i] = Opening[i]
  BY <1>0, <1>6, <1>7, <1>8, <1>9 DEF s
<1>11. \A i \in 1 .. 10 : Handshake[P + i] = MechaChallenges[i]
  BY <1>0, <1>6, <1>7, <1>8, <1>9 DEF s
<1>12. \A i \in 1 .. 11 : Handshake[P + (10 + i)] = CardResponses[i]
  BY <1>0, <1>7, <1>8, <1>9
<1>13. \A i \in P + 4 .. P + 19 : Handshake[i] \in LateSteps
  <2> SUFFICES ASSUME NEW i \in P + 4 .. P + 19 PROVE Handshake[i] \in LateSteps
    OBVIOUS
  <2>1. CASE i <= P + 10
    <3>1. (i - P) \in 4 .. 10 /\ i = P + (i - P)
      BY <2>1, <1>0
    <3> QED
      BY <3>1, <1>11, ChallengesAt
  <2>2. CASE i > P + 10
    <3>1. (i - (P + 10)) \in 1 .. 9 /\ i = P + (10 + (i - (P + 10)))
      BY <2>2, <1>0
    <3> QED
      BY <3>1, <1>12, ResponsesAt
  <2> QED
    BY <2>1, <2>2, <1>0
<1> QED
  <2>1. Handshake[1] = card_auth_60 /\ Handshake[2] = mechacon_auth_80 /\ \A i \in 3 .. P : Handshake[i] \in EarlySteps
    BY <1>0, <1>10, OpeningAt
  <2>2. Handshake[P + 1] = mechacon_auth_84 /\ Handshake[P + 2] = mechacon_auth_85 /\ Handshake[P + 3] = card_auth_write("MechaChallenge3", "06")
    BY <1>11, ChallengesAt
  <2>3. Handshake[P + 20] = card_auth("14") /\ Handshake[P + 21] = mechacon_auth_88
    <3>1. Handshake[P + (10 + 10)] = CardResponses[10] /\ Handshake[P + (10 + 11)] = CardResponses[11]
      BY <1>12
    <3> QED BY <3>1, ResponsesAt
  <2> QED
    BY <1>0, <1>9, <1>13, <2>1, <2>2, <2>3

(* The types of the two devices, whatever the values they hold. *)
IsCard(c) == c \in [id : Cards, at : 0 .. 21, s : Nat, auth : BOOLEAN, stage : 0 .. 3, val : {c.val}]
IsMecha(m) == m \in [at : Nat, peer : {m.peer}, auth : BOOLEAN, calc : {"ok", "busy", "fails"},
                     op : {"none", "header", "block"}, mode : {m.mode}, left : {m.left},
                     got : {m.got}, nth : Nat]

CardKeyCmds == {"40", "41", "42", "43", "50", "51", "52", "53"}

(* The card's half of the handshake: it advances by one command of its order or stays, learns
   the nonce of its try only at 00, and is authenticated only by 14. *)
LEMMA CardHandshakeStep ==
  ASSUME NEW c, IsCard(c), tries \in Nat, NEW cmd, NEW in,
         NEW a, a = CardHandshake(c, cmd, in)
  PROVE  /\ IsCard(a.dev) /\ a.dev.id = c.id /\ a.ok \in BOOLEAN
         /\ ~a.ok => a.dev = c
         /\ a.dev.s = c.s \/ (cmd = "00" /\ a.dev.s = tries)
         /\ a.dev.auth => c.auth \/ (cmd = "14" /\ c.at = 20)
         /\ a.ok => a.dev.at = c.at + 1 /\ a.dev.auth = (cmd = "14") /\ CardOrder[c.at + 1] = cmd
         /\ a.ok /\ cmd = "06" => in = <<Value("MechaChallenge3", c.s)>>
  <1>1. Len(CardOrder) = 21 /\ \A i \in 0 .. 20 : CardOrder[i + 1] = "14" => i = 20
    BY DEF CardOrder
  <1> DEFINE takes == c.at < Len(CardOrder) /\ CardOrder[c.at + 1] = cmd /\ CardWants(c, cmd, in)
             d == [c EXCEPT !.at = @ + 1, !.s = IF cmd = "00" THEN tries ELSE @, !.auth = (cmd = "14")]
  <1>2. c \in [id : Cards, at : 0 .. 21, s : Nat, auth : BOOLEAN, stage : 0 .. 3, val : {c.val}]
    BY DEF IsCard
  <1>3. CASE takes
    <2>1. a = [dev |-> d, ok |-> TRUE, out |-> CardGives(d, cmd)]
      BY <1>3 DEF CardHandshake
    <2>2. c.at \in 0 .. 20
      BY <1>1, <1>2, <1>3
    <2>3. d.id = c.id /\ d.at = c.at + 1 /\ d.s = (IF cmd = "00" THEN tries ELSE c.s) /\ d.auth = (cmd = "14")
          /\ d.stage = c.stage /\ d.val = c.val
      BY <1>2
    <2>4. IsCard(d)
      <3>1. (cmd = "14") \in BOOLEAN /\ (IF cmd = "00" THEN tries ELSE c.s) \in Nat /\ c.at + 1 \in 0 .. 21
        BY <1>2, <2>2
      <3> QED
      BY <1>2, <2>3, <3>1 DEF IsCard
    <2>5. a.ok /\ a.dev = d
      BY <2>1
    <2> HIDE DEF d
    <2> QED
      BY <1>1, <1>3, <2>2, <2>3, <2>4, <2>5 DEF CardWants
  <1>4. CASE ~takes
    <2>1. a.dev = c /\ a.ok = FALSE
      BY <1>4 DEF CardHandshake
    <2> QED
      BY <1>2, <2>1 DEF IsCard
  <1> QED
    BY <1>3, <1>4

(* What the key commands of the card touch: its stage and the value it works on. *)
Worked(c, d) == \E st \in 0 .. 3 : \E v : d = [c EXCEPT !.stage = st, !.val = v]

(* Every command of the card: a refusal changes nothing, 60 gives a card out of reset. *)
LEMMA CardStep ==
  ASSUME NEW c, IsCard(c), tries \in Nat, NEW cmd, NEW in,
         NEW a, a = CardDoes(c, cmd, in)
  PROVE  /\ IsCard(a.dev) /\ a.dev.id = c.id /\ a.ok \in BOOLEAN
         /\ ~a.ok => a.dev = c
         /\ cmd = "60" => a.ok /\ a.dev = NewCard(c.id)
         /\ a.dev.s = c.s \/ (cmd = "00" /\ a.dev.s = tries) \/ cmd = "60"
         /\ cmd \notin {"60", "00"} /\ c.at = 0 => a.dev.at = 0
         /\ a.dev.auth /\ ~c.auth => cmd = "14" /\ c.at # 0
         /\ a.dev.auth => a.dev.at = c.at \/ a.dev.at # 0
         /\ a.ok /\ cmd = "14" => a.dev.auth /\ c.at # 0
         /\ a.ok /\ cmd = "06" => in = <<Value("MechaChallenge3", c.s)>>
  <1>1. CASE cmd \in CardKeyCmds
    <2>1. a = CardCrypto(c, cmd, in) /\ cmd \notin {"60", "00", "14", "06"}
      BY <1>1 DEF CardDoes, CardKeyCmds
    <2>2. (a.ok /\ Worked(c, a.dev)) \/ (a.ok = FALSE /\ a.dev = c)
      <3> DEFINE starts == cmd \in {"40", "50"}
                 stage == CASE starts -> 1 [] cmd \in {"41", "51"} -> 2
                            [] cmd \in {"42", "52"} -> 3 [] OTHER -> 0
                 value == CASE cmd \in {"41", "51"} -> in[1]
                            [] cmd = "42" -> DecryptFor(c, c.val)
                            [] cmd = "52" -> EncryptFor(c, c.val)
                            [] OTHER -> Unset
                 takes == c.auth /\ (starts \/ (c.stage + 1) % 4 = stage)
      <3>1. stage \in 0 .. 3
        OBVIOUS
      <3>2. a = IF takes THEN [dev |-> [c EXCEPT !.stage = stage, !.val = value], ok |-> TRUE,
                               out |-> IF stage = 0 THEN <<c.val>> ELSE <<>>]
                         ELSE [dev |-> c, ok |-> FALSE, out |-> <<>>]
        BY <2>1 DEF CardCrypto
      <3>3. CASE takes
        <4>1. a.dev = [c EXCEPT !.stage = stage, !.val = value] /\ a.ok
          BY <3>2, <3>3
        <4> HIDE DEF stage, value, takes
        <4> QED
          BY <3>1, <4>1 DEF Worked
      <3>4. CASE ~takes
        <4>1. a.dev = c /\ a.ok = FALSE
          BY <3>2, <3>4
        <4> QED
          BY <4>1
      <3> QED
        BY <3>3, <3>4
    <2>4. CASE a.dev = c /\ a.ok = FALSE
      BY <2>4, <2>1
    <2>5. CASE a.ok /\ Worked(c, a.dev)
      <3> PICK st \in 0 .. 3 : \E v : a.dev = [c EXCEPT !.stage = st, !.val = v]
        BY <2>5 DEF Worked
      <3> PICK v : a.dev = [c EXCEPT !.stage = st, !.val = v]
        OBVIOUS
      <3>1. a.dev.id = c.id /\ a.dev.at = c.at /\ a.dev.s = c.s /\ a.dev.auth = c.auth /\ IsCard(a.dev)
        BY DEF IsCard
      <3> QED
        BY <2>1, <2>5, <3>1
    <2> QED
      BY <2>2, <2>4, <2>5
  <1>2. CASE cmd = "60"
    <2>1. a.dev = NewCard(c.id) /\ a.ok
      BY <1>2 DEF CardDoes, CardProtocol
    <2>2. IsCard(NewCard(c.id)) /\ NewCard(c.id).id = c.id /\ NewCard(c.id).auth = FALSE
      BY DEF IsCard, NewCard
    <2> QED
      BY <1>2, <2>1, <2>2
  <1>4. CASE cmd = "F7"
    BY <1>4 DEF CardDoes, CardProtocol
  <1>3. CASE cmd \notin CardKeyCmds \cup {"60", "F7"}
    <2>1. a = CardHandshake(c, cmd, in)
      BY <1>3 DEF CardDoes, CardProtocol, CardKeyCmds
    <2>2. CardOrder[1] = "00" /\ \A i \in 0 .. 20 : CardOrder[i + 1] = "14" => i = 20
      BY DEF CardOrder
    <2>3. c.at \in Nat
      BY DEF IsCard
    <2> QED
      BY <1>3, <2>1, <2>2, <2>3, CardHandshakeStep
  <1> QED
    BY <1>1, <1>2, <1>3, <1>4

(* A field of the MECHACON is given a value of its type. *)
LEMMA MechaUpdate ==
  ASSUME NEW m, IsMecha(m), NEW at \in Nat, NEW b \in BOOLEAN, NEW p, NEW k \in {"ok", "busy", "fails"},
         NEW n, n = [m EXCEPT !.at = at, !.auth = b, !.peer = p, !.calc = k]
  PROVE  IsMecha(n)
BY DEF IsMecha

(* The MECHACON's half of the handshake: it is authenticated only by 88, gives away the
   challenge of the nonce it took at 83. *)
LEMMA MechaHandshakeStep ==
  ASSUME NEW m, IsMecha(m), NEW cmd, NEW in, NEW a, a = MechaHandshake(m, cmd, in)
  PROVE  \/ (~a.ok /\ a.dev = m)
         \/ /\ a.ok /\ IsMecha(a.dev)
            /\ (a.dev.auth <=> cmd = "88") /\ (cmd # "83" => a.dev.peer = m.peer)
            /\ a.dev.got = m.got /\ a.dev.left = m.left
            /\ cmd = "85" => a.out = <<Value("MechaChallenge2hi", m.peer), Value("MechaChallenge3", m.peer)>>
<1> DEFINE good == MechaWants(m, cmd, in)
           n == [m EXCEPT !.at = @ + 1, !.auth = (cmd = "88"),
                          !.peer = IF cmd = "83" /\ good THEN in[1].s ELSE @,
                          !.calc = IF cmd \in {"83", "87"}
                                   THEN IF good THEN "busy" ELSE "fails" ELSE @]
           takes == m.at < Len(MechaOrder) /\ MechaOrder[m.at + 1] = cmd /\ m.calc = "ok"
<1>1. CASE takes /\ (good \/ cmd \in {"83", "87"})
  <2>1. a = [dev |-> n, ok |-> TRUE, out |-> MechaGives(n, cmd)]
    BY <1>1 DEF MechaHandshake
  <2>2. /\ (n.auth <=> cmd = "88") /\ (cmd # "83" => n.peer = m.peer) /\ IsMecha(n)
        /\ n.got = m.got /\ n.left = m.left
    <3> DEFINE p == IF cmd = "83" /\ good THEN in[1].s ELSE m.peer
               k == IF cmd \in {"83", "87"} THEN IF good THEN "busy" ELSE "fails" ELSE m.calc
               b == (cmd = "88")
    <3>1. k \in {"ok", "busy", "fails"} /\ b \in BOOLEAN /\ (cmd # "83" => p = m.peer)
      BY DEF IsMecha
    <3>2. n = [m EXCEPT !.at = @ + 1, !.auth = b, !.peer = p, !.calc = k]
      BY DEF IsMecha
    <3> HIDE DEF p, k, b, n
    <3>3. n.at = m.at + 1 /\ n.auth = b /\ n.peer = p /\ n.calc = k /\ n.op = m.op /\ n.mode = m.mode
          /\ n.left = m.left /\ n.got = m.got /\ n.nth = m.nth
      BY <3>2 DEF IsMecha
    <3>4. IsMecha(n)
      <4>1. n = [m EXCEPT !.at = m.at + 1, !.auth = b, !.peer = p, !.calc = k] /\ m.at + 1 \in Nat
        BY <3>2 DEF IsMecha
      <4> QED
        BY <3>1, <4>1, MechaUpdate
    <3> QED
      BY <3>1, <3>3, <3>4 DEF b
  <2>3. a.dev = n /\ a.ok /\ a.out = MechaGives(n, cmd)
    BY <2>1
  <2> HIDE DEF n
  <2> QED
    BY <2>2, <2>3 DEF MechaGives
<1>2. CASE ~(takes /\ (good \/ cmd \in {"83", "87"}))
  <2>1. a = [dev |-> m, ok |-> FALSE, out |-> <<>>]
    BY <1>2 DEF MechaHandshake
  <2> QED
    BY <2>1
<1> QED
  BY <1>1, <1>2

(* A header or a block is opened. *)
LEMMA MechaOpensStep ==
  ASSUME NEW m, IsMecha(m), NEW op, op \in {"none", "header", "block"}, NEW mode, NEW size, NEW a, a = MechaOpens(m, op, mode, size)
  PROVE  /\ a.ok /\ IsMecha(a.dev) /\ (a.dev.auth <=> m.auth) /\ a.dev.peer = m.peer /\ a.dev.nth = m.nth
         /\ a.dev.op = op /\ a.dev.mode = mode /\ a.dev.left = size /\ a.dev.got = <<>> /\ a.dev.calc = m.calc
BY DEF MechaOpens, IsMecha

(* A header opened at 90 leaves the counters as 90 set them. *)
LEMMA HeaderOpens ==
  ASSUME NEW m, IsMecha(m), NEW mode, NEW size, NEW a, a = MechaOpens(m, "header", mode, size)
  PROVE  /\ a.ok /\ IsMecha(a.dev) /\ (a.dev.auth <=> m.auth) /\ a.dev.peer = m.peer /\ a.dev.nth = m.nth
         /\ a.dev.op = "header" /\ a.dev.mode = mode /\ a.dev.left = size /\ a.dev.got = <<>> /\ a.dev.calc = m.calc
BY DEF MechaOpens, IsMecha

(* Data sent with 8D never exceed what the open operation expects. *)
LEMMA MechaTakesStep ==
  ASSUME NEW m, IsMecha(m), NEW in, NEW a, a = MechaTakes(m, in)
  PROVE  \/ (~a.ok /\ a.dev = m)
         \/ /\ a.ok /\ IsMecha(a.dev) /\ m.op \in {"header", "block"} /\ Len(m.got \o in) <= m.left
            /\ (a.dev.auth <=> m.auth) /\ a.dev.peer = m.peer /\ a.dev.op = m.op /\ a.dev.mode = m.mode /\ a.dev.left = m.left
            /\ a.dev.got = m.got \o in
            /\ a.dev.nth = (IF Len(m.got \o in) = m.left /\ m.op = "block" THEN m.nth + 1 ELSE m.nth)
            /\ a.dev.calc = (IF Len(m.got \o in) < m.left THEN m.calc
                             ELSE IF m.op = "header"
                                  THEN IF HeaderGood(m, m.got \o in) THEN "busy" ELSE "fails"
                                  ELSE IF BlockGood(m, m.got \o in) THEN "busy" ELSE "fails")
<1> DEFINE all == m.got \o in
           good == IF m.op = "header" THEN HeaderGood(m, all) ELSE BlockGood(m, all)
           k == IF Len(all) < m.left THEN m.calc ELSE IF good THEN "busy" ELSE "fails"
           n == IF Len(all) = m.left /\ m.op = "block" THEN m.nth + 1 ELSE m.nth
           d == [m EXCEPT !.got = all, !.calc = k, !.nth = n]
<1>1. CASE m.op \in {"header", "block"} /\ Len(all) <= m.left
  <2>1. a = [dev |-> d, ok |-> TRUE, out |-> <<>>]
    BY <1>1 DEF MechaTakes, IsMecha
  <2>2. k \in {"ok", "busy", "fails"} /\ n \in Nat
    BY DEF IsMecha
  <2>3. IsMecha(d) /\ (d.auth <=> m.auth) /\ d.peer = m.peer /\ d.op = m.op /\ d.mode = m.mode /\ d.left = m.left
        /\ d.got = all /\ d.nth = n /\ d.calc = k
    <3> HIDE DEF k, n, all
    <3> QED
      BY <2>2 DEF IsMecha
  <2>4. a.dev = d /\ a.ok
    BY <2>1
  <2>5. k = (IF Len(m.got \o in) < m.left THEN m.calc
             ELSE IF m.op = "header"
                  THEN IF HeaderGood(m, m.got \o in) THEN "busy" ELSE "fails"
                  ELSE IF BlockGood(m, m.got \o in) THEN "busy" ELSE "fails")
    OBVIOUS
  <2> HIDE DEF d, k
  <2> QED
    BY <1>1, <2>3, <2>4, <2>5
<1>2. CASE ~(m.op \in {"header", "block"} /\ Len(all) <= m.left)
  <2>1. a = [dev |-> m, ok |-> FALSE, out |-> <<>>]
    BY <1>2 DEF MechaTakes
  <2> QED
    BY <2>1
<1> QED
  BY <1>1, <1>2

(* The commands of a file that change nothing in the MECHACON. *)
Reads == {"91", "93", "8E", "8F", "98", "94", "95", "96", "97"}

(* The commands of a file, case by case. *)
LEMMA MechaFileStep ==
  ASSUME NEW m, IsMecha(m), NEW cmd \in FileCommands \cup {"8F"}, NEW arg, NEW in, NEW a, a = MechaDoes(m, cmd, arg, in)
  PROVE  \/ (~a.ok /\ a.dev = m)
         \/ /\ a.ok /\ IsMecha(a.dev) /\ (a.dev.auth <=> m.auth) /\ a.dev.peer = m.peer
            /\ cmd # "90" => a.dev.mode = m.mode
            /\ cmd = "90" => /\ m.auth /\ a.dev.op = "header" /\ a.dev.mode = arg[1] /\ a.dev.left = arg[2]
                             /\ a.dev.got = <<>> /\ a.dev.nth = 0 /\ a.dev.calc = "ok"
            /\ cmd = "8D" => a = MechaTakes(m, in)
            /\ cmd = "92" => /\ a.dev.op = "block" /\ a.dev.left = arg[1] /\ a.dev.got = <<>>
                             /\ a.dev.nth = m.nth /\ a.dev.calc = m.calc
            /\ cmd \in Reads => a.dev = m
            /\ cmd = "8F" => m.calc = "ok" /\ Len(m.got) = m.left
            /\ cmd = "94" => m.mode = 2 /\ a.out = <<Half("Kbit1", m.peer, file.keys)>>
            /\ cmd = "95" => m.mode = 2 /\ a.out = <<Half("Kbit2", m.peer, file.keys)>>
            /\ cmd = "96" => m.mode = 2 /\ a.out = <<Half("Kc1", m.peer, file.keys)>>
            /\ cmd = "97" => m.mode = 2 /\ a.out = <<Half("Kc2", m.peer, file.keys)>>
<1>0. CASE cmd \in FileCommands /\ ~MechaReady(m, cmd)
  <2>1. a = [dev |-> m, ok |-> FALSE, out |-> <<>>]
    BY <1>0 DEF MechaDoes
  <2> QED
    BY <2>1
<1>1. CASE cmd = "90" /\ MechaReady(m, cmd)
  <2> DEFINE n == [m EXCEPT !.nth = 0, !.calc = "ok"]
  <2>1. a = MechaOpens(n, "header", arg[1], arg[2])
    BY <1>1 DEF MechaDoes, FileCommands
  <2>2. IsMecha(n) /\ (n.auth <=> m.auth) /\ n.peer = m.peer /\ n.nth = 0 /\ n.calc = "ok" /\ m.auth
    BY <1>1 DEF IsMecha, MechaReady
  <2> HIDE DEF n
  <2> PICK mode, size : mode = arg[1] /\ size = arg[2]
    OBVIOUS
  <2>4. a = MechaOpens(n, "header", mode, size)
    BY <2>1
  <2>3. (a.dev.auth <=> n.auth)
    BY <2>2, <2>4, HeaderOpens
  <2>5. a.ok /\ IsMecha(a.dev) /\ a.dev.peer = n.peer /\ a.dev.nth = n.nth
    BY <2>2, <2>4, HeaderOpens
  <2>6. a.dev.op = "header" /\ a.dev.mode = mode /\ a.dev.left = size /\ a.dev.got = <<>> /\ a.dev.calc = n.calc
    BY <2>2, <2>4, HeaderOpens
  <2> QED
    BY <1>1, <2>2, <2>3, <2>5, <2>6 DEF Reads
<1>2. CASE cmd = "8D"
  <2>1. a = MechaTakes(m, in)
    BY <1>2 DEF MechaDoes, MechaReady, FileCommands
  <2>2. cmd \notin Reads /\ cmd \notin {"90", "92", "8F", "94", "95", "96", "97"}
    BY <1>2 DEF Reads
  <2> QED
    BY <1>2, <2>1, <2>2, MechaTakesStep
<1>3. CASE cmd = "92" /\ MechaReady(m, cmd)
  <2>1. a = MechaOpens(m, "block", m.mode, arg[1])
    BY <1>3 DEF MechaDoes, FileCommands
  <2>2. /\ a.ok /\ IsMecha(a.dev) /\ (a.dev.auth <=> m.auth) /\ a.dev.peer = m.peer /\ a.dev.nth = m.nth
        /\ a.dev.op = "block" /\ a.dev.mode = m.mode /\ a.dev.left = arg[1] /\ a.dev.got = <<>> /\ a.dev.calc = m.calc
    BY <2>1, MechaOpensStep
  <2> QED
    BY <1>3, <2>2 DEF Reads
<1>4. CASE cmd \in Reads \ {"8F"} /\ MechaReady(m, cmd)
  <2>1. a = [dev |-> m, ok |-> TRUE, out |-> MechaGets(m, cmd)] /\ cmd \notin {"90", "8D", "92", "8F"}
    BY <1>4 DEF MechaDoes, Reads, FileCommands
  <2>2. cmd \in {"94", "95", "96", "97"} => m.mode = 2
    BY <1>4 DEF MechaReady
  <2>3. /\ cmd = "94" => MechaGets(m, cmd) = <<Half("Kbit1", m.peer, file.keys)>>
        /\ cmd = "95" => MechaGets(m, cmd) = <<Half("Kbit2", m.peer, file.keys)>>
        /\ cmd = "96" => MechaGets(m, cmd) = <<Half("Kc1", m.peer, file.keys)>>
        /\ cmd = "97" => MechaGets(m, cmd) = <<Half("Kc2", m.peer, file.keys)>>
    BY DEF MechaGets
  <2>4. a.dev = m /\ a.ok /\ a.out = MechaGets(m, cmd)
    BY <2>1
  <2> QED
    BY <2>1, <2>2, <2>3, <2>4
<1>5. CASE cmd = "8F"
  <2>1. a = [dev |-> m, ok |-> m.calc = "ok" /\ Len(m.got) = m.left, out |-> <<>>]
    BY <1>5 DEF MechaDoes, MechaProtocol, FileCommands
  <2>2. a.dev = m /\ a.ok = (m.calc = "ok" /\ Len(m.got) = m.left)
    BY <2>1
  <2> QED
    BY <1>5, <2>2
<1> QED
  BY <1>0, <1>1, <1>2, <1>3, <1>4, <1>5 DEF FileCommands, Reads

(* Every command of the MECHACON: a refusal changes nothing, only 88 authenticates it, only
   80 and 83 change the nonce it holds. *)
LEMMA MechaStep ==
  ASSUME NEW m, IsMecha(m), NEW cmd, NEW arg, NEW in, NEW a, a = MechaDoes(m, cmd, arg, in)
  PROVE  \/ (~a.ok /\ a.dev = m)
         \/ /\ a.ok /\ IsMecha(a.dev)
            /\ cmd \notin {"80", "83"} => a.dev.peer = m.peer
            /\ a.dev.auth => (m.auth \/ cmd = "88")
            /\ cmd = "88" => a.dev.auth
            /\ cmd = "80" => a.dev = ResetMecha
            /\ cmd \notin {"80", "8D", "90", "92"} => a.dev.got = m.got /\ a.dev.left = m.left
            /\ cmd \in {"80", "8D"} => Len(a.dev.got) <= a.dev.left
            /\ cmd = "90" => a.dev.got = <<>> /\ a.dev.left = arg[2]
            /\ cmd = "92" => a.dev.got = <<>> /\ a.dev.left = arg[1]
            /\ cmd = "85" => a.out = <<Value("MechaChallenge2hi", m.peer), Value("MechaChallenge3", m.peer)>>
<1>1. CASE cmd \in FileCommands \cup {"8F"}
  <2>1. cmd \notin {"88", "80", "85", "83"}
    BY <1>1 DEF FileCommands
  <2>2. \/ (~a.ok /\ a.dev = m)
        \/ /\ a.ok /\ IsMecha(a.dev) /\ (a.dev.auth <=> m.auth) /\ a.dev.peer = m.peer
           /\ cmd = "90" => a.dev.got = <<>> /\ a.dev.left = arg[2]
           /\ cmd = "8D" => a = MechaTakes(m, in)
           /\ cmd = "92" => a.dev.got = <<>> /\ a.dev.left = arg[1]
           /\ cmd \in Reads => a.dev = m
    BY <1>1, MechaFileStep
  <2>3. cmd = "8D" /\ a.ok => Len(a.dev.got) <= a.dev.left
    <3> SUFFICES ASSUME cmd = "8D", a.ok PROVE Len(a.dev.got) <= a.dev.left
      OBVIOUS
    <3>1. a = MechaTakes(m, in)
      BY <2>2
    <3>2. Len(m.got \o in) <= m.left /\ a.dev.left = m.left /\ a.dev.got = m.got \o in
      BY <3>1, MechaTakesStep
    <3> QED
      BY <3>2
  <2>4. cmd \in Reads \/ cmd \in {"8D", "90", "92"}
    BY <1>1 DEF FileCommands, Reads
  <2> QED
    BY <2>1, <2>2, <2>3, <2>4
<1>2. CASE cmd = "80"
  <2>1. a = [dev |-> ResetMecha, ok |-> TRUE, out |-> <<>>]
    BY <1>2 DEF MechaDoes, MechaProtocol, FileCommands
  <2>2. IsMecha(ResetMecha) /\ ResetMecha.auth = FALSE /\ Len(ResetMecha.got) <= ResetMecha.left
    BY DEF IsMecha, ResetMecha
  <2>3. a.ok /\ a.dev = ResetMecha
    BY <2>1
  <2> QED
    BY <1>2, <2>2, <2>3
<1>3. CASE cmd \notin FileCommands \cup {"8F", "80"}
  <2>1. a = MechaHandshake(m, cmd, in)
    BY <1>3 DEF MechaDoes, MechaProtocol, FileCommands
  <2>2. cmd \notin {"80", "8D", "90", "92"}
    BY <1>3 DEF FileCommands
  <2> QED
    BY <1>3, <2>1, <2>2, MechaHandshakeStep
<1> QED
  BY <1>1, <1>2, <1>3

(* The operations, and the names that a step of a script may store under. *)
Fns == {"idle", "auth", "cleanup", "reset", "sign", "boot", "failed"}
LocalNames == Locals \cup ToSet(Halves) \cup {"icvps2"}

(* The types of every variable, and that the MECHACON holds no more data than it expects. *)
TypeInv ==
    /\ IsCard(card) /\ IsMecha(mecha)
    /\ tries \in Nat /\ faults \in Nat
    /\ DOMAIN loc = LocalNames
    /\ fn \in Fns
    /\ fn = "idle" => todo = <<>>
    /\ card.s <= tries
    /\ card.auth => card.at # 0
    /\ Len(mecha.got) <= mecha.left
    /\ result \in {0, 1} /\ hit \in {"no", "late", "yes"}
    /\ {file, twin, signed.file} \subseteq Files

(* Whenever both devices take each other for authenticated, it is over the nonce of one and the
   same try. *)
PairInv == card.auth /\ mecha.auth => mecha.peer = card.s

(* The steps a file's script is made of: none of them can authenticate anybody. *)
FileStep(e) == \/ e.to = "card" /\ e.cmd \in CardKeyCmds
               \/ /\ e.to = "mecha" /\ e.cmd \in FileCommands \cup {"8F"}
                  /\ e.cmd = "90" => e.arg[2] \in Nat
                  /\ e.cmd = "92" => e.arg[1] \in Nat
               \/ e.to \in {"rpc", "self"}
InScript(s) == \E S : s \in Seq(S) /\ \A e \in S : FileStep(e)
ScriptInv == fn \in {"sign", "boot"} => InScript(todo)

(* How far the two devices are when n exchanges of the handshake are done. *)
AuthAt(n) ==
    /\ todo = After(Handshake, n)
    /\ n < 2 => card.s < tries
    /\ n >= 2 /\ n < P + 21 => ~mecha.auth
    /\ n >= P + 2 => loc["MechaChallenge3"] = Value("MechaChallenge3", mecha.peer)
    /\ n >= P + 3 => card.at = 0 \/ mecha.peer = card.s
    /\ n >= P + 20 => (card.auth /\ mecha.peer = card.s) \/ hit = "late"
    /\ n = P + 21 => mecha.auth
AuthInv == fn = "auth" => \E n \in 0 .. P + 21 : AuthAt(n)

(* What the clean-up of card_auth still has to send. *)
Cleanups == {<<>>, <<card_auth_60>>, <<mechacon_auth_80>>, <<card_auth_60, mechacon_auth_80>>}
CleanupInv ==
    /\ fn \in {"cleanup", "reset"} => todo \in Cleanups
    /\ fn = "failed" => todo = <<>>
    /\ fn = "cleanup" /\ Paired /\ card.s = tries => faults + Len(todo) >= 3

(* The inductive invariant of the handshake. *)
HInv == TypeInv /\ PairInv /\ ScriptInv /\ AuthInv /\ CleanupInv

(* The pieces of an exchange: what is stored, and how the caller goes on. *)
GotAt(how, j) == IF how = "garbled" \/ j \notin DOMAIN Device.out THEN Noise ELSE Device.out[j]
Filled(how, ok) ==
    [v \in DOMAIN loc |->
        IF ok /\ \E j \in DOMAIN x.get : x.get[j] = v
        THEN GotAt(how, CHOOSE j \in DOMAIN x.get : x.get[j] = v) ELSE loc[v]]
Answered(how, ok) ==
    /\ x.cmd # "8E" /\ ok => how = "done" /\ Device.ok
    /\ how = "done" /\ ~ok => ~Device.ok
    /\ loc' = Filled(how, ok)
    /\ Next_(ok)

(* What an exchange does, with the device's answer, the store and the script apart. *)
LEMMA ExchangeStep ==
  ASSUME NEW how \in {"done", "lost", "unheard", "garbled"}, Exchange(how)
  PROVE  /\ todo # <<>> /\ x.to \in {"card", "mecha"}
         /\ card' = (IF how # "lost" /\ x.to = "card" THEN Device.dev ELSE card)
         /\ mecha' = (IF how # "lost" /\ x.to = "mecha" THEN Device.dev ELSE mecha)
         /\ faults' = (IF how = "done" THEN faults ELSE faults + 1)
         /\ hit' = (IF how = "done" THEN hit ELSE "yes")
         /\ UNCHANGED <<isDEX, handler, result, tries, swaps, fileVars, start, due, signed>>
         /\ \E ok \in BOOLEAN : Answered(how, ok)
<1> DEFINE r == [heard |-> how \in {"done", "garbled"}, refused |-> ~Device.ok, intact |-> how # "garbled"]
           ok == IF x.cmd = "8E" THEN r.heard ELSE Accepted(x, r)
<1>1. /\ card' = (IF how # "lost" /\ x.to = "card" THEN Device.dev ELSE card)
      /\ mecha' = (IF how # "lost" /\ x.to = "mecha" THEN Device.dev ELSE mecha)
  BY DEF Exchange
<1>2. loc' = Filled(how, ok) /\ Next_(ok)
  BY DEF Exchange, Filled, GotAt
<1>3. /\ todo # <<>> /\ x.to \in {"card", "mecha"}
      /\ how = "garbled" => x.to = "card" /\ x.get # <<>>
      /\ faults' = (IF how = "done" THEN faults ELSE faults + 1)
      /\ hit' = (IF how = "done" THEN hit ELSE "yes")
      /\ UNCHANGED <<isDEX, handler, result, tries, swaps, fileVars, start, due, signed>>
  BY DEF Exchange
<1>4. (x.cmd # "8E" /\ ok => how = "done" /\ Device.ok) /\ (how = "done" /\ ~ok => ~Device.ok)
  BY <1>3 DEF Accepted
<1> HIDE DEF ok
<1>5. CASE ok
  <2>1. loc' = Filled(how, TRUE) /\ Next_(TRUE)
    BY <1>2, <1>5 DEF Filled, Next_
  <2>2. Answered(how, TRUE)
    BY <1>4, <1>5, <2>1 DEF Answered
  <2> QED
    BY <1>1, <1>3, <2>2
<1>6. CASE ~ok
  <2>1. loc' = Filled(how, FALSE) /\ Next_(FALSE)
    BY <1>2, <1>6 DEF Filled, Next_
  <2>2. Answered(how, FALSE)
    BY <1>4, <1>6, <2>1 DEF Answered
  <2> QED
    BY <1>1, <1>3, <2>2
<1> QED
  BY <1>5, <1>6

(* What the sizes an exchange announces must be. *)
Sized(e) == /\ e.to = "mecha" /\ e.cmd = "90" => e.arg[2] \in Nat
            /\ e.to = "mecha" /\ e.cmd = "92" => e.arg[1] \in Nat

(* A file's script stays one when a step is done. *)
LEMMA InScriptTail ==
  ASSUME NEW s, s # <<>>, InScript(s)
  PROVE  InScript(Tail(s)) /\ FileStep(Head(s))
<1>1. PICK S : s \in Seq(S) /\ \A e \in S : FileStep(e)
  BY DEF InScript
<1>2. Head(s) \in S /\ Tail(s) \in Seq(S)
  BY <1>1
<1> QED
  BY <1>1, <1>2 DEF InScript

(* Which steps a handshake may have, device by device. *)
LEMMA HandshakeStep ==
  ASSUME NEW n \in Nat, todo = After(Handshake, n), todo # <<>>, n <= P + 21
  PROVE  /\ n < P + 21 /\ x = Handshake[n + 1] /\ Tail(todo) = After(Handshake, n + 1) /\ x \in HandshakeSteps
         /\ x.to \in {"card", "mecha"} /\ x.cmd \notin {"90", "92"}
<1>1. Len(Handshake) = P + 21 /\ P \in Nat
  BY HandshakeAt
<1>2. n # P + 21
  <2>1. After(Handshake, Len(Handshake)) = <<>>
    BY HandshakeAt, SuffixEnds
  <2> QED
    BY <2>1, <1>1
<1>3. x = Handshake[n + 1] /\ Tail(todo) = After(Handshake, n + 1)
  <2> PICK h : h = Handshake
    OBVIOUS
  <2>1. h \in Seq(HandshakeSteps) /\ n \in Nat /\ todo = After(h, n) /\ todo # <<>>
    BY HandshakeAt
  <2>2. n < Len(h)
    BY <1>1, <1>2
  <2> QED
    BY <2>1, <2>2, SuffixStep DEF x
<1>4. x \in HandshakeSteps
  <2>1. n + 1 \in 1 .. Len(Handshake)
    BY <1>1, <1>2
  <2>2. \A i \in 1 .. Len(Handshake) : Handshake[i] \in HandshakeSteps
    BY HandshakeAt
  <2> QED
    BY <1>3, <2>1, <2>2
<1>5. \A e \in HandshakeSteps : e.to \in {"card", "mecha"} /\ e.cmd \notin {"90", "92"}
  BY DEF HandshakeSteps, EarlySteps, LateSteps, card_auth, card_auth2, card_auth_write,
      card_auth_read, card_auth_60,
     card_auth_key_change, mechacon_auth_80, mechacon_auth_81, mechacon_auth_82, mechacon_auth_83,
     mechacon_auth_84, mechacon_auth_85, mechacon_auth_86, mechacon_auth_87, mechacon_auth_88, pol_cal_cmplt,
     ToCard, ToMecha, Exchanged
<1> QED
  BY <1>1, <1>2, <1>3, <1>4, <1>5

(* The head of any script gives sizes only. *)
LEMMA ScriptSized ==
  ASSUME HInv, todo # <<>>
  PROVE  Sized(x)
<1>1. CASE fn = "auth"
  <2>1. PICK n \in 0 .. P + 21 : todo = After(Handshake, n)
    BY <1>1 DEF HInv, AuthInv, AuthAt
  <2>2. n \in Nat
    BY HandshakeAt
  <2>3. x.cmd \notin {"90", "92"}
    BY <2>1, <2>2, HandshakeStep
  <2> QED
    BY <2>3 DEF Sized
<1>2. CASE fn \in {"cleanup", "reset"}
  <2>1. todo \in Cleanups
    BY <1>2 DEF HInv, CleanupInv
  <2>2. x \in {card_auth_60, mechacon_auth_80}
    BY <2>1 DEF Cleanups, x
  <2>3. card_auth_60.cmd = "60" /\ mechacon_auth_80.cmd = "80"
    BY DEF card_auth_60, mechacon_auth_80, ToCard, ToMecha, Exchanged
  <2> QED
    BY <2>2, <2>3 DEF Sized
<1>3. CASE fn \in {"sign", "boot"}
  <2>1. FileStep(x)
    BY <1>3, InScriptTail DEF HInv, ScriptInv, x
  <2> QED
    BY <2>1 DEF FileStep, Sized
<1> QED
  BY <1>1, <1>2, <1>3 DEF HInv, TypeInv, CleanupInv, Fns

(* The two devices after an exchange. *)
LEMMA DevicesStep ==
  ASSUME TypeInv, NEW how \in {"done", "lost", "unheard", "garbled"}, Exchange(how)
  PROVE  /\ IsCard(card') /\ IsMecha(mecha') /\ card'.id = card.id
         /\ x.to = "mecha" \/ how = "lost" => card' = card
         /\ x.to = "card" \/ how = "lost" => mecha' = mecha
         /\ card'.s = card.s \/ (x.cmd = "00" /\ card'.s = tries) \/ card'.s = 0
         /\ x.cmd \notin {"60", "00"} => card'.s = card.s /\ (card.at = 0 => card'.at = 0)
         /\ card'.auth => card'.at # 0 /\ (card.auth \/ (x.to = "card" /\ x.cmd = "14"))
         /\ mecha'.auth => mecha.auth \/ (x.to = "mecha" /\ x.cmd = "88")
         /\ x.cmd \notin {"80", "83"} => mecha'.peer = mecha.peer
         /\ x.to = "card" /\ x.cmd = "60" => Device.ok /\ (how # "lost" => card' = NewCard(card.id))
         /\ x.to = "mecha" /\ x.cmd = "80" /\ how # "lost" => ~mecha'.auth
         /\ Sized(x) => Len(mecha'.got) <= mecha'.left
<1>1. /\ todo # <<>> /\ x.to \in {"card", "mecha"}
      /\ card' = (IF how # "lost" /\ x.to = "card" THEN Device.dev ELSE card)
      /\ mecha' = (IF how # "lost" /\ x.to = "mecha" THEN Device.dev ELSE mecha)
  BY ExchangeStep
<1>2. CASE x.to = "card"
  <2>1. Device = CardDoes(card, x.cmd, Sent)
    BY <1>2 DEF Device
  <2>2. IsCard(card) /\ tries \in Nat
    BY DEF TypeInv
  <2> PICK a, cmd, in : a = Device /\ cmd = x.cmd /\ in = Sent
    OBVIOUS
  <2>3. a = CardDoes(card, cmd, in)
    BY <2>1
  <2>4. /\ IsCard(a.dev) /\ a.dev.id = card.id /\ a.ok \in BOOLEAN
        /\ cmd = "60" => a.ok /\ a.dev = NewCard(card.id)
        /\ a.dev.s = card.s \/ (cmd = "00" /\ a.dev.s = tries) \/ cmd = "60"
        /\ cmd \notin {"60", "00"} /\ card.at = 0 => a.dev.at = 0
        /\ a.dev.auth /\ ~card.auth => cmd = "14" /\ card.at # 0
        /\ a.dev.auth => a.dev.at = card.at \/ a.dev.at # 0
    BY <2>2, <2>3, CardStep
  <2>5. NewCard(card.id).s = 0
    BY DEF NewCard
  <2>6. mecha' = mecha /\ IsMecha(mecha) /\ (card.auth => card.at # 0) /\ Len(mecha.got) <= mecha.left
    BY <1>1, <1>2 DEF TypeInv
  <2>7. CASE how = "lost"
    <3>1. card' = card
      BY <1>1, <2>7
    <3> QED
      BY <1>2, <2>2, <2>4, <2>6, <2>7, <3>1
  <2>8. CASE how # "lost"
    <3>1. card' = a.dev
      BY <1>1, <1>2, <2>8
    <3> QED
      BY <1>2, <2>2, <2>4, <2>5, <2>6, <2>8, <3>1
  <2> QED
    BY <2>7, <2>8
<1>3. CASE x.to = "mecha"
  <2>1. Device = MechaDoes(mecha, x.cmd, x.arg, Sent)
    BY <1>3 DEF Device
  <2>2. IsCard(card) /\ IsMecha(mecha) /\ (card.auth => card.at # 0) /\ card' = card /\ Len(mecha.got) <= mecha.left
    BY <1>1, <1>3 DEF TypeInv
  <2> PICK a, cmd, in, arg : a = Device /\ cmd = x.cmd /\ in = Sent /\ arg = x.arg
    OBVIOUS
  <2>3. a = MechaDoes(mecha, cmd, arg, in)
    BY <2>1
  <2>4. \/ (~a.ok /\ a.dev = mecha)
        \/ /\ a.ok /\ IsMecha(a.dev)
           /\ cmd \notin {"80", "83"} => a.dev.peer = mecha.peer
           /\ a.dev.auth => (mecha.auth \/ cmd = "88")
           /\ cmd = "80" => a.dev = ResetMecha
           /\ cmd \notin {"80", "8D", "90", "92"} => a.dev.got = mecha.got /\ a.dev.left = mecha.left
           /\ cmd \in {"80", "8D"} => Len(a.dev.got) <= a.dev.left
           /\ cmd = "90" => a.dev.got = <<>> /\ a.dev.left = arg[2]
           /\ cmd = "92" => a.dev.got = <<>> /\ a.dev.left = arg[1]
    BY <2>2, <2>3, MechaStep
  <2>5. cmd = "80" => a.dev = ResetMecha
    BY <2>3 DEF MechaDoes, MechaProtocol, FileCommands
  <2>6. ResetMecha.auth = FALSE
    BY DEF ResetMecha
  <2>9. Sized(x) => Len(a.dev.got) <= a.dev.left
    <3>1. cmd = "90" /\ Sized(x) => arg[2] \in Nat
      BY <1>3 DEF Sized
    <3>2. cmd = "92" /\ Sized(x) => arg[1] \in Nat
      BY <1>3 DEF Sized
    <3>3. Len(<<>>) = 0
      OBVIOUS
    <3> QED
      BY <2>2, <2>4, <3>1, <3>2, <3>3
  <2>7. CASE how = "lost"
    <3>1. mecha' = mecha
      BY <1>1, <2>7
    <3> QED
      BY <1>3, <2>2, <2>7, <3>1
  <2>8. CASE how # "lost"
    <3>1. mecha' = a.dev
      BY <1>1, <1>3, <2>8
    <3> QED
      BY <1>3, <2>2, <2>4, <2>5, <2>6, <2>8, <2>9, <3>1
  <2> QED
    BY <2>7, <2>8
<1> QED
  BY <1>1, <1>2, <1>3

(* An exchange keeps the types. *)
LEMMA TypeExchange ==
  ASSUME HInv, NEW how \in {"done", "lost", "unheard", "garbled"}, Exchange(how)
  PROVE  TypeInv'
<1>0. TypeInv /\ Sized(x)
  BY ScriptSized, ExchangeStep DEF HInv
<1>1. IsCard(card') /\ IsMecha(mecha') /\ (card'.auth => card'.at # 0) /\ Len(mecha'.got) <= mecha'.left
  BY <1>0, DevicesStep
<1>2. card'.s <= tries /\ tries' = tries
  <2>1. card'.s = card.s \/ (x.cmd = "00" /\ card'.s = tries) \/ card'.s = 0
    BY <1>0, DevicesStep
  <2>2. tries \in Nat /\ card.s <= tries
    BY <1>0 DEF TypeInv
  <2>3. tries' = tries
    BY ExchangeStep
  <2> QED
    BY <2>1, <2>2, <2>3
<1>3. faults' \in Nat
  BY <1>0, ExchangeStep DEF TypeInv
<1>4. PICK ok \in BOOLEAN : Answered(how, ok)
  BY ExchangeStep
<1>5. DOMAIN loc' = LocalNames
  BY <1>0, <1>4 DEF Answered, Filled, TypeInv
<1>6. fn' \in Fns /\ fn' # "idle"
  <2>1. todo # <<>>
    BY ExchangeStep
  <2>2. fn \in Fns \ {"idle"}
    BY <1>0, <2>1 DEF TypeInv
  <2> QED
    BY <1>4, <2>2 DEF Answered, Next_, Fns
<1>7. result' \in {0, 1} /\ hit' \in {"no", "late", "yes"} /\ {file', twin', signed'.file} \subseteq Files
  BY <1>0, ExchangeStep DEF TypeInv, fileVars
<1>8. (fn = "idle" => todo = <<>>)' /\ (card.s <= tries)'
  BY <1>2, <1>6
<1>9. ({file, twin, signed.file} \subseteq Files)'
  BY <1>7
<1> QED
  BY <1>0, <1>1, <1>2, <1>3, <1>5, <1>6, <1>7, <1>8, <1>9 DEF TypeInv

(* What the positions of the handshake have to do with the devices. *)
LEMMA StepCommands ==
  /\ \A e \in EarlySteps : /\ e.cmd \notin {"60", "80", "88", "14", "8E"} /\ e.units = <<>>
                           /\ ErrorEnd(e) \in Cleanups
  /\ \A e \in LateSteps : /\ e.cmd \notin {"60", "80", "83", "00", "88", "14", "8E"}
                          /\ \A j \in DOMAIN e.get : e.get[j] # "MechaChallenge3"
BY DEF EarlySteps, LateSteps, card_auth, card_auth2, card_auth_write, card_auth_read, card_auth_60,
   card_auth_key_change, mechacon_auth_80, mechacon_auth_81, mechacon_auth_82, mechacon_auth_83,
   mechacon_auth_84, mechacon_auth_85, mechacon_auth_86, mechacon_auth_87, mechacon_auth_88, pol_cal_cmplt,
   ToCard, ToMecha, Exchanged, ErrorEnd, Cleanups

(* A failed exchange of the handshake leaves the clean-up. *)
LEMMA EndsInCleanup ==
  /\ \A e : ErrorEnd(e) \in Cleanups
  /\ Len(ErrorEnd(mechacon_auth_88)) = 2
  /\ \A c \in Cleanups : Len(c) \in 0 .. 2
  /\ card_auth_60.to = "card" /\ card_auth_60.cmd = "60"
  /\ mechacon_auth_80.to = "mecha" /\ mechacon_auth_80.cmd = "80"
  /\ mechacon_auth_88.to = "mecha" /\ mechacon_auth_88.cmd = "88"
BY DEF ErrorEnd, Cleanups, card_auth_60, mechacon_auth_80, card_auth_key_change, card_auth,
    mechacon_auth_81,
   mechacon_auth_88, ToCard, ToMecha, Exchanged

(* The script is a function of the console alone. *)
LEMMA SameHandshake == UNCHANGED isDEX => P' = P /\ Handshake' = Handshake
BY DEF P, Handshake, Opening, MechaChallenges, CardResponses, card_auth_60, mechacon_auth_80,
    card_auth_key_change,
   card_auth, card_auth2, card_auth_write, card_auth_read, mechacon_auth_81, mechacon_auth_82, mechacon_auth_83,
   mechacon_auth_84, mechacon_auth_85, mechacon_auth_86, mechacon_auth_87, mechacon_auth_88, pol_cal_cmplt,
   ToCard, ToMecha, Exchanged

(* The answers of the card and the MECHACON at the place the handshake has come to. *)
LEMMA CardSays ==
  ASSUME TypeInv, x.to = "card", Device.ok
  PROVE  /\ x.cmd = "14" => Device.dev.auth /\ card.at # 0
         /\ x.cmd = "06" => Sent = <<Value("MechaChallenge3", card.s)>>
<1> PICK a, cmd, in : a = Device /\ cmd = x.cmd /\ in = Sent
  OBVIOUS
<1>1. a = CardDoes(card, cmd, in) /\ a.ok
  BY DEF Device
<1>2. IsCard(card) /\ tries \in Nat
  BY DEF TypeInv
<1> QED
  BY <1>1, <1>2, CardStep

(* The same of the MECHACON. *)
LEMMA MechaSays ==
  ASSUME TypeInv, x.to = "mecha"
  PROVE  /\ ~Device.ok => Device.dev = mecha
         /\ Device.ok /\ x.cmd = "88" => Device.dev.auth
         /\ Device.ok /\ x.cmd = "85" =>
               Device.out = <<Value("MechaChallenge2hi", mecha.peer), Value("MechaChallenge3", mecha.peer)>>
<1> PICK a, cmd, in, arg : a = Device /\ cmd = x.cmd /\ in = Sent /\ arg = x.arg
  OBVIOUS
<1>1. a = MechaDoes(mecha, cmd, arg, in)
  BY DEF Device
<1>2. IsMecha(mecha)
  BY DEF TypeInv
<1>3. \/ (~a.ok /\ a.dev = mecha)
      \/ /\ a.ok /\ IsMecha(a.dev)
         /\ cmd = "88" => a.dev.auth
         /\ cmd = "85" => a.out = <<Value("MechaChallenge2hi", mecha.peer), Value("MechaChallenge3", mecha.peer)>>
  BY <1>1, <1>2, MechaStep
<1> QED
  BY <1>3

(* What is stored only where it was asked for. *)
LEMMA Unfilled ==
  ASSUME TypeInv, NEW v \in LocalNames, \A j \in DOMAIN x.get : x.get[j] # v, NEW how, NEW ok
  PROVE  Filled(how, ok)[v] = loc[v]
BY DEF Filled, TypeInv

(* A step of the handshake that is not taken leaves no pair of this one. *)
LEMMA AuthExchange ==
  ASSUME HInv, fn = "auth", NEW how \in {"done", "lost", "unheard", "garbled"}, Exchange(how)
  PROVE  PairInv' /\ AuthInv' /\ CleanupInv' /\ fn' \in {"auth", "cleanup"}
<1>1. PICK n \in 0 .. P + 21 : AuthAt(n)
  BY DEF HInv, AuthInv
<1>2. n < P + 21 /\ n \in Nat /\ n + 1 \in 0 .. P + 21 /\ P \in Nat /\ P > 2
  <2>1. todo # <<>>
    BY ExchangeStep
  <2>2. After(Handshake, Len(Handshake)) = <<>>
    BY HandshakeAt, SuffixEnds
  <2> QED
    BY <1>1, <2>1, <2>2, HandshakeAt DEF AuthAt
<1>3. x = Handshake[n + 1] /\ Tail(todo) = After(Handshake, n + 1)
  BY <1>1, <1>2, HandshakeAt, SuffixStep DEF AuthAt, x
<1>4. PICK ok \in BOOLEAN : Answered(how, ok)
  BY ExchangeStep
<1>5. IF ok THEN todo' = After(Handshake, n + 1) /\ fn' = "auth" ELSE todo' = ErrorEnd(x) /\ fn' = "cleanup"
  BY <1>3, <1>4 DEF Answered, Next_
<1>6. P' = P /\ Handshake' = Handshake /\ tries' = tries /\ faults' = (IF how = "done" THEN faults ELSE faults + 1)
      /\ (how = "done" => hit' = hit)
  <2>1. UNCHANGED isDEX /\ tries' = tries /\ faults' = (IF how = "done" THEN faults ELSE faults + 1)
        /\ (how = "done" => hit' = hit)
    BY ExchangeStep
  <2> QED
    BY <2>1, SameHandshake
<1>7. TypeInv /\ PairInv
  BY DEF HInv
<1>8. /\ (x.to = "mecha" \/ how = "lost" => card' = card)
      /\ (x.to = "card" \/ how = "lost" => mecha' = mecha)
      /\ (card'.s = card.s \/ (x.cmd = "00" /\ card'.s = tries) \/ card'.s = 0)
      /\ (x.cmd \notin {"60", "00"} => card'.s = card.s /\ (card.at = 0 => card'.at = 0))
      /\ (card'.auth => card'.at # 0 /\ (card.auth \/ (x.to = "card" /\ x.cmd = "14")))
      /\ (mecha'.auth => mecha.auth \/ (x.to = "mecha" /\ x.cmd = "88"))
      /\ (x.cmd \notin {"80", "83"} => mecha'.peer = mecha.peer)
      /\ (x.to = "card" /\ x.cmd = "60" => Device.ok /\ (how # "lost" => card' = NewCard(card.id)))
      /\ (x.to = "mecha" /\ x.cmd = "80" /\ how # "lost" => ~mecha'.auth)
  BY <1>7, DevicesStep
(* Enough to know of the state after a step that was taken. *)
<1>9. ASSUME ok, AuthAt(n + 1)' PROVE AuthInv' /\ CleanupInv' /\ fn' \in {"auth", "cleanup"}
  <2>1. fn' = "auth"
    BY <1>5, <1>9
  <2>2. n + 1 \in 0 .. P' + 21
    BY <1>2, <1>6
  <2> QED
    BY <1>9, <2>1, <2>2 DEF AuthInv, CleanupInv
<1>10. ASSUME ~ok, ~(Paired' /\ card'.s = tries') \/ faults' + Len(todo') >= 3
       PROVE  AuthInv' /\ CleanupInv' /\ fn' \in {"auth", "cleanup"}
  <2>1. todo' \in Cleanups /\ fn' = "cleanup"
    BY <1>5, <1>10, EndsInCleanup
  <2>2. Cleanups' = Cleanups
    BY DEF Cleanups, card_auth_60, mechacon_auth_80, ToCard, ToMecha, Exchanged
  <2> QED
    BY <1>10, <2>1, <2>2 DEF AuthInv, CleanupInv
<1>11. CASE n < 2
  <2>1. card.s < tries /\ tries \in Nat /\ card.s \in Nat
    BY <1>1, <1>7, <1>11 DEF AuthAt, TypeInv, IsCard
  <2>2. x.cmd # "00" /\ (n = 0 => x = card_auth_60) /\ (n = 1 => x = mechacon_auth_80)
    BY <1>2, <1>3, <1>11, HandshakeAt, EndsInCleanup
  <2>3. card'.s < tries'
    BY <1>6, <1>8, <2>1, <2>2
  <2>4. PairInv'
    <3>1. CASE how = "lost"
      BY <1>7, <1>8, <3>1 DEF PairInv
    <3>2. CASE how # "lost" /\ n = 0
      <4>1. card' = NewCard(card.id)
        BY <1>8, <2>2, <3>2, EndsInCleanup
      <4>2. card'.auth = FALSE
        BY <4>1 DEF NewCard
      <4> QED
        BY <4>2 DEF PairInv
    <3>3. CASE how # "lost" /\ n = 1
      BY <1>8, <2>2, <3>3, EndsInCleanup DEF PairInv
    <3> QED
      BY <1>2, <1>11, <3>1, <3>2, <3>3
  <2>5. CASE ok
    <3>1. n = 1 => ~mecha'.auth
      <4>1. x.cmd # "8E"
        BY <2>2, <1>11, <1>2, EndsInCleanup
      <4>2. how = "done"
        BY <1>4, <2>5, <4>1 DEF Answered
      <4> QED
        BY <1>8, <2>2, <4>2, EndsInCleanup
    <3>2. AuthAt(n + 1)'
      BY <1>2, <1>5, <1>6, <1>11, <2>3, <2>5, <3>1 DEF AuthAt
    <3> QED
      BY <1>9, <2>4, <2>5, <3>2
  <2>6. CASE ~ok
    <3>1. ~(card'.s = tries')
      BY <2>1, <2>3, <1>6, <1>8, <2>2
    <3> QED
      BY <1>10, <2>4, <2>6, <3>1
  <2> QED
    BY <2>5, <2>6
<1>12. CASE n \in 2 .. P + 19
  <2>1. ~mecha.auth
    BY <1>1, <1>2, <1>12 DEF AuthAt
  <2>2. /\ n < P => x \in EarlySteps
        /\ n = P => x = mechacon_auth_84
        /\ n = P + 1 => x = mechacon_auth_85
        /\ n = P + 2 => x = card_auth_write("MechaChallenge3", "06")
        /\ n \in P + 3 .. P + 18 => x \in LateSteps
        /\ n = P + 19 => x = card_auth("14")
    <3>1. n < P => n + 1 \in 3 .. P
      BY <1>2, <1>12
    <3>2. n \in P + 3 .. P + 18 => n + 1 \in P + 4 .. P + 19
      BY <1>2
    <3> QED
      BY <1>2, <1>3, <3>1, <3>2, HandshakeAt
  <2>3. x.cmd \notin {"60", "80", "88", "8E"} /\ (n >= P => x.cmd \notin {"83", "00"})
        /\ (n # P + 1 /\ n >= P => \A j \in DOMAIN x.get : x.get[j] # "MechaChallenge3")
    <3>1. n < P \/ n = P \/ n = P + 1 \/ n = P + 2 \/ n \in P + 3 .. P + 18 \/ n = P + 19
      BY <1>2, <1>12
    <3>2. \A e \in {mechacon_auth_84, mechacon_auth_85, card_auth_write("MechaChallenge3", "06"), card_auth("14")} :
             /\ e.cmd \notin {"60", "80", "88", "8E", "83", "00"}
             /\ e # mechacon_auth_85 => \A j \in DOMAIN e.get : e.get[j] # "MechaChallenge3"
      BY DEF mechacon_auth_84, mechacon_auth_85, card_auth_write, card_auth, ToCard, ToMecha,
          Exchanged
    <3>3. CASE n < P
      BY <2>2, <3>3, <1>2, StepCommands
    <3>4. CASE n \in P + 3 .. P + 18
      BY <2>2, <3>4, <1>2, StepCommands
    <3>5. CASE n = P \/ n = P + 1 \/ n = P + 2 \/ n = P + 19
      <4>1. x \in {mechacon_auth_84, mechacon_auth_85, card_auth_write("MechaChallenge3", "06"), card_auth("14")}
        BY <2>2, <3>5
      <4>2. n # P + 1 => x # mechacon_auth_85
        <5>1. mechacon_auth_84 # mechacon_auth_85 /\ card_auth("14") # mechacon_auth_85
              /\ card_auth_write("MechaChallenge3", "06") # mechacon_auth_85
          BY DEF mechacon_auth_84, mechacon_auth_85, card_auth_write, card_auth, ToCard, ToMecha,
              Exchanged
        <5> QED
          BY <2>2, <3>5, <5>1
      <4> QED
        BY <3>2, <4>1, <4>2
    <3> QED
      BY <3>1, <3>3, <3>4, <3>5
  <2>4. ~mecha'.auth
    BY <1>8, <2>1, <2>3
  <2>5. PairInv'
    BY <2>4 DEF PairInv
  <2>6. CASE ~ok
    <3>1. ~Paired'
      BY <2>4 DEF Paired
    <3> QED
      BY <1>10, <2>5, <2>6, <3>1
  <2>7. CASE ok
    <3>1. how = "done" /\ Device.ok /\ loc' = Filled(how, ok) /\ hit' = hit
      BY <1>4, <1>6, <2>3, <2>7 DEF Answered
    <3>2. ~(n + 1 < 2) /\ (n + 1 >= P + 3 => n >= P + 2) /\ ~(n + 1 = P + 21)
      BY <1>2, <1>12
    <3> DEFINE third == "MechaChallenge3"
    <3>0. third \in LocalNames /\ third \in DOMAIN loc
      BY <1>7 DEF LocalNames, Locals, TypeInv
    <3>3. n >= P + 1 => loc'[third] = Value(third, mecha'.peer)
      <4>1. CASE n = P + 1
        <5>1. x.to = "mecha" /\ x.cmd = "85" /\ x.get = <<"MechaChallenge2hi", "MechaChallenge3">>
          BY <2>2, <4>1 DEF mechacon_auth_85, ToMecha, Exchanged
        <5>2. Device.out = <<Value("MechaChallenge2hi", mecha.peer), Value("MechaChallenge3", mecha.peer)>>
          BY <1>7, <3>1, <5>1, MechaSays
        <5>3. (CHOOSE j \in DOMAIN x.get : x.get[j] = third) = 2 /\ 2 \in DOMAIN x.get /\ x.get[2] = third
          BY <5>1
        <5>4. Filled(how, ok)[third] = GotAt(how, 2)
          BY <2>7, <3>0, <5>3 DEF Filled
        <5>5. GotAt(how, 2) = Value(third, mecha.peer)
          BY <3>1, <5>2 DEF GotAt
        <5> QED
          BY <1>8, <3>1, <5>1, <5>4, <5>5
      <4>2. CASE n > P + 1
        <5>1. loc[third] = Value(third, mecha.peer)
          BY <1>1, <1>2, <4>2 DEF AuthAt
        <5>2. \A j \in DOMAIN x.get : x.get[j] # third
          BY <1>2, <2>3, <4>2
        <5>3. Filled(how, ok)[third] = loc[third]
          BY <1>7, <3>0, <5>2, Unfilled
        <5> QED
          BY <1>2, <1>8, <2>3, <3>1, <4>2, <5>1, <5>3
      <4> QED
        BY <1>2, <4>1, <4>2
    <3>4. n >= P + 2 => card'.at = 0 \/ mecha'.peer = card'.s
      <4>1. CASE n = P + 2
        <5>1. x.to = "card" /\ x.cmd = "06" /\ x.units = <<>> /\ x.put = <<"MechaChallenge3">>
          BY <2>2, <4>1 DEF card_auth_write, ToCard, Exchanged
        <5>2. Sent = <<Value("MechaChallenge3", card.s)>>
          BY <1>7, <3>1, <5>1, CardSays
        <5>3. Sent = <<loc["MechaChallenge3"]>>
          BY <5>1 DEF Sent
        <5>4. loc["MechaChallenge3"] = Value("MechaChallenge3", mecha.peer)
          BY <1>1, <1>2, <4>1 DEF AuthAt
        <5>5. card.s = mecha.peer
          BY <5>2, <5>3, <5>4 DEF Value
        <5> QED
          BY <1>8, <5>1, <5>5
      <4>2. CASE n > P + 2
        <5>1. card.at = 0 \/ mecha.peer = card.s
          BY <1>1, <1>2, <4>2 DEF AuthAt
        <5>2. x.cmd \notin {"60", "80", "83", "00"}
          BY <1>2, <2>3, <4>2
        <5> QED
          BY <1>8, <5>1, <5>2
      <4> QED
        BY <1>2, <4>1, <4>2
    <3>5. n >= P + 19 => card'.auth /\ mecha'.peer = card'.s
      <4> SUFFICES ASSUME n >= P + 19 PROVE card'.auth /\ mecha'.peer = card'.s
        OBVIOUS
      <4>1. n = P + 19 /\ n >= P + 2
        BY <1>2, <1>12
      <4>2. x.to = "card" /\ x.cmd = "14"
        BY <2>2, <4>1 DEF card_auth, ToCard, Exchanged
      <4>3. Device.dev.auth /\ card' = Device.dev
        BY <1>7, <3>1, <4>2, CardSays, ExchangeStep
      <4>4. card'.at # 0
        BY <1>8, <4>3
      <4> QED
        BY <3>4, <4>1, <4>3, <4>4
    <3> HIDE DEF third
    <3>6. AuthAt(n + 1)'
      <4>1. /\ (n + 1 >= P + 2 => n >= P + 1) /\ (n + 1 >= P + 3 => n >= P + 2)
            /\ (n + 1 >= P + 20 => n >= P + 19)
        BY <1>2
      <4>2. loc'["MechaChallenge3"] = Value("MechaChallenge3", mecha'.peer) \/ ~(n + 1 >= P + 2)
        BY <3>3, <4>1 DEF third
      <4>3. P' = P /\ todo' = After(Handshake', n + 1)
        BY <1>5, <1>6, <2>7
      <4>4. (n + 1 < 2 => card'.s < tries') /\ (n + 1 >= 2 /\ n + 1 < P' + 21 => ~mecha'.auth)
            /\ (n + 1 = P' + 21 => mecha'.auth)
        BY <2>4, <3>2, <4>3
      <4>5. /\ n + 1 >= P' + 2 => loc'["MechaChallenge3"] = Value("MechaChallenge3", mecha'.peer)
            /\ n + 1 >= P' + 3 => card'.at = 0 \/ mecha'.peer = card'.s
            /\ n + 1 >= P' + 20 => (card'.auth /\ mecha'.peer = card'.s) \/ hit' = "late"
        BY <3>2, <3>4, <3>5, <4>1, <4>2, <4>3
      <4> QED
        BY <4>3, <4>4, <4>5 DEF AuthAt
    <3> QED
      BY <1>9, <2>5, <2>7, <3>6
  <2> QED
    BY <2>6, <2>7
<1>13. CASE n = P + 20
  <2>1. x = mechacon_auth_88 /\ x.to = "mecha" /\ x.cmd = "88"
    BY <1>2, <1>3, <1>13, HandshakeAt, EndsInCleanup
  <2>2. card' = card /\ mecha'.peer = mecha.peer
    BY <1>8, <2>1
  <2>3. ((card.auth /\ mecha.peer = card.s) \/ hit = "late") /\ (card.at = 0 \/ mecha.peer = card.s) /\ ~mecha.auth
        /\ loc["MechaChallenge3"] = Value("MechaChallenge3", mecha.peer)
    BY <1>1, <1>2, <1>13 DEF AuthAt
  <2>4. PairInv'
    BY <1>7, <2>2, <2>3 DEF PairInv, TypeInv
  <2>5. CASE ok
    <3>1. how = "done" /\ Device.ok /\ loc' = Filled(how, ok) /\ hit' = hit
      BY <1>4, <1>6, <2>1, <2>5 DEF Answered
    <3>2. mecha'.auth
      BY <1>7, <2>1, <3>1, MechaSays, ExchangeStep
    <3>3. loc'["MechaChallenge3"] = loc["MechaChallenge3"]
      <4>1. x.get = <<>>
        BY <2>1 DEF mechacon_auth_88, ToMecha, Exchanged
      <4>2. "MechaChallenge3" \in LocalNames
        BY DEF LocalNames, Locals
      <4> QED
        BY <1>7, <3>1, <4>1, <4>2, Unfilled
    <3>4. AuthAt(n + 1)'
      <4>1. /\ ~(n + 1 < 2) /\ ~(n + 1 < P' + 21)
            /\ loc'["MechaChallenge3"] = Value("MechaChallenge3", mecha'.peer)
            /\ card'.at = 0 \/ mecha'.peer = card'.s
            /\ (card'.auth /\ mecha'.peer = card'.s) \/ hit' = "late"
        BY <1>2, <1>6, <1>13, <2>2, <2>3, <3>1, <3>3
      <4> QED
        BY <1>5, <1>6, <2>5, <3>2, <4>1 DEF AuthAt
    <3> QED
      BY <1>9, <2>4, <2>5, <3>4
  <2>6. CASE ~ok
    <3>1. Len(todo') = 2 /\ faults \in Nat
      BY <1>5, <1>7, <2>1, <2>6, EndsInCleanup DEF TypeInv
    <3>2. CASE how = "done"
      <4>1. ~mecha'.auth
        <5>1. ~Device.ok
          BY <1>4, <2>6, <3>2 DEF Answered
        <5>2. mecha' = Device.dev \/ mecha' = mecha
          BY ExchangeStep
        <5> QED
          BY <1>7, <2>1, <2>3, <5>1, <5>2, MechaSays
      <4> QED
        <5>1. ~Paired'
          BY <4>1 DEF Paired
        <5> QED
          BY <1>10, <2>4, <2>6, <5>1
    <3>3. CASE how # "done"
      <4>1. faults' + Len(todo') >= 3
        BY <1>6, <3>1, <3>3
      <4> QED
        BY <1>10, <2>4, <2>6, <4>1
    <3> QED
      BY <3>2, <3>3
  <2> QED
    BY <2>5, <2>6
<1> QED
  BY <1>2, <1>11, <1>12, <1>13

(* Two scripts of a file one after the other are a script of a file. *)
LEMMA InScriptConcat ==
  ASSUME NEW s, NEW t, InScript(s), InScript(t)
  PROVE  InScript(s \o t)
<1>1. PICK S : s \in Seq(S) /\ \A e \in S : FileStep(e)
  BY DEF InScript
<1>2. PICK T : t \in Seq(T) /\ \A e \in T : FileStep(e)
  BY DEF InScript
<1>3. s \in Seq(S \cup T) /\ t \in Seq(S \cup T) /\ \A e \in S \cup T : FileStep(e)
  BY <1>1, <1>2
<1>4. s \o t \in Seq(S \cup T)
  BY <1>3, ConcatProperties
<1> QED
  BY <1>3, <1>4 DEF InScript

(* An exchange of the clean-up leaves less of it, and the devices it reached reset. *)
LEMMA CleanupExchange ==
  ASSUME HInv, fn \in {"cleanup", "reset"}, NEW how \in {"done", "lost", "unheard", "garbled"}, Exchange(how)
  PROVE  PairInv' /\ AuthInv' /\ CleanupInv' /\ ScriptInv'
<1>1. TypeInv /\ PairInv /\ todo \in Cleanups /\ todo # <<>>
      /\ (fn = "cleanup" /\ Paired /\ card.s = tries => faults + Len(todo) >= 3)
  BY ExchangeStep DEF HInv, CleanupInv
<1>2. fn' = fn /\ todo' = Tail(todo)
  <2>1. PICK ok \in BOOLEAN : Answered(how, ok)
    BY ExchangeStep
  <2> QED
    BY <2>1 DEF Answered, Next_
<1>3. /\ (x.cmd = "60" /\ x.to = "card") \/ (x.cmd = "80" /\ x.to = "mecha")
      /\ todo' \in Cleanups /\ Len(todo') = Len(todo) - 1 /\ Len(todo) \in 1 .. 2
  <2>1. PICK a, b : a = card_auth_60 /\ b = mechacon_auth_80
    OBVIOUS
  <2>2. todo \in {<<a>>, <<b>>, <<a, b>>}
    BY <1>1, <2>1 DEF Cleanups
  <2>3. /\ x \in {a, b} /\ Tail(todo) \in {<<>>, <<b>>}
        /\ Len(Tail(todo)) = Len(todo) - 1 /\ Len(todo) \in 1 .. 2
    <3>1. CASE todo = <<a>>
      <4>1. Head(<<a>>) = a /\ Tail(<<a>>) = <<>>
        OBVIOUS
      <4> QED
        BY <3>1, <4>1 DEF x
    <3>2. CASE todo = <<b>>
      <4>1. Head(<<b>>) = b /\ Tail(<<b>>) = <<>>
        OBVIOUS
      <4> QED
        BY <3>2, <4>1 DEF x
    <3>3. CASE todo = <<a, b>>
      <4>1. Head(<<a, b>>) = a /\ Tail(<<a, b>>) = <<b>>
        OBVIOUS
      <4> QED
        BY <3>3, <4>1 DEF x
    <3> QED
      BY <2>2, <3>1, <3>2, <3>3
  <2>4. a.cmd = "60" /\ a.to = "card" /\ b.cmd = "80" /\ b.to = "mecha"
    BY <2>1 DEF card_auth_60, mechacon_auth_80, ToCard, ToMecha, Exchanged
  <2> QED
    BY <1>2, <2>1, <2>3, <2>4 DEF Cleanups
<1>4. /\ (x.to = "mecha" \/ how = "lost" => card' = card)
      /\ (x.to = "card" \/ how = "lost" => mecha' = mecha)
      /\ (x.to = "card" /\ x.cmd = "60" => (how # "lost" => card' = NewCard(card.id)))
      /\ (x.to = "mecha" /\ x.cmd = "80" /\ how # "lost" => ~mecha'.auth)
  BY <1>1, DevicesStep
<1>5. NewCard(card.id).auth = FALSE
  BY DEF NewCard
<1>6. tries' = tries /\ faults' = (IF how = "done" THEN faults ELSE faults + 1) /\ faults \in Nat
  BY <1>1, ExchangeStep DEF TypeInv
<1>7. Cleanups' = Cleanups
  BY DEF Cleanups, card_auth_60, mechacon_auth_80, ToCard, ToMecha, Exchanged
<1>8. CASE how = "lost"
  <2>1. card' = card /\ mecha' = mecha
    BY <1>4, <1>8
  <2>2. faults' + Len(todo') = faults + Len(todo)
    BY <1>3, <1>6, <1>8
  <2>3. PairInv'
    BY <1>1, <2>1 DEF PairInv
  <2>4. fn' = "cleanup" /\ Paired' /\ card'.s = tries' => faults' + Len(todo') >= 3
    BY <1>1, <1>2, <1>6, <2>1, <2>2 DEF Paired
  <2> QED
    BY <1>2, <1>3, <1>7, <2>3, <2>4 DEF AuthInv, CleanupInv, ScriptInv
<1>9. CASE how # "lost"
  <2>1. ~card'.auth \/ ~mecha'.auth
    <3>1. CASE x.cmd = "60" /\ x.to = "card"
      <4>1. card' = NewCard(card.id)
        BY <1>4, <1>9, <3>1
      <4> QED
        BY <1>5, <4>1
    <3>2. CASE x.cmd = "80" /\ x.to = "mecha"
      BY <1>4, <1>9, <3>2
    <3> QED
      BY <1>3, <3>1, <3>2
  <2> QED
    BY <1>2, <1>3, <1>7, <2>1 DEF AuthInv, CleanupInv, ScriptInv, PairInv, Paired
<1> QED
  BY <1>8, <1>9

(* An exchange of a file's script authenticates nobody. *)
LEMMA FileExchange ==
  ASSUME HInv, fn \in {"sign", "boot"}, NEW how \in {"done", "lost", "unheard", "garbled"}, Exchange(how)
  PROVE  PairInv' /\ AuthInv' /\ CleanupInv' /\ ScriptInv'
<1>1. TypeInv /\ PairInv /\ InScript(todo) /\ todo # <<>>
  BY ExchangeStep DEF HInv, ScriptInv
<1>2. InScript(Tail(todo)) /\ FileStep(x) /\ x.to \in {"card", "mecha"}
  BY <1>1, InScriptTail, ExchangeStep DEF x
<1>3. x.cmd \notin {"60", "00", "14", "88", "80", "83"}
  BY <1>2 DEF FileStep, CardKeyCmds, FileCommands
<1>4. \/ fn' = fn /\ todo' = Tail(todo)
      \/ fn' = "failed" /\ todo' = <<>>
  <2>1. PICK ok \in BOOLEAN : Answered(how, ok)
    BY ExchangeStep
  <2> QED
    BY <2>1 DEF Answered, Next_
<1>5. (card'.auth => card.auth) /\ (mecha'.auth => mecha.auth) /\ card'.s = card.s /\ mecha'.peer = mecha.peer
  BY <1>1, <1>3, DevicesStep
<1> QED
  BY <1>1, <1>2, <1>4, <1>5 DEF PairInv, AuthInv, CleanupInv, ScriptInv, InScript

(* Every exchange keeps the invariant. *)
LEMMA ExchangeHolds ==
  ASSUME HInv, NEW how \in {"done", "lost", "unheard", "garbled"}, Exchange(how)
  PROVE  HInv'
<1>1. TypeInv'
  BY TypeExchange
<1>2. fn \in {"auth", "cleanup", "reset", "sign", "boot"}
  BY ExchangeStep DEF HInv, TypeInv, Fns, CleanupInv
<1>3. CASE fn = "auth"
  <2>1. PairInv' /\ AuthInv' /\ CleanupInv' /\ fn' \in {"auth", "cleanup"}
    BY <1>3, AuthExchange
  <2> QED
    BY <1>1, <2>1 DEF HInv, ScriptInv
<1>4. CASE fn \in {"cleanup", "reset"}
  BY <1>1, <1>4, CleanupExchange DEF HInv
<1>5. CASE fn \in {"sign", "boot"}
  BY <1>1, <1>5, FileExchange DEF HInv
<1> QED
  BY <1>2, <1>3, <1>4, <1>5

(* How a script of a file is built up. *)
LEMMA InScriptOf ==
  ASSUME NEW n \in Nat, NEW s, s = [k \in 1 .. n |-> s[k]], \A k \in 1 .. n : FileStep(s[k])
  PROVE  InScript(s)
<1> DEFINE S == {s[k] : k \in 1 .. n}
<1>1. s \in Seq(S)
  <2>1. s \in [1 .. n -> S]
    BY ONLY s = [k \in 1 .. n |-> s[k]]
  <2>2. n \in Nat
    OBVIOUS
  <2> HIDE DEF S
  <2> QED
    BY ONLY <2>1, <2>2
<1>2. \A e \in S : FileStep(e)
  OBVIOUS
<1> HIDE DEF S
<1> QED
  BY <1>1, <1>2 DEF InScript

(* One step. *)
LEMMA InScriptOne ==
  ASSUME NEW e, FileStep(e)
  PROVE  InScript(<<e>>)
<1> DEFINE S == {e}
<1>1. <<e>> \in Seq(S) /\ \A d \in S : FileStep(d)
  OBVIOUS
<1> HIDE DEF S
<1> QED
  BY <1>1 DEF InScript

(* No step. *)
LEMMA InScriptNone == InScript(<<>>)
<1> DEFINE S == {}
<1>1. <<>> \in Seq(S) /\ \A d \in S : FileStep(d)
  OBVIOUS
<1> HIDE DEF S
<1> QED
  BY <1>1 DEF InScript

(* The single steps of libsecr and secrman for a file are steps of a file. *)
LEMMA FileSteps ==
  /\ \A c : FileStep(Rpc(c)) /\ FileStep(Self(c))
  /\ \A u : FileStep(write_data(u))
  /\ FileStep(read_data) /\ FileStep(pol_cal_cmplt) /\ FileStep(get_BIT_length) /\ FileStep(get_icvps2)
  /\ FileStep(kbit1) /\ FileStep(kbit2) /\ FileStep(kc1) /\ FileStep(kc2)
  /\ \A i : FileStep(Blocks(i))
  /\ \A u : FileStep([read_data EXCEPT !.units = u])
  /\ \A c \in CardKeyCmds : \A v : FileStep(card_auth(c)) /\ FileStep(card_auth_write(v, c)) /\ FileStep(card_auth_read(v, c))
BY DEF FileStep, Rpc, Self, write_data, read_data, pol_cal_cmplt, get_BIT_length, get_icvps2, kbit1,
    kbit2, kc1, kc2,
   Blocks, card_auth, card_auth_write, card_auth_read, ToCard, ToMecha, Exchanged, FileCommands

(* The sizes of headers and blocks are numbers. *)
LEMMA Sizes ==
  ASSUME NEW f \in Files
  PROVE  /\ KELF_header_size(f) \in Nat /\ KELF_header_size(f) <= f.units /\ f.units \in Nat
         /\ Len(f.blocks) \in Nat /\ BitLength(f) \in Nat
         /\ f.BIT_count \in Nat /\ f.opt \in Nat
         /\ f.blocks \in Seq([flags : 0..3, size : Nat \ {0}])
         /\ \A i \in DOMAIN f.blocks : f.blocks[i].size \in Nat \ {0}
         /\ (KELF_header_size(f) + 1) \div 2 \in Nat /\ (BitLength(f) + 1) \div 2 \in Nat
<1>1. f.blocks \in Seq([flags : 0..3, size : Nat \ {0}]) /\ KELF_header_size(f) \in 0 .. f.units
      /\ f.BIT_count \in Nat /\ f.opt \in Nat /\ f.units \in Nat
  BY FilesAssumption
<1>2. KELF_header_size(f) \in Nat /\ KELF_header_size(f) <= f.units /\ Len(f.blocks) \in Nat
  BY <1>1
<1>3. BitLength(f) \in Nat
  BY <1>2 DEF BitLength
<1>4. \A i \in DOMAIN f.blocks : f.blocks[i].size \in Nat \ {0}
  <2> PICK b : b = f.blocks
    OBVIOUS
  <2> PICK T : T = [flags : 0..3, size : Nat \ {0}]
    OBVIOUS
  <2>1. \A i \in DOMAIN b : b[i] \in T
    <3>1. b \in Seq(T)
      BY <1>1
    <3> QED
      BY ONLY <3>1
  <2>2. \A e \in T : e.size \in Nat \ {0}
    OBVIOUS
  <2> QED
    BY <2>1, <2>2
<1>5. \A n \in Nat : (n + 1) \div 2 \in Nat
  OBVIOUS
<1> QED
  BY <1>1, <1>2, <1>3, <1>4, <1>5

(* The parts of both operations on a file are scripts of a file. *)
LEMMA HeaderScript ==
  ASSUME NEW f \in Files, NEW mode
  PROVE  InScript(secr_set_header(mode, f)) /\ InScript(Read_BIT(f))
<1>1. InScript(<<write_HD_start(mode, f)>>)
  <2>1. FileStep(write_HD_start(mode, f))
    BY Sizes DEF FileStep, write_HD_start, Numbered, ToMecha, Exchanged, FileCommands
  <2> QED
    BY <2>1, InScriptOne
<1>2. PICK n \in Nat : n = (KELF_header_size(f) + 1) \div 2
  BY Sizes
<1> DEFINE s == [k \in 1 .. n |-> write_data(Chunks(0, KELF_header_size(f))[k])]
<1>3. InScript(s)
  <2>1. \A k \in 1 .. n : FileStep(s[k])
    BY FileSteps
  <2>2. s = [k \in 1 .. n |-> s[k]]
    OBVIOUS
  <2> HIDE DEF s
  <2> QED
    BY <1>2, <2>1, <2>2, InScriptOf
<1>4. secr_set_header(mode, f) = <<write_HD_start(mode, f)>> \o s \o <<pol_cal_cmplt>>
  BY <1>2 DEF secr_set_header
<1>5. InScript(<<pol_cal_cmplt>>)
  BY FileSteps, InScriptOne
<1> HIDE DEF s
<1>6. InScript(secr_set_header(mode, f))
  BY <1>1, <1>3, <1>4, <1>5, InScriptConcat
<1>7. PICK m \in Nat : m = (BitLength(f) + 1) \div 2
  BY Sizes
<1> DEFINE t == [k \in 1 .. m |-> read_data]
<1>8. InScript(t)
  <2>1. \A k \in 1 .. m : FileStep(t[k])
    BY FileSteps
  <2>2. t = [k \in 1 .. m |-> t[k]]
    OBVIOUS
  <2> HIDE DEF t
  <2> QED
    BY <1>7, <2>1, <2>2, InScriptOf
<1>9. Read_BIT(f) = <<get_BIT_length>> \o t
  BY <1>7 DEF Read_BIT
<1>10. InScript(<<get_BIT_length>>)
  BY FileSteps, InScriptOne
<1> HIDE DEF t
<1> QED
  BY <1>6, <1>8, <1>9, <1>10, InScriptConcat

(* A block of the boot and of the download is a script of a file. *)
LEMMA BlockScript ==
  ASSUME NEW from, NEW size \in Nat
  PROVE  InScript(func_00000b5c(from, size)) /\ InScript(func_00000bfc(from, size))
<1>1. PICK n \in Nat : n = (size + 1) \div 2
  OBVIOUS
<1>2. InScript(<<mechacon_set_block_size(size)>>) /\ InScript(<<mechacon_read_block_size(size)>>)
  <2>1. FileStep(mechacon_set_block_size(size)) /\ FileStep(mechacon_read_block_size(size))
    BY DEF FileStep, mechacon_set_block_size, mechacon_read_block_size, Numbered, ToMecha,
        Exchanged, FileCommands
  <2> QED
    BY <2>1, InScriptOne
<1> DEFINE s == [k \in 1 .. n |-> write_data(<<from + 2 * k - 1, IF 2 * k <= size THEN from + 2 * k ELSE 0>>)]
           t == [k \in 1 .. n |-> [read_data EXCEPT !.units = Chunks(from, size)[k]]]
           u == IF size % 2 = 1 THEN <<Self("toolong")>> ELSE <<>>
<1>3. InScript(s) /\ InScript(t)
  <2>1. \A k \in 1 .. n : FileStep(s[k]) /\ FileStep(t[k])
    BY FileSteps
  <2>2. s = [k \in 1 .. n |-> s[k]] /\ t = [k \in 1 .. n |-> t[k]]
    OBVIOUS
  <2> HIDE DEF s, t
  <2> QED
    BY <1>1, <2>1, <2>2, InScriptOf
<1>4. InScript(u) /\ InScript(<<pol_cal_cmplt>>)
  BY FileSteps, InScriptOne, InScriptNone
<1>5. /\ func_00000b5c(from, size) = <<mechacon_set_block_size(size)>> \o s \o u \o <<pol_cal_cmplt>>
      /\ func_00000bfc(from, size) = <<mechacon_read_block_size(size)>> \o t
  BY <1>1 DEF func_00000b5c, func_00000bfc
<1> HIDE DEF s, t, u
<1> QED
  BY <1>2, <1>3, <1>4, <1>5, InScriptConcat

(* And so is a block of a file being signed. *)
LEMMA DownloadBlockScript ==
  ASSUME NEW f \in Files, NEW i \in DOMAIN f.blocks
  PROVE  InScript(SecrDownloadBlock(f, i)) /\ InScript(SecrCardBootBlock(f, i))
<1>1. InScript(func_00000b5c(BlockOffset(f, i), f.blocks[i].size))
      /\ InScript(func_00000bfc(BlockOffset(f, i), f.blocks[i].size))
  BY Sizes, BlockScript
<1>2. InScript(SecrCardBootBlock(f, i))
  BY <1>1, InScriptConcat DEF SecrCardBootBlock
<1> DEFINE carry(e) == [e EXCEPT !.units = [j \in DOMAIN @ |->
                          IF @[j] > BlockOffset(f, i) + RpcUnits THEN 0 ELSE @[j]]]
           s == func_00000b5c(BlockOffset(f, i), f.blocks[i].size)
           t == [k \in DOMAIN s |-> carry(s[k])]
<1>3. PICK S : s \in Seq(S) /\ \A e \in S : FileStep(e)
  BY <1>1 DEF InScript
<1>4. PICK n \in Nat : n = Len(s) /\ DOMAIN s = 1 .. n
  <2> HIDE DEF s
  <2> QED
    BY <1>3
<1>5. InScript(t)
  <2>1. \A k \in 1 .. n : FileStep(t[k])
    <3> SUFFICES ASSUME NEW k \in 1 .. n PROVE FileStep(t[k])
      OBVIOUS
    <3>1. FileStep(s[k]) /\ t[k] = carry(s[k])
      <4> HIDE DEF s, carry
      <4> QED
        BY <1>3, <1>4
    <3>2. carry(s[k]).to = s[k].to /\ carry(s[k]).cmd = s[k].cmd /\ carry(s[k]).arg = s[k].arg
      <4> HIDE DEF s
      <4> QED
        OBVIOUS
    <3> HIDE DEF s, t, carry
    <3> QED
      BY <3>1, <3>2 DEF FileStep
  <2>2. t = [k \in 1 .. n |-> t[k]]
    <3> HIDE DEF s, carry
    <3> QED
      BY <1>4
  <2> HIDE DEF t
  <2> QED
    BY <2>1, <2>2, InScriptOf
<1>6. SecrDownloadBlock(f, i) = <<Rpc("block")>> \o t
  BY DEF SecrDownloadBlock
<1>7. InScript(<<Rpc("block")>>)
  BY FileSteps, InScriptOne
<1> HIDE DEF t
<1> QED
  BY <1>2, <1>5, <1>6, <1>7, InScriptConcat

(* And the reading of the keys. *)
LEMMA KeyScript ==
  /\ \A v : InScript(card_encrypt(v)) /\ InScript(func_0000077c(v))
  /\ \A f : InScript(SecrDownloadKeys(f))
<1>0. \A a, b, c, d : FileStep(a) /\ FileStep(b) /\ FileStep(c) /\ FileStep(d) => InScript(<<a, b, c, d>>)
  <2> SUFFICES ASSUME NEW a, NEW b, NEW c, NEW d, FileStep(a), FileStep(b), FileStep(c), FileStep(d)
               PROVE  InScript(<<a, b, c, d>>)
    OBVIOUS
  <2> DEFINE S == {a, b, c, d}
  <2>1. <<a, b, c, d>> \in Seq(S) /\ \A e \in S : FileStep(e)
    OBVIOUS
  <2> HIDE DEF S
  <2> QED
    BY <2>1 DEF InScript
<1>1. \A v : InScript(card_encrypt(v)) /\ InScript(func_0000077c(v))
  BY <1>0, FileSteps DEF card_encrypt, func_0000077c, CardKeyCmds
<1>2. \A a, b, c : FileStep(a) /\ FileStep(b) /\ FileStep(c) => InScript(<<a, b, c>>) /\ InScript(<<a, b>>) /\ InScript(<<a>>)
  <2> SUFFICES ASSUME NEW a, NEW b, NEW c, FileStep(a), FileStep(b), FileStep(c)
               PROVE  InScript(<<a, b, c>>) /\ InScript(<<a, b>>) /\ InScript(<<a>>)
    OBVIOUS
  <2> DEFINE S == {a, b, c}
  <2>1. <<a, b, c>> \in Seq(S) /\ <<a, b>> \in Seq(S) /\ <<a>> \in Seq(S) /\ \A e \in S : FileStep(e)
    OBVIOUS
  <2> HIDE DEF S
  <2> QED
    BY <2>1 DEF InScript
<1>3. /\ InScript(<<Rpc("kbit"), kbit1, kbit2>>) /\ InScript(<<Rpc("kc"), kc1, kc2>>)
      /\ InScript(<<Self("store_kbit"), Self("store_kc")>>) /\ InScript(<<Rpc("icvps2"), get_icvps2>>)
      /\ InScript(<<Self("store_icvps2")>>)
  BY <1>2, FileSteps
<1>4. InScript(SecrDownloadGetKbit) /\ InScript(SecrDownloadGetKc)
  BY <1>1, <1>3, InScriptConcat DEF SecrDownloadGetKbit, SecrDownloadGetKc
<1>5. \A f : InScript(SecrDownloadKeys(f))
  BY <1>3, <1>4, InScriptConcat, InScriptNone DEF SecrDownloadKeys, SecrDownloadGetICVPS2
<1> QED
  BY <1>1, <1>5

(* Both operations on a file are scripts of a file. *)
LEMMA FileScripts ==
  ASSUME NEW f \in Files
  PROVE  InScript(SecrDownloadFile(f)) /\ InScript(SecrCardBootFile(f))
<1>1. \A c : InScript(<<Rpc(c)>>) /\ InScript(<<Self(c)>>)
  BY FileSteps, InScriptOne
<1>2. InScript(<<Blocks(1)>>)
  BY FileSteps, InScriptOne
<1>3. InScript(SecrDownloadHeader(f))
  BY <1>1, HeaderScript, InScriptConcat DEF SecrDownloadHeader
<1>4. InScript(SecrDownloadFile(f))
  BY <1>2, <1>3, KeyScript, InScriptConcat DEF SecrDownloadFile
<1>5. InScript(<<Self("store_kc"), Self("store_kbit")>>)
  <2> DEFINE S == {Self("store_kc"), Self("store_kbit")}
  <2>1. <<Self("store_kc"), Self("store_kbit")>> \in Seq(S) /\ \A e \in S : FileStep(e)
    BY FileSteps
  <2> HIDE DEF S
  <2> QED
    BY <2>1 DEF InScript
<1>6. InScript(SecrCardBootHeader(f))
  <2> DEFINE a == <<Self("get_keys")>> \o func_0000077c("Kbit1")
             b == a \o func_0000077c("Kbit2")
             c == b \o func_0000077c("Kc1")
             d == c \o func_0000077c("Kc2")
             e == d \o <<Self("store_kc"), Self("store_kbit")>>
             g == e \o secr_set_header(1, f)
  <2>0. SecrCardBootHeader(f) = g \o Read_BIT(f)
    BY DEF SecrCardBootHeader
  <2>1. InScript(a)
    BY <1>1, KeyScript, InScriptConcat
  <2>2. InScript(b)
    <3> HIDE DEF a
    <3> QED
      BY <2>1, KeyScript, InScriptConcat
  <2>3. InScript(c)
    <3> HIDE DEF b
    <3> QED
      BY <2>2, KeyScript, InScriptConcat
  <2>4. InScript(d)
    <3> HIDE DEF c
    <3> QED
      BY <2>3, KeyScript, InScriptConcat
  <2>5. InScript(e)
    <3> HIDE DEF d
    <3> QED
      BY <2>4, <1>5, InScriptConcat
  <2>6. InScript(g)
    <3> HIDE DEF e
    <3> QED
      BY <2>5, HeaderScript, InScriptConcat
  <2> HIDE DEF g
  <2> QED
    BY <2>0, <2>6, HeaderScript, InScriptConcat
<1> QED
  BY <1>2, <1>4, <1>6, InScriptConcat DEF SecrCardBootFile

(* The start of an operation keeps the invariant. *)
LEMMA StartHolds ==
  ASSUME HInv, NEW f \in {"auth", "reset", "sign", "boot", "failed"}, NEW script, NEW must,
         Start(f, script, must), {file', twin'} \subseteq Files,
         f = "auth" => script = Handshake, f = "reset" => script \in Cleanups,
         f \in {"sign", "boot"} => InScript(script), f = "failed" => script = <<>>
  PROVE  HInv'
<1>1. TypeInv /\ PairInv
  BY DEF HInv
<1>2. /\ UNCHANGED <<isDEX, handler, card, mecha, faults, swaps, signed>>
      /\ tries' = tries + 1 /\ hit' = "no" /\ result' = 0 /\ DOMAIN loc' = DOMAIN loc
      /\ \/ fn' = f /\ todo' = script
         \/ fn' = "idle" /\ todo' = <<>>
  BY DEF Start, devices
<1>3. TypeInv'
  <2>1. card.s <= tries + 1 /\ tries + 1 \in Nat
    <3>1. card.s \in Nat /\ tries \in Nat /\ card.s <= tries
      BY <1>1 DEF TypeInv, IsCard
    <3> QED
      BY <3>1
  <2>2. fn' \in Fns /\ (fn' = "idle" => todo' = <<>>) /\ (card.s <= tries)'
    BY <1>2, <2>1 DEF Fns
  <2>3. ({file, twin, signed.file} \subseteq Files)'
    BY <1>1, <1>2 DEF TypeInv
  <2> QED
    BY <1>1, <1>2, <2>1, <2>2, <2>3 DEF TypeInv
<1>4. PairInv' /\ ScriptInv'
  BY <1>1, <1>2 DEF PairInv, ScriptInv
<1>5. CleanupInv'
  <2>1. Cleanups' = Cleanups
    BY DEF Cleanups, card_auth_60, mechacon_auth_80, ToCard, ToMecha, Exchanged
  <2> QED
    BY <1>2, <2>1 DEF CleanupInv
<1>6. AuthInv'
  <2> SUFFICES ASSUME fn' = "auth" PROVE (\E n \in 0 .. P + 21 : AuthAt(n))'
    BY DEF AuthInv
  <2>1. todo' = Handshake /\ Handshake' = Handshake /\ P' = P
    BY <1>2, SameHandshake
  <2>2. Handshake = After(Handshake, 0) /\ P \in Nat /\ P > 2
    BY HandshakeAt, SuffixEnds
  <2>3. card'.s < tries'
    <3>1. card.s \in Nat /\ tries \in Nat /\ card.s <= tries
      BY <1>1 DEF TypeInv, IsCard
    <3> QED
      BY <1>2, <3>1
  <2>4. AuthAt(0)'
    BY <2>1, <2>2, <2>3 DEF AuthAt
  <2>5. 0 \in 0 .. P' + 21
    BY <2>1, <2>2
  <2> QED
    BY <2>4, <2>5
<1> QED
  BY <1>3, <1>4, <1>5, <1>6 DEF HInv

(* The start of the test's operations keeps the invariant. *)
LEMMA OperationsHold ==
  ASSUME HInv,
         \/ SecrAuthCard \/ SecrResetAuthCard
         \/ \E f \in Files : SignKELF(f)
         \/ \E p \in Twins : TwinSignKELF(p[1], p[2]) \/ TwinUnreadable(p[1], p[2])
         \/ BootSigned
  PROVE  HInv'
<1>1. {file, twin, signed.file} \subseteq Files
  BY DEF HInv, TypeInv
<1>2. \A p \in Twins : p[1] \in Files /\ p[2] \in Files
  BY TwinsAssumption
<1>3. CASE SecrAuthCard
  <2>1. Start("auth", Handshake, TRUE) /\ {file', twin'} \subseteq Files
    BY <1>1, <1>3 DEF SecrAuthCard, fileVars
  <2> QED
    BY <2>1, StartHolds
<1>4. CASE SecrResetAuthCard
  <2>1. Start("reset", <<card_auth_60, mechacon_auth_80>>, FALSE) /\ {file', twin'} \subseteq Files
    BY <1>1, <1>4 DEF SecrResetAuthCard, fileVars
  <2>2. <<card_auth_60, mechacon_auth_80>> \in Cleanups
    BY DEF Cleanups
  <2> QED
    BY <2>1, <2>2, StartHolds
<1>5. ASSUME NEW f \in Files, NEW g \in Files, TwinSignKELF(f, g) PROVE HInv'
  <2>1. PICK must : Start("sign", SecrDownloadFile(f), must)
    BY <1>5 DEF TwinSignKELF
  <2>2. {file', twin'} \subseteq Files
    BY <1>5 DEF TwinSignKELF
  <2>3. InScript(SecrDownloadFile(f))
    BY FileScripts
  <2> QED
    BY <2>1, <2>2, <2>3, StartHolds
<1>6. ASSUME NEW f \in Files, SignKELF(f) PROVE HInv'
  <2>1. TwinSignKELF(f, f)
    BY <1>6 DEF SignKELF, TwinSignKELF
  <2> QED
    BY <1>5, <2>1
<1>7. ASSUME NEW f, NEW g, TwinUnreadable(f, g) PROVE HInv'
  <2>1. Start("failed", <<>>, FALSE) /\ {file', twin'} \subseteq Files
    BY <1>1, <1>7 DEF TwinUnreadable, fileVars
  <2> QED
    BY <2>1, StartHolds
<1>8. CASE BootSigned
  <2>1. PICK must : Start("boot", SecrCardBootFile(signed.file), must)
    BY <1>8 DEF BootSigned
  <2>2. {file', twin'} \subseteq Files
    BY <1>1, <1>8 DEF BootSigned
  <2>3. InScript(SecrCardBootFile(signed.file))
    BY <1>1, FileScripts
  <2> QED
    BY <2>1, <2>2, <2>3, StartHolds
<1> QED
  BY <1>2, <1>3, <1>4, <1>5, <1>6, <1>7, <1>8

(* The steps of an operation that reach neither device. *)
LEMMA InnerStep ==
  ASSUME HInv, fn \in {"sign", "boot"}, UNCHANGED <<isDEX, devices, tries, file, twin, signed>>,
         DOMAIN loc' = DOMAIN loc, result' = result, hit' \in {"no", "late", "yes"}, faults' \in Nat,
         \/ fn' = fn /\ InScript(todo')
         \/ fn' = "failed" /\ todo' = <<>>
  PROVE  HInv'
<1>1. TypeInv /\ PairInv
  BY DEF HInv
<1>2. UNCHANGED <<card, mecha>>
  BY DEF devices
<1>3. TypeInv'
  <2>1. ({file, twin, signed.file} \subseteq Files)' /\ fn' \in Fns \ {"idle"}
    BY <1>1 DEF TypeInv, Fns
  <2> QED
    BY <1>1, <1>2, <2>1 DEF TypeInv
<1>4. PairInv' /\ ScriptInv' /\ AuthInv' /\ CleanupInv'
  BY <1>1, <1>2 DEF PairInv, ScriptInv, AuthInv, CleanupInv
<1> QED
  BY <1>3, <1>4 DEF HInv

(* Only a script for a file has other steps than exchanges. *)
LEMMA InnerFn ==
  ASSUME HInv, todo # <<>>, x.to \in {"rpc", "self"}
  PROVE  fn \in {"sign", "boot"} /\ InScript(todo) /\ InScript(Tail(todo))
<1>1. fn \in {"auth", "cleanup", "reset", "sign", "boot"}
  BY DEF HInv, TypeInv, Fns, CleanupInv
<1>2. fn # "auth"
  <2> SUFFICES ASSUME fn = "auth" PROVE FALSE
    OBVIOUS
  <2>1. PICK n \in 0 .. P + 21 : todo = After(Handshake, n)
    BY DEF HInv, AuthInv, AuthAt
  <2>2. n \in Nat /\ n <= P + 21
    BY HandshakeAt
  <2> QED
    BY <2>1, <2>2, HandshakeStep
<1>3. fn \notin {"cleanup", "reset"}
  <2> SUFFICES ASSUME todo \in Cleanups PROVE FALSE
    BY DEF HInv, CleanupInv
  <2>1. x \in {card_auth_60, mechacon_auth_80}
    BY DEF Cleanups, x
  <2> QED
    BY <2>1, EndsInCleanup
<1> QED
  BY <1>1, <1>2, <1>3, InScriptTail DEF HInv, ScriptInv

(* Every step inside secrman keeps the invariant. *)
LEMMA InnerHolds ==
  ASSUME HInv, (\E ok \in BOOLEAN : RpcStep(ok)) \/ SelfStep \/ NextBlock
  PROVE  HInv'
<1>0. TypeInv /\ faults \in Nat /\ hit \in {"no", "late", "yes"}
  BY DEF HInv, TypeInv
<1>1. ASSUME NEW ok \in BOOLEAN, RpcStep(ok) PROVE HInv'
  <2>1. fn \in {"sign", "boot"} /\ InScript(Tail(todo))
    BY <1>1, InnerFn DEF RpcStep
  <2>2. /\ UNCHANGED <<isDEX, devices, tries, file, twin, signed, loc, result>>
        /\ hit' \in {"no", "late", "yes"} /\ faults' \in Nat
    BY <1>0, <1>1 DEF RpcStep, fileVars
  <2>3. (fn' = fn /\ todo' = Tail(todo)) \/ (fn' = "failed" /\ todo' = <<>>)
    BY <1>1, <2>1 DEF RpcStep, Next_
  <2> QED
    BY <2>1, <2>2, <2>3, InnerStep
<1>2. CASE SelfStep
  <2>1. fn \in {"sign", "boot"} /\ InScript(Tail(todo))
    BY <1>2, InnerFn DEF SelfStep
  <2>2. /\ UNCHANGED <<isDEX, devices, tries, file, twin, signed, result, hit, faults>> /\ DOMAIN loc' = DOMAIN loc
    BY <1>2 DEF SelfStep, bounds
  <2>3. (fn' = fn /\ todo' = Tail(todo)) \/ (fn' = "failed" /\ todo' = <<>>)
    BY <1>2, <2>1 DEF SelfStep, Next_
  <2> QED
    BY <1>0, <2>1, <2>2, <2>3, InnerStep
<1>3. CASE NextBlock
  <2>1. fn \in {"sign", "boot"} /\ InScript(Tail(todo))
    BY <1>3, InnerFn DEF NextBlock
  <2>2. /\ UNCHANGED <<isDEX, devices, tries, file, twin, signed, loc, result, hit, faults, fn>>
    BY <1>3 DEF NextBlock, fileVars, bounds
  <2>3. InScript(todo')
    <3> PICK i : i = x.arg[1]
      OBVIOUS
    <3>1. todo' = (IF i \in DOMAIN file.blocks THEN BlockCalls(i) \o <<Blocks(i + 1)>> ELSE <<>>) \o Tail(todo)
      BY <1>3 DEF NextBlock
    <3>2. InScript(<<Blocks(i + 1)>>) /\ InScript(<<>>)
      BY FileSteps, InScriptOne, InScriptNone
    <3>3. i \in DOMAIN file.blocks => InScript(BlockCalls(i))
      <4>1. file \in Files
        BY <1>0 DEF TypeInv
      <4> QED
        BY <4>1, <3>2, DownloadBlockScript DEF BlockCalls
    <3> QED
      BY <2>1, <3>1, <3>2, <3>3, InScriptConcat
  <2> QED
    BY <1>0, <2>1, <2>2, <2>3, InnerStep
<1> QED
  BY <1>1, <1>2, <1>3

(* The return of an operation keeps the invariant. *)
LEMMA ReturnHolds ==
  ASSUME HInv, Return
  PROVE  HInv'
<1>1. /\ fn # "idle" /\ todo = <<>> /\ fn' = "idle" /\ result' \in {0, 1} /\ {signed'.file} \subseteq Files
      /\ UNCHANGED <<isDEX, card, mecha, todo, loc, tries, faults, hit, file, twin>>
  BY DEF HInv, TypeInv, Return, devices, bounds, fileVars
<1>2. TypeInv'
  <2>1. ({file, twin, signed.file} \subseteq Files)'
    BY <1>1 DEF HInv, TypeInv
  <2> QED
    BY <1>1, <2>1 DEF HInv, TypeInv, Fns
<1> QED
  BY <1>1, <1>2 DEF HInv, PairInv, ScriptInv, AuthInv, CleanupInv

(* Another card in the slot keeps the invariant: it is out of reset. *)
LEMMA SwapHolds ==
  ASSUME HInv, NEW id \in Cards, SwapCard(id)
  PROVE  HInv'
<1>1. /\ card' = NewCard(id) /\ hit' = (IF fn = "auth" /\ Len(todo) < 2 THEN "late" ELSE "yes")
      /\ UNCHANGED <<isDEX, mecha, fn, todo, loc, result, tries, faults, file, twin, signed>>
  BY DEF SwapCard, fileVars
<1>2. TypeInv
  BY DEF HInv
<1>3. card'.auth = FALSE /\ card'.s = 0 /\ card'.at = 0 /\ IsCard(card')
  BY <1>1 DEF NewCard, IsCard
<1>4. TypeInv'
  <2>1. ({file, twin, signed.file} \subseteq Files)' /\ (card.s <= tries)'
    BY <1>1, <1>2, <1>3 DEF TypeInv
  <2> QED
    BY <1>1, <1>2, <1>3, <2>1 DEF TypeInv
<1>5. AuthInv'
  <2> SUFFICES ASSUME fn = "auth" PROVE (\E n \in 0 .. P + 21 : AuthAt(n))'
    BY <1>1 DEF AuthInv
  <2>1. PICK n \in 0 .. P + 21 : AuthAt(n)
    BY DEF HInv, AuthInv
  <2>2. Handshake' = Handshake /\ P' = P /\ P \in Nat /\ n \in Nat
    BY <1>1, SameHandshake, HandshakeAt
  <2>3. n >= P + 20 => hit' = "late"
    <3> SUFFICES ASSUME n >= P + 20 PROVE Len(todo) < 2
      BY <1>1
    <3>1. todo = After(Handshake, n) /\ Len(Handshake) = P + 21
      BY <2>1, HandshakeAt DEF AuthAt
    <3>2. CASE n = P + 21
      <4>1. todo = <<>>
        BY <3>1, <3>2, HandshakeAt, SuffixEnds
      <4> QED
        BY <4>1
    <3>3. CASE n < P + 21
      <4>1. Len(todo) = P + 21 - n
        BY <2>2, <3>1, <3>3, HandshakeAt, SuffixStep
      <4> QED
        BY <2>2, <3>3, <4>1
    <3> QED
      BY <2>2, <3>2, <3>3
  <2>4. n < 2 => card'.s < tries'
    <3>1. card.s \in Nat /\ tries \in Nat /\ (n < 2 => card.s < tries)
      BY <1>2, <2>1 DEF TypeInv, IsCard, AuthAt
    <3> QED
      BY <1>1, <1>3, <3>1
  <2>5. AuthAt(n)'
    <3>1. todo' = After(Handshake', n)
      BY <1>1, <2>1, <2>2 DEF AuthAt
    <3> QED
      BY <1>1, <1>3, <2>1, <2>2, <2>3, <2>4, <3>1 DEF AuthAt
  <2> QED
    BY <2>2, <2>5
<1>6. CleanupInv'
  <2>1. Cleanups' = Cleanups
    BY DEF Cleanups, card_auth_60, mechacon_auth_80, ToCard, ToMecha, Exchanged
  <2> QED
    BY <1>1, <1>3, <2>1 DEF HInv, CleanupInv, Paired
<1> QED
  BY <1>1, <1>3, <1>4, <1>5, <1>6 DEF HInv, PairInv, ScriptInv

(* A step that leaves alone what the invariant speaks of. *)
LEMMA QuietStep ==
  ASSUME HInv, UNCHANGED <<isDEX, card, fn, todo, loc, result, tries, faults, hit, file, twin, signed>>,
         IsMecha(mecha'), mecha'.auth = mecha.auth, mecha'.peer = mecha.peer,
         Len(mecha'.got) <= mecha'.left
  PROVE  HInv'
<1>1. TypeInv /\ PairInv /\ ScriptInv /\ AuthInv /\ CleanupInv
  BY DEF HInv
<1>2. TypeInv'
  <2>1. ({file, twin, signed.file} \subseteq Files)'
    BY <1>1 DEF TypeInv
  <2> QED
    BY <1>1, <2>1 DEF TypeInv
<1>3. PairInv' /\ ScriptInv'
  BY <1>1 DEF PairInv, ScriptInv
<1>4. AuthInv'
  <2> SUFFICES ASSUME fn = "auth" PROVE (\E n \in 0 .. P + 21 : AuthAt(n))'
    BY DEF AuthInv
  <2>1. PICK n \in 0 .. P + 21 : AuthAt(n)
    BY <1>1 DEF AuthInv
  <2>2. Handshake' = Handshake /\ P' = P
    BY SameHandshake
  <2>3. AuthAt(n)'
    <3>1. todo' = After(Handshake', n)
      BY <2>1, <2>2 DEF AuthAt
    <3> QED
      BY <2>1, <2>2, <3>1 DEF AuthAt
  <2> QED
    BY <2>2, <2>3
<1>5. CleanupInv'
  <2>1. Cleanups' = Cleanups
    BY DEF Cleanups, card_auth_60, mechacon_auth_80, ToCard, ToMecha, Exchanged
  <2> QED
    BY <1>1, <2>1 DEF CleanupInv, Paired
<1> QED
  BY <1>2, <1>3, <1>4, <1>5 DEF HInv

(* Every step outside secrman keeps the invariant. *)
LEMMA OutsideHolds ==
  ASSUME HInv, SetMcHandlers \/ Calculated \/ UNCHANGED vars
  PROVE  HInv'
<1>1. IsMecha(mecha) /\ Len(mecha.got) <= mecha.left
  BY DEF HInv, TypeInv
<1>2. CASE SetMcHandlers
  <2>1. UNCHANGED <<isDEX, card, mecha, fn, todo, loc, result, tries, faults, hit, file, twin, signed>>
    BY <1>2 DEF SetMcHandlers, devices, bounds, fileVars
  <2> QED
    BY <1>1, <2>1, QuietStep
<1>3. CASE Calculated
  <2>1. UNCHANGED <<isDEX, card, fn, todo, loc, result, tries, faults, hit, file, twin, signed>>
        /\ mecha' = [mecha EXCEPT !.calc = "ok"]
    BY <1>3 DEF Calculated, bounds, fileVars
  <2>2. /\ IsMecha(mecha') /\ mecha'.auth = mecha.auth /\ mecha'.peer = mecha.peer
        /\ mecha'.got = mecha.got /\ mecha'.left = mecha.left
    BY <1>1, <2>1 DEF IsMecha
  <2> QED
    BY <1>1, <2>1, <2>2, QuietStep
<1>4. CASE UNCHANGED vars
  <2>1. UNCHANGED <<isDEX, card, mecha, fn, todo, loc, result, tries, faults, hit, file, twin, signed>>
    BY <1>4 DEF vars, authVars, fileVars
  <2> QED
    BY <1>1, <2>1, QuietStep
<1> QED
  BY <1>2, <1>3, <1>4

(* The invariant holds at the start. *)
LEMMA HInit == Init => HInv
<1> SUFFICES ASSUME Init PROVE HInv
  OBVIOUS
<1>a. card = NewCard(CHOOSE id \in Cards : TRUE)
  BY DEF Init
<1>b. mecha = ResetMecha
  BY DEF Init
<1>1. file \in Files /\ twin \in Files /\ signed.file \in Files
  <2>1. file \in Files /\ twin = file
    BY FilesAssumption DEF Init
  <2>2. signed = [file |-> file, buf |-> <<>>, card |-> "none", all |-> FALSE]
        \/ \E f \in Files, id \in Cards : signed = SignedFor(f, id)
    BY OldFilesAssumption DEF Init
  <2>3. signed.file \in Files
    <3>1. \A f, id : SignedFor(f, id).file = f
      BY DEF SignedFor
    <3> QED
      BY <2>1, <2>2, <3>1
  <2> QED
    BY <2>1, <2>3
<1>2. IsCard(card) /\ card.s = 0 /\ card.auth = FALSE
  <2>1. PICK id \in Cards : id = (CHOOSE c \in Cards : TRUE)
    BY CardsAssumption
  <2>2. card = NewCard(id)
    BY <1>a, <2>1
  <2> QED
    BY <2>2 DEF NewCard, IsCard
<1>3. IsMecha(mecha) /\ mecha.auth = FALSE /\ Len(mecha.got) <= mecha.left
  BY <1>b DEF ResetMecha, IsMecha
<1>4. fn = "idle" /\ todo = <<>> /\ tries = 0 /\ faults = 0 /\ result = 0 /\ hit = "no" /\ DOMAIN loc = LocalNames
  BY DEF Init, LocalNames
<1>5. TypeInv
  BY <1>1, <1>2, <1>3, <1>4 DEF TypeInv, Fns
<1> QED
  BY <1>2, <1>4, <1>5 DEF HInv, PairInv, ScriptInv, AuthInv, CleanupInv

(* Every step keeps the invariant. *)
LEMMA HStep == HInv /\ [Next]_vars => HInv'
<1> SUFFICES ASSUME HInv, [Next]_vars PROVE HInv'
  OBVIOUS
<1>1. CASE SetMcHandlers \/ Calculated \/ UNCHANGED vars
  BY <1>1, OutsideHolds
<1>2. CASE \/ SecrAuthCard \/ SecrResetAuthCard
           \/ \E f \in Files : SignKELF(f)
           \/ \E p \in Twins : TwinSignKELF(p[1], p[2]) \/ TwinUnreadable(p[1], p[2])
           \/ BootSigned
  BY <1>2, OperationsHold
<1>3. CASE \E how \in {"done", "lost", "unheard", "garbled"} : Exchange(how)
  BY <1>3, ExchangeHolds
<1>4. CASE (\E ok \in BOOLEAN : RpcStep(ok)) \/ SelfStep \/ NextBlock
  BY <1>4, InnerHolds
<1>5. CASE Return
  BY <1>5, ReturnHolds
<1>6. CASE \E id \in Cards : SwapCard(id)
  BY <1>6, SwapHolds
<1> QED
  BY <1>1, <1>2, <1>3, <1>4, <1>5, <1>6 DEF Next, Step

(* The inductive invariant of the handshake holds in every state, for any number of tries,
   faults and cards swapped. *)
THEOREM HandshakeInvariant == Spec => []HInv
<1>1. Init => HInv
  BY HInit
<1>2. HInv /\ [Next]_vars => HInv'
  BY HStep
<1> QED
  BY <1>1, <1>2, PTL DEF Spec

(* The types of secrman's state (TypeOK), for all constants. *)
THEOREM SecrmanTypes == Spec => []TypeOK
<1>1. HInv => TypeOK
  BY DEF HInv, TypeInv, TypeOK, IsCard, IsMecha, Fns
<1> QED
  BY <1>1, HandshakeInvariant, PTL

(* Only Return ends an operation. *)
LEMMA OnlyReturn ==
  ASSUME HInv, fn # "idle", fn' = "idle", [Next]_vars
  PROVE  Return
<1>1. CASE SetMcHandlers \/ SecrAuthCard \/ SecrResetAuthCard \/ BootSigned
           \/ (\E f \in Files : SignKELF(f))
           \/ (\E p \in Twins : TwinSignKELF(p[1], p[2]) \/ TwinUnreadable(p[1], p[2]))
  BY <1>1 DEF SetMcHandlers, SecrAuthCard, SecrResetAuthCard, BootSigned, SignKELF, TwinSignKELF,
      TwinUnreadable, Start
<1>2. ASSUME NEW how \in {"done", "lost", "unheard", "garbled"}, Exchange(how) PROVE FALSE
  <2>1. PICK ok \in BOOLEAN : Answered(how, ok)
    BY <1>2, ExchangeStep
  <2> QED
    BY <2>1 DEF Answered, Next_
<1>3. CASE (\E ok \in BOOLEAN : RpcStep(ok)) \/ SelfStep \/ NextBlock
  BY <1>3 DEF RpcStep, SelfStep, NextBlock, Next_
<1>4. CASE Calculated \/ (\E id \in Cards : SwapCard(id)) \/ UNCHANGED vars
  BY <1>4 DEF Calculated, SwapCard, vars, authVars
<1> QED
  BY <1>1, <1>2, <1>3, <1>4 DEF Next, Step

(* card_auth returns success only with both devices authenticated over the nonce of this
   very try (AuthMeansBoth). *)
THEOREM AuthenticationIsMutual == Spec => AuthMeansBoth
<1>1. HInv /\ [Next]_vars => [fn = "auth" /\ fn' = "idle" => Paired \/ hit = "late"]_vars
  <2> SUFFICES ASSUME HInv, [Next]_vars, fn = "auth", fn' = "idle" PROVE Paired \/ hit = "late"
    OBVIOUS
  <2>1. Return
    BY OnlyReturn
  <2>2. todo = <<>>
    BY <2>1 DEF Return
  <2>3. PICK n \in 0 .. P + 21 : AuthAt(n)
    BY DEF HInv, AuthInv
  <2>4. n = P + 21
    <3> SUFFICES ASSUME n < P + 21 PROVE FALSE
      BY HandshakeAt
    <3>1. n \in Nat /\ n < Len(Handshake)
      BY HandshakeAt
    <3>2. After(Handshake, n) # <<>>
      BY <3>1, HandshakeAt, SuffixStep
    <3> QED
      BY <2>2, <2>3, <3>2 DEF AuthAt
  <2> QED
    BY <2>3, <2>4, HandshakeAt DEF AuthAt, Paired
<1>2. Spec => [][Next]_vars
  BY PTL DEF Spec
<1> QED
  BY <1>1, <1>2, HandshakeInvariant, PTL DEF AuthMeansBoth

(* After a failed card_auth no device is left authenticated with the other
   (FailedTryLeavesNoPair). *)
THEOREM FailureIsCleanedUp == Spec => FailedTryLeavesNoPair
<1>1. HInv /\ [Next]_vars => [fn = "cleanup" /\ fn' = "idle" /\ faults < 3 => ~(Paired /\ card.s = tries)]_vars
  <2> SUFFICES ASSUME HInv, [Next]_vars, fn = "cleanup", fn' = "idle", faults < 3, Paired, card.s = tries PROVE FALSE
    OBVIOUS
  <2>1. todo = <<>>
    BY OnlyReturn DEF Return
  <2>2. faults + Len(todo) >= 3 /\ faults \in Nat
    BY DEF HInv, CleanupInv, TypeInv
  <2> QED
    BY <2>1, <2>2
<1>2. Spec => [][Next]_vars
  BY PTL DEF Spec
<1> QED
  BY <1>1, <1>2, HandshakeInvariant, PTL DEF FailedTryLeavesNoPair

(* The key commands of the card, case by case. *)
LEMMA CryptoStep ==
  ASSUME NEW c, IsCard(c), NEW cmd \in CardKeyCmds, NEW in, NEW a, a = CardDoes(c, cmd, in), a.ok
  PROVE  /\ c.auth /\ a.dev.id = c.id /\ a.dev.s = c.s /\ (a.dev.auth <=> c.auth)
         /\ cmd \in {"41", "51"} => a.dev.val = in[1]
         /\ cmd = "42" => a.dev.val = DecryptFor(c, c.val)
         /\ cmd = "52" => a.dev.val = EncryptFor(c, c.val)
         /\ cmd \in {"43", "53"} => a.out = <<c.val>>
<1> DEFINE starts == cmd \in {"40", "50"}
           stage == CASE starts -> 1 [] cmd \in {"41", "51"} -> 2
                      [] cmd \in {"42", "52"} -> 3 [] OTHER -> 0
           value == CASE cmd \in {"41", "51"} -> in[1]
                      [] cmd = "42" -> DecryptFor(c, c.val)
                      [] cmd = "52" -> EncryptFor(c, c.val)
                      [] OTHER -> Unset
           takes == c.auth /\ (starts \/ (c.stage + 1) % 4 = stage)
<1>1. a = IF takes THEN [dev |-> [c EXCEPT !.stage = stage, !.val = value], ok |-> TRUE,
                         out |-> IF stage = 0 THEN <<c.val>> ELSE <<>>]
                   ELSE [dev |-> c, ok |-> FALSE, out |-> <<>>]
  BY DEF CardDoes, CardKeyCmds, CardCrypto
<1>2. takes
  <2> SUFFICES ASSUME ~takes PROVE FALSE
    OBVIOUS
  <2>1. a.ok = FALSE
    BY <1>1
  <2> QED
    BY <2>1
<1>3. a.dev = [c EXCEPT !.stage = stage, !.val = value] /\ a.out = (IF stage = 0 THEN <<c.val>> ELSE <<>>)
  BY <1>1, <1>2
<1>4. /\ cmd \in {"41", "51"} => value = in[1]
      /\ cmd = "42" => value = DecryptFor(c, c.val)
      /\ cmd = "52" => value = EncryptFor(c, c.val)
      /\ cmd \in {"43", "53"} => stage = 0
  OBVIOUS
<1>5. c.auth
  BY <1>2
<1> HIDE DEF stage, value, takes
<1>6. a.dev.id = c.id /\ a.dev.s = c.s /\ a.dev.auth = c.auth /\ a.dev.val = value
  BY <1>3 DEF IsCard
<1> QED
  BY <1>3, <1>4, <1>5, <1>6

(* What the card encrypts for its own pair is bound to it; what is bound to another card it decrypts
   to noise. *)
LEMMA Crypts ==
  ASSUME NEW c, NEW h \in ToSet(Halves), NEW s, NEW keys, NEW id
  PROVE  /\ s = c.s => EncryptFor(c, Half(h, s, keys)) = [n |-> h, card |-> c.id, keys |-> keys]
         /\ id # c.id => DecryptFor(c, [n |-> h, card |-> id, keys |-> keys]) = Noise
<1>1. Half(h, s, keys).n = h /\ "s" \in DOMAIN Half(h, s, keys) /\ Half(h, s, keys).s = s /\ Half(h, s, keys).keys = keys
  BY DEF Half
<1>2. [n |-> h, card |-> id, keys |-> keys].card = id
  OBVIOUS
<1> QED
  BY <1>1, <1>2 DEF EncryptFor, DecryptFor, Enc

(* The four key halves. *)
LEMMA HalvesAre == ToSet(Halves) = {"Kbit1", "Kbit2", "Kc1", "Kc2"} /\ DOMAIN Halves = 1 .. 4
BY DEF ToSet, Halves

(* An exchange with a device that the file's script goes on after. *)
LEMMA FileExchangeOn ==
  ASSUME HInv, fn \in {"sign", "boot"}, NEW how \in {"done", "lost", "unheard", "garbled"}, Exchange(how), fn' # "failed"
  PROVE  /\ fn' = fn /\ todo' = Tail(todo) /\ loc' = Filled(how, TRUE)
         /\ todo # <<>> /\ x.to \in {"card", "mecha"} /\ FileStep(x)
         /\ x.to = "card" => /\ mecha' = mecha /\ how = "done" /\ Device.ok /\ card' = Device.dev
                             /\ x.cmd \in CardKeyCmds
         /\ x.to = "mecha" => /\ card' = card /\ x.cmd \in FileCommands \cup {"8F"}
                              /\ x.cmd # "8E" => how = "done" /\ Device.ok /\ mecha' = Device.dev
                              /\ x.cmd = "8E" => mecha' = mecha
<1>1. todo # <<>> /\ x.to \in {"card", "mecha"} /\ TypeInv
  BY ExchangeStep DEF HInv
<1>2. FileStep(x)
  BY <1>1, InScriptTail DEF HInv, ScriptInv, x
<1>3. PICK ok \in BOOLEAN : Answered(how, ok)
  BY ExchangeStep
<1>4. ok
  BY <1>3 DEF Answered, Next_
<1>5. fn' = fn /\ todo' = Tail(todo) /\ loc' = Filled(how, TRUE) /\ (x.cmd # "8E" => how = "done" /\ Device.ok)
  BY <1>3, <1>4 DEF Answered, Next_
<1>6. /\ card' = (IF how # "lost" /\ x.to = "card" THEN Device.dev ELSE card)
      /\ mecha' = (IF how # "lost" /\ x.to = "mecha" THEN Device.dev ELSE mecha)
  BY ExchangeStep
<1>7. CASE x.to = "card"
  <2>1. x.cmd \in CardKeyCmds /\ x.cmd # "8E"
    BY <1>2, <1>7 DEF FileStep, CardKeyCmds
  <2> QED
    BY <1>1, <1>2, <1>5, <1>6, <1>7, <2>1
<1>8. CASE x.to = "mecha"
  <2>1. x.cmd \in FileCommands \cup {"8F"}
    BY <1>2, <1>8 DEF FileStep
  <2>2. x.cmd = "8E" => mecha' = mecha
    <3> SUFFICES ASSUME x.cmd = "8E" PROVE mecha' = mecha
      OBVIOUS
    <3> PICK a, cmd, in, arg : a = Device /\ cmd = x.cmd /\ in = Sent /\ arg = x.arg
      OBVIOUS
    <3>1. a = MechaDoes(mecha, cmd, arg, in) /\ IsMecha(mecha) /\ cmd = "8E" /\ cmd \in FileCommands
      BY <1>1, <1>8 DEF Device, TypeInv, FileCommands
    <3>2. MechaReady(mecha, cmd) /\ a = [dev |-> mecha, ok |-> TRUE, out |-> MechaGets(mecha, cmd)]
      BY <3>1 DEF MechaDoes, MechaReady
    <3>3. a.dev = mecha
      BY <3>2
    <3> QED
      BY <1>6, <3>3
  <2> QED
    BY <1>1, <1>2, <1>5, <1>6, <1>8, <2>1, <2>2
<1> QED
  BY <1>1, <1>7, <1>8

IsSeq(s) == \E S : s \in Seq(S)

(* Sequences, whatever they hold. *)
LEMMA SeqFacts ==
  /\ \A s : InScript(s) => IsSeq(s)
  /\ IsSeq(<<>>) /\ \A e : IsSeq(<<e>>)
  /\ \A s, t : IsSeq(s) /\ IsSeq(t) => IsSeq(s \o t)
<1>1. \A s : InScript(s) => IsSeq(s)
  BY DEF InScript, IsSeq
<1>2. IsSeq(<<>>)
  <2> DEFINE S == {}
  <2>1. <<>> \in Seq(S)
    OBVIOUS
  <2> HIDE DEF S
  <2> QED
    BY <2>1 DEF IsSeq
<1>3. ASSUME NEW e PROVE IsSeq(<<e>>)
  <2> DEFINE S == {e}
  <2>1. <<e>> \in Seq(S)
    OBVIOUS
  <2> HIDE DEF S
  <2> QED
    BY <2>1 DEF IsSeq
<1>4. ASSUME NEW s, NEW t, IsSeq(s), IsSeq(t) PROVE IsSeq(s \o t)
  <2>1. PICK S : s \in Seq(S)
    BY <1>4 DEF IsSeq
  <2>2. PICK T : t \in Seq(T)
    BY <1>4 DEF IsSeq
  <2>3. s \in Seq(S \cup T) /\ t \in Seq(S \cup T)
    BY <2>1, <2>2
  <2>4. s \o t \in Seq(S \cup T)
    BY <2>3, ConcatProperties
  <2> QED
    BY <2>4 DEF IsSeq
<1> QED
  BY <1>1, <1>2, <1>3, <1>4

(* The elements of a concatenation. *)
LEMMA ConcatAt ==
  ASSUME NEW s, NEW t, IsSeq(s), IsSeq(t)
  PROVE  /\ IsSeq(s \o t) /\ Len(s) \in Nat /\ Len(t) \in Nat /\ Len(s \o t) = Len(s) + Len(t)
         /\ DOMAIN s = 1 .. Len(s)
         /\ \A i \in 1 .. Len(s) : (s \o t)[i] = s[i]
         /\ \A i \in 1 .. Len(t) : (s \o t)[Len(s) + i] = t[i]
<1>1. PICK S : s \in Seq(S)
  BY DEF IsSeq
<1>2. PICK T : t \in Seq(T)
  BY DEF IsSeq
<1>3. s \in Seq(S \cup T) /\ t \in Seq(S \cup T)
  BY <1>1, <1>2
<1>4. Len(s) \in Nat /\ Len(t) \in Nat /\ DOMAIN s = 1 .. Len(s)
  BY <1>3
<1>5. /\ s \o t \in Seq(S \cup T)
      /\ Len(s \o t) = Len(s) + Len(t)
      /\ \A i \in 1 .. Len(s) + Len(t) : (s \o t)[i] = IF i <= Len(s) THEN s[i] ELSE t[i - Len(s)]
  BY <1>3, ConcatProperties
<1>6. IsSeq(s \o t)
  BY <1>5 DEF IsSeq
<1> QED
  BY <1>4, <1>5, <1>6

(* A script is followed by another one: the front goes on step by step. *)
LEMMA FrontStep ==
  ASSUME NEW s, NEW t, IsSeq(s), IsSeq(t), NEW n \in Nat, n < Len(s)
  PROVE  /\ After(s, n) \o t # <<>>
         /\ Head(After(s, n) \o t) = s[n + 1]
         /\ Tail(After(s, n) \o t) = After(s, n + 1) \o t
         /\ n + 1 = Len(s) => Tail(After(s, n) \o t) = t
<1>1. PICK S : s \in Seq(S)
  BY DEF IsSeq
<1>2. PICK T : t \in Seq(T)
  BY DEF IsSeq
<1>3. s \in Seq(S \cup T) /\ t \in Seq(S \cup T)
  BY <1>1, <1>2
<1> DEFINE a == After(s, n)
<1>4. a \in Seq(S \cup T) /\ a # <<>> /\ Head(a) = s[n + 1] /\ Tail(a) = After(s, n + 1)
  <2>1. \A i \in n + 1 .. Len(s) : s[i] \in S \cup T
    BY <1>3
  <2>2. n + 1 \in Int /\ Len(s) \in Int
    BY <1>3
  <2>3. a \in Seq(S \cup T)
    BY <2>1, <2>2, SubSeqProperties DEF After
  <2> QED
    BY <2>3, <1>3, SuffixStep
<1> HIDE DEF a
<1>5. a \o t # <<>> /\ Head(a \o t) = Head(a) /\ Tail(a \o t) = Tail(a) \o t
  BY <1>3, <1>4
<1>6. n + 1 = Len(s) => After(s, n + 1) \o t = t
  <2> SUFFICES ASSUME n + 1 = Len(s) PROVE After(s, n + 1) \o t = t
    OBVIOUS
  <2>1. After(s, n + 1) = <<>>
    BY <1>3, SuffixEnds
  <2> QED
    BY <1>3, <2>1, ConcatEmptySeq
<1> QED
  BY <1>4, <1>5, <1>6 DEF a

(* Where each exchange of the two header scripts stands. *)
HeaderChunks(f) == (KELF_header_size(f) + 1) \div 2

(* Where each exchange for a header stands, in either mode. *)
LEMMA SetHeaderAt ==
  ASSUME NEW f \in Files, NEW mode
  PROVE  /\ IsSeq(secr_set_header(mode, f)) /\ HeaderChunks(f) \in Nat
         /\ Len(secr_set_header(mode, f)) = HeaderChunks(f) + 2
         /\ secr_set_header(mode, f)[1] = write_HD_start(mode, f)
         /\ \A k \in 1 .. HeaderChunks(f) :
               secr_set_header(mode, f)[1 + k] = write_data(Chunks(0, KELF_header_size(f))[k])
         /\ secr_set_header(mode, f)[HeaderChunks(f) + 2] = pol_cal_cmplt
<1>1. PICK n \in Nat : n = HeaderChunks(f)
  BY Sizes DEF HeaderChunks
<1> DEFINE s == [k \in 1 .. n |-> write_data(Chunks(0, KELF_header_size(f))[k])]
<1>2. secr_set_header(mode, f) = (<<write_HD_start(mode, f)>> \o s) \o <<pol_cal_cmplt>>
  BY <1>1 DEF secr_set_header, HeaderChunks
<1>3. IsSeq(s) /\ Len(s) = n /\ \A k \in 1 .. n : s[k] = write_data(Chunks(0, KELF_header_size(f))[k])
  <2> DEFINE S == {s[k] : k \in 1 .. n}
  <2>1. s \in [1 .. n -> S]
    OBVIOUS
  <2>2. Len(s) = n /\ \A k \in 1 .. n : s[k] = write_data(Chunks(0, KELF_header_size(f))[k])
    OBVIOUS
  <2> HIDE DEF S, s
  <2>3. s \in Seq(S)
    BY <2>1
  <2>4. IsSeq(s)
    BY <2>3 DEF IsSeq
  <2> QED
    BY <2>2, <2>4
<1> HIDE DEF s
<1> PICK a, z : a = <<write_HD_start(mode, f)>> /\ z = <<pol_cal_cmplt>>
  OBVIOUS
<1>4. IsSeq(a) /\ IsSeq(z) /\ Len(a) = 1 /\ Len(z) = 1 /\ a[1] = write_HD_start(mode, f) /\ z[1] = pol_cal_cmplt
  BY SeqFacts
<1>5. /\ IsSeq(a \o s) /\ Len(a \o s) = 1 + n /\ (a \o s)[1] = a[1] /\ \A k \in 1 .. n : (a \o s)[1 + k] = s[k]
  BY <1>1, <1>3, <1>4, ConcatAt
<1> DEFINE b == a \o s
<1> HIDE DEF b
<1>6. /\ IsSeq(b \o z) /\ Len(b \o z) = n + 2 /\ (b \o z)[1] = b[1] /\ (\A k \in 1 .. n : (b \o z)[1 + k] = b[1 + k])
      /\ (b \o z)[n + 2] = z[1]
  <2>1. IsSeq(b) /\ Len(b) = 1 + n
    BY <1>5 DEF b
  <2>2. /\ IsSeq(b \o z) /\ Len(b \o z) = 1 + n + 1 /\ (\A i \in 1 .. 1 + n : (b \o z)[i] = b[i])
        /\ (b \o z)[1 + n + 1] = z[1]
    <3>1. IsSeq(z) /\ Len(z) = 1 /\ 1 \in 1 .. 1
      BY <1>4
    <3>2. /\ IsSeq(b \o z) /\ Len(b \o z) = Len(b) + Len(z)
          /\ \A i \in 1 .. Len(b) : (b \o z)[i] = b[i]
          /\ \A i \in 1 .. Len(z) : (b \o z)[Len(b) + i] = z[i]
      <4>1. IsSeq(b) /\ IsSeq(z)
        BY <2>1, <3>1
      <4> QED
        BY ONLY <4>1, ConcatAt
    <3>3. /\ \A i \in 1 .. 1 + n : (b \o z)[i] = b[i]
          /\ \A i \in 1 .. 1 : (b \o z)[1 + n + i] = z[i]
      BY ONLY <2>1, <3>1, <3>2
    <3> QED
      BY ONLY <2>1, <3>1, <3>2, <3>3
  <2>3. 1 + n + 1 = n + 2 /\ 1 \in 1 .. 1 + n /\ \A k \in 1 .. n : 1 + k \in 1 .. 1 + n
    BY <1>1
  <2> QED
    BY <2>2, <2>3
<1>7. secr_set_header(mode, f) = b \o z
  BY <1>2 DEF b
<1> QED
  BY <1>1, <1>3, <1>4, <1>5, <1>6, <1>7 DEF b

(* The read of the bit table asks the mechacon and changes nothing in it. *)
LEMMA ReadBitAt ==
  ASSUME NEW f \in Files
  PROVE  /\ IsSeq(Read_BIT(f)) /\ Len(Read_BIT(f)) \in Nat /\ Len(Read_BIT(f)) > 0
         /\ \A k \in 1 .. Len(Read_BIT(f)) :
               Read_BIT(f)[k].to = "mecha" /\ Read_BIT(f)[k].cmd \in {"91", "8E"} /\ Read_BIT(f)[k].get = <<>>
<1>1. PICK n \in Nat : n = (BitLength(f) + 1) \div 2
  BY Sizes
<1> DEFINE s == [k \in 1 .. n |-> read_data]
<1>2. Read_BIT(f) = <<get_BIT_length>> \o s
  BY <1>1 DEF Read_BIT
<1>3. IsSeq(s) /\ Len(s) = n /\ \A k \in 1 .. n : s[k] = read_data
  <2> DEFINE S == {read_data}
  <2>1. s \in Seq(S) /\ Len(s) = n /\ \A k \in 1 .. n : s[k] = read_data
    OBVIOUS
  <2> HIDE DEF S
  <2> QED
    BY <2>1 DEF IsSeq
<1> HIDE DEF s
<1> PICK a : a = <<get_BIT_length>>
  OBVIOUS
<1>4. IsSeq(a) /\ Len(a) = 1 /\ a[1] = get_BIT_length
  BY SeqFacts
<1>5. IsSeq(a \o s) /\ Len(a \o s) = 1 + n /\ (a \o s)[1] = get_BIT_length /\ \A k \in 1 .. n : (a \o s)[1 + k] = read_data
  BY <1>1, <1>3, <1>4, ConcatAt
<1>6. \A k \in 1 .. 1 + n : (a \o s)[k] \in {get_BIT_length, read_data}
  <2> SUFFICES ASSUME NEW k \in 1 .. 1 + n PROVE (a \o s)[k] \in {get_BIT_length, read_data}
    OBVIOUS
  <2>1. CASE k = 1
    BY <1>5, <2>1
  <2>2. CASE k # 1
    <3>1. k - 1 \in 1 .. n /\ 1 + (k - 1) = k
      BY <1>1, <2>2
    <3> QED
      BY <1>5, <3>1
  <2> QED
    BY <2>1, <2>2
<1>7. \A e \in {get_BIT_length, read_data} : e.to = "mecha" /\ e.cmd \in {"91", "8E"} /\ e.get = <<>>
  BY DEF get_BIT_length, read_data, ToMecha, Exchanged
<1> PICK r : r = Read_BIT(f)
  OBVIOUS
<1>8. IsSeq(r) /\ Len(r) = 1 + n /\ \A k \in 1 .. 1 + n : r[k] \in {get_BIT_length, read_data}
  BY <1>2, <1>5, <1>6
<1>9. \A k \in 1 .. Len(r) : r[k].to = "mecha" /\ r[k].cmd \in {"91", "8E"} /\ r[k].get = <<>>
  BY ONLY <1>7, <1>8
<1>10. Len(r) \in Nat /\ Len(r) > 0
  BY ONLY <1>1, <1>8
<1> QED
  BY <1>8, <1>9, <1>10

(* Where each exchange for the header being signed stands. *)
LEMMA SignHeaderAt ==
  ASSUME NEW f \in Files, NEW h, h = SecrDownloadHeader(f)
  PROVE  /\ IsSeq(h) /\ Len(h) \in Nat /\ Len(h) > 2
         /\ h[1] = Rpc("header") /\ h[2] = write_HD_start(2, f)
         /\ \A k \in 3 .. Len(h) : h[k].to = "mecha" /\ h[k].cmd \in {"8D", "8F", "91", "8E"} /\ h[k].get = <<>>
<1> PICK a, q, r : a = <<Rpc("header")>> /\ q = secr_set_header(2, f) /\ r = Read_BIT(f)
  OBVIOUS
<1> PICK n : n = HeaderChunks(f)
  OBVIOUS
<1>1. IsSeq(a) /\ Len(a) = 1 /\ a[1] = Rpc("header")
  BY SeqFacts
<1>2. /\ IsSeq(q) /\ n \in Nat /\ Len(q) = n + 2 /\ q[1] = write_HD_start(2, f)
      /\ \A k \in 1 .. n : q[1 + k] = write_data(Chunks(0, KELF_header_size(f))[k])
      /\ q[n + 2] = pol_cal_cmplt
  BY SetHeaderAt
<1>3. /\ IsSeq(r) /\ Len(r) \in Nat /\ Len(r) > 0
      /\ \A k \in 1 .. Len(r) : r[k].to = "mecha" /\ r[k].cmd \in {"91", "8E"} /\ r[k].get = <<>>
  BY ReadBitAt
<1>4. h = (a \o q) \o r
  BY DEF SecrDownloadHeader
<1> DEFINE b == a \o q
<1>5. /\ IsSeq(b) /\ Len(b) = n + 3 /\ b[1] = Rpc("header") /\ \A i \in 1 .. n + 2 : b[1 + i] = q[i]
  BY <1>1, <1>2, ConcatAt
<1> HIDE DEF b
<1>6. /\ IsSeq(h) /\ Len(h) = n + 3 + Len(r) /\ (\A i \in 1 .. n + 3 : h[i] = b[i])
      /\ \A i \in 1 .. Len(r) : h[n + 3 + i] = r[i]
  <2>1. h = b \o r
    BY <1>4 DEF b
  <2>2. /\ IsSeq(b \o r) /\ Len(b \o r) = Len(b) + Len(r) /\ (\A i \in 1 .. Len(b) : (b \o r)[i] = b[i])
        /\ \A i \in 1 .. Len(r) : (b \o r)[Len(b) + i] = r[i]
    <3>1. IsSeq(b) /\ IsSeq(r)
      BY <1>3, <1>5
    <3> QED
      BY ONLY <3>1, ConcatAt
  <2> QED
    BY <2>1, <2>2, <1>5
<1>7. h[1] = Rpc("header") /\ h[2] = write_HD_start(2, f)
  <2>1. 1 \in 1 .. n + 3 /\ 2 \in 1 .. n + 3 /\ 1 \in 1 .. n + 2 /\ 1 + 1 = 2
    BY <1>2
  <2> QED
    BY <1>2, <1>5, <1>6, <2>1
<1>8. ASSUME NEW k \in 3 .. Len(h) PROVE h[k].to = "mecha" /\ h[k].cmd \in {"8D", "8F", "91", "8E"} /\ h[k].get = <<>>
  <2>1. CASE k <= n + 2
    <3>1. k - 2 \in 1 .. n /\ 1 + (k - 2) = k - 1 /\ 1 + (k - 1) = k /\ k - 1 \in 1 .. n + 2 /\ k \in 1 .. n + 3
      BY <1>2, <2>1
    <3>2. h[k] = write_data(Chunks(0, KELF_header_size(f))[k - 2])
      BY <1>2, <1>5, <1>6, <3>1
    <3> QED
      BY <3>2 DEF write_data, ToMecha, Exchanged
  <2>2. CASE k = n + 3
    <3>1. k \in 1 .. n + 3 /\ n + 2 \in 1 .. n + 2 /\ 1 + (n + 2) = k
      BY <1>2, <2>2
    <3>2. h[k] = pol_cal_cmplt
      BY <1>2, <1>5, <1>6, <3>1
    <3> QED
      BY <3>2 DEF pol_cal_cmplt, ToMecha, Exchanged
  <2>3. CASE k > n + 3
    <3> PICK l, top : l = Len(r) /\ top = Len(h)
      OBVIOUS
    <3>0. n \in Nat /\ l \in Nat /\ top = n + 3 + l /\ k \in 3 .. top /\ k > n + 3
      BY <1>2, <1>3, <1>6, <2>3
    <3>1. k - (n + 3) \in 1 .. Len(r) /\ n + 3 + (k - (n + 3)) = k
      <4>1. k - (n + 3) \in 1 .. l /\ n + 3 + (k - (n + 3)) = k
        BY ONLY <3>0
      <4> QED
        BY <4>1
    <3>2. h[k] = r[k - (n + 3)]
      BY <1>6, <3>1
    <3> QED
      BY <1>3, <3>1, <3>2
  <2> QED
    BY <1>2, <2>1, <2>2, <2>3
<1> QED
  BY <1>2, <1>3, <1>6, <1>7, <1>8

(* What the body of a block's script is made of: chunks of two units, or the step that is too long. *)
Poured(e) == \/ e.to = "mecha" /\ e.cmd = "8D" /\ DOMAIN e.units = 1 .. 2 /\ e.put = <<>> /\ e.get = <<>>
             \/ e.to = "self" /\ e.cmd = "toolong"

(* Before it is cut to the buffer: a record of all its fields. *)
Whole(e) == /\ Poured(e)
            /\ e = [to |-> e.to, cmd |-> e.cmd, put |-> e.put, get |-> e.get, units |-> e.units, arg |-> e.arg]

(* Where each exchange of a block's content stands. *)
LEMMA PieceAt ==
  ASSUME NEW from, NEW size \in Nat \ {0}, NEW b, b = func_00000b5c(from, size)
  PROVE  /\ IsSeq(b) /\ Len(b) \in Nat /\ Len(b) > 2
         /\ b[1] = mechacon_set_block_size(size) /\ b[Len(b)] = pol_cal_cmplt
         /\ \A k \in 2 .. Len(b) - 1 : Whole(b[k])
<1>1. PICK n \in Nat \ {0} : n = (size + 1) \div 2
  OBVIOUS
<1> DEFINE s == [k \in 1 .. n |-> write_data(<<from + 2 * k - 1, IF 2 * k <= size THEN from + 2 * k ELSE 0>>)]
           u == IF size % 2 = 1 THEN <<Self("toolong")>> ELSE <<>>
<1> PICK a, z : a = <<mechacon_set_block_size(size)>> /\ z = <<pol_cal_cmplt>>
  OBVIOUS
<1>2. b = ((a \o s) \o u) \o z
  BY <1>1 DEF func_00000b5c
<1>3. IsSeq(s) /\ Len(s) = n /\ \A k \in 1 .. n : Whole(s[k])
  <2>1. \A k \in 1 .. n : Whole(s[k])
    BY DEF Whole, Poured, write_data, ToMecha, Exchanged
  <2> DEFINE S == {s[k] : k \in 1 .. n}
  <2>2. s \in [1 .. n -> S] /\ Len(s) = n
    BY <1>1
  <2> HIDE DEF S, s
  <2>3. s \in Seq(S)
    BY <2>2
  <2>4. IsSeq(s)
    BY <2>3 DEF IsSeq
  <2> QED
    BY <2>1, <2>2, <2>4
<1>4. IsSeq(u) /\ Len(u) \in Nat /\ \A k \in 1 .. Len(u) : Whole(u[k])
  <2>1. Whole(Self("toolong"))
    BY DEF Whole, Poured, Self, Exchanged
  <2>2. IsSeq(<<Self("toolong")>>) /\ IsSeq(<<>>)
    BY SeqFacts
  <2> QED
    BY <2>1, <2>2
<1>5. IsSeq(a) /\ IsSeq(z) /\ Len(a) = 1 /\ Len(z) = 1 /\ a[1] = mechacon_set_block_size(size) /\ z[1] = pol_cal_cmplt
  BY SeqFacts
<1> HIDE DEF s, u
<1> DEFINE c == a \o s
           d == c \o u
<1>6. /\ IsSeq(c) /\ Len(c) = 1 + n /\ c[1] = a[1] /\ \A k \in 1 .. n : c[1 + k] = s[k]
  BY <1>1, <1>3, <1>5, ConcatAt
<1>7. \A k \in 2 .. Len(c) : Whole(c[k])
  <2> SUFFICES ASSUME NEW k \in 2 .. Len(c) PROVE Whole(c[k])
    OBVIOUS
  <2>1. k - 1 \in 1 .. n /\ 1 + (k - 1) = k
    BY <1>6, <1>1
  <2> QED
    BY <1>3, <1>6, <2>1
<1> HIDE DEF c
<1>8. /\ IsSeq(d) /\ Len(d) = Len(c) + Len(u) /\ (\A k \in 1 .. Len(c) : d[k] = c[k])
      /\ \A k \in 1 .. Len(u) : d[Len(c) + k] = u[k]
  <2>1. IsSeq(c) /\ IsSeq(u)
    BY <1>4, <1>6
  <2> QED
    BY <2>1, ConcatAt
<1>9. \A k \in 2 .. Len(d) : Whole(d[k])
  <2> SUFFICES ASSUME NEW k \in 2 .. Len(d) PROVE Whole(d[k])
    OBVIOUS
  <2>1. Len(c) \in Nat /\ Len(u) \in Nat /\ k \in Nat
    BY <1>1, <1>4, <1>6
  <2>2. CASE k <= Len(c)
    BY <1>7, <1>8, <2>1, <2>2
  <2>3. CASE k > Len(c)
    <3>1. k - Len(c) \in 1 .. Len(u) /\ Len(c) + (k - Len(c)) = k
      BY <1>8, <2>1, <2>3
    <3> QED
      BY <1>4, <1>8, <3>1
  <2> QED
    BY <2>1, <2>2, <2>3
<1> HIDE DEF d
<1>10. /\ IsSeq(b) /\ Len(b) = Len(d) + 1 /\ (\A k \in 1 .. Len(d) : b[k] = d[k]) /\ b[Len(d) + 1] = z[1]
  <2>1. IsSeq(d) /\ IsSeq(z) /\ Len(z) = 1
    BY <1>5, <1>8
  <2>2. b = d \o z
    BY <1>2 DEF c, d
  <2> QED
    BY <2>1, <2>2, ConcatAt
<1>11. Len(d) \in Nat /\ Len(d) >= 2 /\ 1 \in 1 .. Len(c) /\ 1 \in 1 .. Len(d)
  BY <1>1, <1>4, <1>6, <1>8
<1>12. b[1] = mechacon_set_block_size(size)
  BY <1>5, <1>6, <1>8, <1>10, <1>11
<1>13. \A k \in 2 .. Len(b) - 1 : Whole(b[k])
  BY <1>9, <1>10, <1>11
<1> QED
  BY <1>5, <1>10, <1>11, <1>12, <1>13

(* Where each exchange for a block being signed stands. *)
LEMMA SignBlockAt ==
  ASSUME NEW f \in Files, NEW i \in DOMAIN f.blocks, NEW b, b = SecrDownloadBlock(f, i)
  PROVE  /\ IsSeq(b) /\ Len(b) \in Nat /\ Len(b) > 3
         /\ b[1] = Rpc("block")
         /\ b[2].to = "mecha" /\ b[2].cmd = "92" /\ b[2].arg = <<f.blocks[i].size>> /\ b[2].get = <<>>
         /\ b[Len(b)].to = "mecha" /\ b[Len(b)].cmd = "8F" /\ b[Len(b)].get = <<>>
         /\ \A k \in 3 .. Len(b) - 1 : Poured(b[k])
<1> DEFINE carry(e) == [e EXCEPT !.units = [j \in DOMAIN @ |->
                          IF @[j] > BlockOffset(f, i) + RpcUnits THEN 0 ELSE @[j]]]
<1> PICK size, from : size = f.blocks[i].size /\ from = BlockOffset(f, i)
  OBVIOUS
<1> PICK s : s = func_00000b5c(from, size)
  OBVIOUS
<1> DEFINE t == [k \in DOMAIN s |-> carry(s[k])]
<1>1. size \in Nat \ {0}
  BY Sizes
<1>2. /\ IsSeq(s) /\ Len(s) \in Nat /\ Len(s) > 2
      /\ s[1] = mechacon_set_block_size(size) /\ s[Len(s)] = pol_cal_cmplt
      /\ \A k \in 2 .. Len(s) - 1 : Whole(s[k])
  BY <1>1, PieceAt
<1>3. DOMAIN s = 1 .. Len(s)
  BY <1>2, ConcatAt
<1>4. PICK n \in Nat : n = Len(s) /\ DOMAIN s = 1 .. n
  BY <1>2, <1>3
<1>5. IsSeq(t) /\ Len(t) = n /\ \A k \in 1 .. n : t[k] = carry(s[k])
  <2> HIDE DEF carry
  <2> DEFINE S == {carry(s[k]) : k \in 1 .. n}
  <2>1. t \in [1 .. n -> S] /\ Len(t) = n /\ \A k \in 1 .. n : t[k] = carry(s[k])
    BY <1>4
  <2> HIDE DEF S, t
  <2>2. t \in Seq(S)
    BY <2>1
  <2>3. IsSeq(t)
    BY <2>2 DEF IsSeq
  <2> QED
    BY <2>1, <2>3
<1>6. b = <<Rpc("block")>> \o t
  BY DEF SecrDownloadBlock
<1>7. carry(mechacon_set_block_size(size)).to = "mecha" /\ carry(mechacon_set_block_size(size)).cmd = "92"
      /\ carry(mechacon_set_block_size(size)).arg = <<size>> /\ carry(mechacon_set_block_size(size)).get = <<>>
      /\ carry(pol_cal_cmplt).to = "mecha" /\ carry(pol_cal_cmplt).cmd = "8F" /\ carry(pol_cal_cmplt).get = <<>>
  BY DEF mechacon_set_block_size, pol_cal_cmplt, Numbered, ToMecha, Exchanged
<1>8. ASSUME NEW e, Whole(e) PROVE Poured(carry(e))
  <2>1. /\ carry(e).to = e.to /\ carry(e).cmd = e.cmd /\ carry(e).put = e.put /\ carry(e).get = e.get
        /\ DOMAIN carry(e).units = DOMAIN e.units
    BY <1>8 DEF Whole
  <2> HIDE DEF carry
  <2> QED
    BY <1>8, <2>1 DEF Whole, Poured
<1> HIDE DEF carry, t
<1>9. /\ IsSeq(b) /\ Len(b) = 1 + n /\ b[1] = Rpc("block") /\ \A k \in 1 .. n : b[1 + k] = t[k]
  <2> PICK a : a = <<Rpc("block")>>
    OBVIOUS
  <2>1. IsSeq(a) /\ Len(a) = 1 /\ a[1] = Rpc("block")
    BY SeqFacts
  <2>2. /\ IsSeq(a \o t) /\ Len(a \o t) = 1 + n /\ (a \o t)[1] = a[1] /\ \A k \in 1 .. n : (a \o t)[1 + k] = t[k]
    BY <1>4, <1>5, <2>1, ConcatAt
  <2> QED
    BY <1>6, <2>1, <2>2
<1>10. n > 2 /\ 1 \in 1 .. n /\ n \in 1 .. n /\ 1 + 1 = 2 /\ 1 + n = Len(b)
  BY <1>2, <1>4, <1>9
<1>11. b[2] = carry(mechacon_set_block_size(size)) /\ b[Len(b)] = carry(pol_cal_cmplt)
  <2>1. b[2] = carry(s[1]) /\ b[Len(b)] = carry(s[n])
    BY ONLY <1>5, <1>9, <1>10
  <2> QED
    BY ONLY <1>2, <1>4, <2>1
<1>12. ASSUME NEW k \in 3 .. Len(b) - 1 PROVE Poured(b[k])
  <2>1. k - 1 \in 2 .. n - 1 /\ k - 1 \in 1 .. n /\ 1 + (k - 1) = k
    BY <1>9, <1>4
  <2>2. b[k] = carry(s[k - 1]) /\ Whole(s[k - 1])
    BY <1>2, <1>4, <1>5, <1>9, <2>1
  <2> QED
    BY <1>8, <2>2
<1>13. b[2].to = "mecha" /\ b[2].cmd = "92" /\ b[2].arg = <<f.blocks[i].size>> /\ b[2].get = <<>>
  BY <1>7, <1>11
<1>14. b[Len(b)].to = "mecha" /\ b[Len(b)].cmd = "8F" /\ b[Len(b)].get = <<>>
  BY ONLY <1>7, <1>11
<1>15. Len(b) \in Nat /\ Len(b) > 3
  BY ONLY <1>4, <1>9, <1>10
<1> QED
  BY ONLY <1>9, <1>12, <1>13, <1>14, <1>15

(* The number of steps for the keys. *)
KeyCount(f) == IF f.icvps2 THEN 27 ELSE 24

(* Where the exchanges for the keys stand. *)
KeysStand(f, k) ==
    /\ IsSeq(k)
    /\ f.icvps2 => Len(k) = 27 /\ k[25] = Rpc("icvps2") /\ k[26] = get_icvps2 /\ k[27] = Self("store_icvps2")
    /\ ~f.icvps2 => Len(k) = 24
    /\ k[1] = Rpc("kbit") /\ k[2] = kbit1 /\ k[3] = kbit2
    /\ k[4] = card_auth("50") /\ k[5] = card_auth_write("Kbit1", "51") /\ k[6] = card_auth("52")
    /\ k[7] = card_auth_read("Kbit1", "53")
    /\ k[8] = card_auth("50") /\ k[9] = card_auth_write("Kbit2", "51") /\ k[10] = card_auth("52")
    /\ k[11] = card_auth_read("Kbit2", "53")
    /\ k[12] = Rpc("kc") /\ k[13] = kc1 /\ k[14] = kc2
    /\ k[15] = card_auth("50") /\ k[16] = card_auth_write("Kc1", "51") /\ k[17] = card_auth("52")
    /\ k[18] = card_auth_read("Kc1", "53")
    /\ k[19] = card_auth("50") /\ k[20] = card_auth_write("Kc2", "51") /\ k[21] = card_auth("52")
    /\ k[22] = card_auth_read("Kc2", "53")
    /\ k[23] = Self("store_kbit") /\ k[24] = Self("store_kc")

(* The exchanges for the keys stand there. *)
LEMMA KeysAre ==
  ASSUME NEW f, NEW k, k = SecrDownloadKeys(f)
  PROVE  KeysStand(f, k)
<1>1. IsSeq(k)
  BY KeyScript, SeqFacts
<1>2. f.icvps2 => Len(k) = 27 /\ k[25] = Rpc("icvps2") /\ k[26] = get_icvps2 /\ k[27] = Self("store_icvps2")
  BY DEF SecrDownloadKeys, SecrDownloadGetKbit, SecrDownloadGetKc, card_encrypt, Uses_ICVPS2,
      SecrDownloadGetICVPS2
<1>3. ~f.icvps2 => Len(k) = 24
  BY DEF SecrDownloadKeys, SecrDownloadGetKbit, SecrDownloadGetKc, card_encrypt, Uses_ICVPS2,
      SecrDownloadGetICVPS2
<1>4. /\ k[1] = Rpc("kbit") /\ k[2] = kbit1 /\ k[3] = kbit2
      /\ k[4] = card_auth("50") /\ k[5] = card_auth_write("Kbit1", "51") /\ k[6] = card_auth("52")
      /\ k[7] = card_auth_read("Kbit1", "53")
  BY DEF SecrDownloadKeys, SecrDownloadGetKbit, SecrDownloadGetKc, card_encrypt
<1>5. /\ k[8] = card_auth("50") /\ k[9] = card_auth_write("Kbit2", "51") /\ k[10] = card_auth("52")
      /\ k[11] = card_auth_read("Kbit2", "53")
  BY DEF SecrDownloadKeys, SecrDownloadGetKbit, SecrDownloadGetKc, card_encrypt
<1>6. /\ k[12] = Rpc("kc") /\ k[13] = kc1 /\ k[14] = kc2
      /\ k[15] = card_auth("50") /\ k[16] = card_auth_write("Kc1", "51") /\ k[17] = card_auth("52")
      /\ k[18] = card_auth_read("Kc1", "53")
  BY DEF SecrDownloadKeys, SecrDownloadGetKbit, SecrDownloadGetKc, card_encrypt
<1>7. /\ k[19] = card_auth("50") /\ k[20] = card_auth_write("Kc2", "51") /\ k[21] = card_auth("52")
      /\ k[22] = card_auth_read("Kc2", "53")
      /\ k[23] = Self("store_kbit") /\ k[24] = Self("store_kc")
  BY DEF SecrDownloadKeys, SecrDownloadGetKbit, SecrDownloadGetKc, card_encrypt
<1> QED
  BY <1>1, <1>2, <1>3, <1>4, <1>5, <1>6, <1>7 DEF KeysStand

(* How many of the marked blocks come before block i. *)
LEMMA Counting ==
  ASSUME NEW n \in Nat, NEW S \in SUBSET (1 .. n)
  PROVE  /\ Before(S, 1) = 0
         /\ \A i \in 1 .. n : Before(S, i) \in Nat
         /\ \A i \in S : Before(S, i + 1) = Before(S, i) + 1
         /\ \A i \in 1 .. n : i \notin S => Before(S, i + 1) = Before(S, i)
         /\ Before(S, n + 1) = Cardinality(S)
<1> DEFINE T(i) == {j \in S : j < i}
<1>1. IsFiniteSet(S)
  <2>1. IsFiniteSet(1 .. n)
    BY FS_Interval
  <2> QED
    BY <2>1, FS_Subset
<1>2. \A i : IsFiniteSet(T(i)) /\ Cardinality(T(i)) \in Nat
  <2> SUFFICES ASSUME NEW i PROVE IsFiniteSet(T(i)) /\ Cardinality(T(i)) \in Nat
    OBVIOUS
  <2>1. T(i) \in SUBSET S
    OBVIOUS
  <2> QED
    BY <1>1, <2>1, FS_Subset, FS_CardinalityType
<1>0. \A j \in S : j \in Nat /\ j >= 1 /\ j <= n
  OBVIOUS
<1>3. T(1) = {} /\ T(n + 1) = S
  <2>1. \A j \in S : ~(j < 1) /\ j < n + 1
    BY <1>0
  <2> QED
    BY <2>1
<1>4. ASSUME NEW i \in S PROVE Cardinality(T(i + 1)) = Cardinality(T(i)) + 1
  <2>1. T(i + 1) = T(i) \cup {i} /\ i \notin T(i)
    <3>1. i \in Nat /\ ~(i < i) /\ \A j \in S : j < i + 1 <=> (j < i \/ j = i)
      BY <1>0
    <3> QED
      BY <3>1
  <2> HIDE DEF T
  <2> QED
    BY <1>2, <2>1, FS_AddElement
<1>5. ASSUME NEW i \in 1 .. n, i \notin S PROVE T(i + 1) = T(i)
  <2>1. \A j \in S : j < i + 1 <=> j < i
    BY <1>0, <1>5
  <2> QED
    BY <2>1
<1>6. \A i : Before(S, i) = Cardinality(T(i))
  BY DEF Before
<1>7. Cardinality(T(1)) = 0 /\ Cardinality(T(n + 1)) = Cardinality(S)
  BY <1>3, FS_EmptySet
<1> HIDE DEF T
<1> QED
  BY <1>2, <1>4, <1>5, <1>6, <1>7

(* The invariant of signing. *)
OfStart == fn \in {"sign", "boot"} /\ card.auth => card.id = start

(* A key half as the card id leaves it, bound to it. *)
Bound(h, id, f) == [n |-> h, card |-> id, keys |-> f.keys]

(* Key half h, which step a reads from the MECHACON and the four steps after e encrypt. *)
HalfAt(h, a, e, n) ==
    /\ a <= n /\ n < e + 4 => loc[h] = Half(h, mecha.peer, file.keys)
    /\ e + 4 <= n => loc[h] = Bound(h, start, file)
    /\ n = e + 2 /\ card.auth => card.val = Half(h, mecha.peer, file.keys)
    /\ n = e + 3 /\ card.auth => card.val = Bound(h, start, file)

(* A buffer that holds the file, but for its key places and the ICVPS2. *)
Kept(b, f) ==
    /\ DOMAIN b = 1 .. f.units
    /\ \A u \in 1 .. f.units : u \notin KeyPlaces(f) => \/ b[u] = Content(f)[u]
                                                        \/ f.icvps2 /\ u = KELF_header_size(f)
BoundAt(b, u, f, id) == b[KbitOffset(f) + u] = Bound(Halves[u], id, f)

(* The buffer when n steps for the keys are done. *)
BufAt(n) ==
    /\ Kept(buf, file)
    /\ n >= 23 => BoundAt(buf, 1, file, start) /\ BoundAt(buf, 2, file, start)
    /\ n >= 24 => BoundAt(buf, 3, file, start) /\ BoundAt(buf, 4, file, start)

(* Signing when n steps for the keys are done. *)
KeysAt(n) ==
    /\ todo = After(SecrDownloadKeys(file), n)
    /\ mecha.auth /\ mecha.nth = Cardinality(Signed(file))
    /\ HalfAt("Kbit1", 2, 3, n) /\ HalfAt("Kbit2", 3, 7, n)
    /\ HalfAt("Kc1", 13, 14, n) /\ HalfAt("Kc2", 14, 18, n)
    /\ BufAt(n)

(* What is left of a signing that comes to block i, and where the signing may be: within the header,
   at the loop, within a signed block, or at the keys. *)
Loop(i) == <<Blocks(i)>> \o SecrDownloadKeys(file)
HeaderAt(n) ==
    /\ todo = After(SecrDownloadHeader(file), n) \o Loop(1)
    /\ buf = Content(file)
    /\ n >= 2 => mecha.auth /\ mecha.nth = 0 /\ mecha.op = "header"
LoopAt(i) ==
    /\ todo = Loop(i)
    /\ buf = Content(file)
    /\ mecha.auth /\ mecha.nth = Before(Signed(file), i)
BlockAt(i, k) ==
    /\ todo = After(SecrDownloadBlock(file, i), k) \o Loop(i + 1)
    /\ buf = Content(file)
    /\ mecha.auth
    /\ k < 2 => mecha.nth = Before(Signed(file), i)
    /\ k >= 2 => /\ mecha.op = "block" /\ IsSeq(mecha.got)
                 /\ mecha.nth = Before(Signed(file), i) + (IF Len(mecha.got) = mecha.left THEN 1 ELSE 0)
SignAt ==
    \/ \E n \in Nat : n < Len(SecrDownloadHeader(file)) /\ HeaderAt(n)
    \/ \E i \in 1 .. Len(file.blocks) + 1 : LoopAt(i)
    \/ \E i \in Signed(file) : \E k \in Nat : k < Len(SecrDownloadBlock(file, i)) /\ BlockAt(i, k)
    \/ \E n \in 0 .. KeyCount(file) : KeysAt(n)

(* The inductive invariant of signing. *)
SignInv == fn = "sign" => twin.keys = file.keys /\ SignAt

(* What is known of the last signed file. *)
SignedInv ==
    signed.card # "none" =>
        /\ signed.all
        /\ Kept(signed.buf, signed.file)
        /\ \A u \in 1 .. 4 : BoundAt(signed.buf, u, signed.file, signed.card)
KInv == OfStart /\ SignInv /\ SignedInv

(* Kc follows Kbit in a header. *)
KcOffset(f) == KbitOffset(f) + 2

(* The eight places the code works out are those two: no copy differs from the layout. *)
LEMMA Copies ==
  ASSUME NEW f
  PROVE  /\ LibsecrKbit(f) = KbitOffset(f) /\ LibsecrKc(f) = KcOffset(f)
         /\ get_Kbit(f) = KbitOffset(f) /\ get_Kc(f) = KcOffset(f)
         /\ KeymanKbit(f) = KbitOffset(f) /\ KeymanKc(f) = KcOffset(f)
         /\ TwinGet(f) = KbitOffset(f) /\ TwinSet(f) = KbitOffset(f)
<1>1. LibsecrKbit(f) = KbitOffset(f) /\ get_Kbit(f) = KbitOffset(f) /\ KeymanKbit(f) = KbitOffset(f)
      /\ TwinGet(f) = KbitOffset(f) /\ TwinSet(f) = KbitOffset(f)
  BY DEF LibsecrKbit, get_Kbit, KeymanKbit, TwinGet, TwinSet, KbitOffset
<1>2. LibsecrKc(f) = KcOffset(f) /\ get_Kc(f) = KcOffset(f) /\ KeymanKc(f) = KcOffset(f)
  BY DEF LibsecrKc, get_Kc, KeymanKc, KcOffset, KbitOffset
<1> QED
  BY <1>1, <1>2

(* The key places are within the header. *)
LEMMA Places ==
  ASSUME NEW f \in Files
  PROVE  /\ KbitOffset(f) \in Nat /\ KbitOffset(f) + 5 <= KELF_header_size(f)
         /\ KELF_header_size(f) \in Nat /\ KELF_header_size(f) <= f.units /\ f.units \in Nat
         /\ KcOffset(f) = KbitOffset(f) + 2
         /\ KELF_header_size(f) \notin KeyPlaces(f)
         /\ \A u \in KeyPlaces(f) : \E k \in 1 .. 4 : u = KbitOffset(f) + k
         /\ Content(f) = [u \in 1 .. f.units |-> Content(f)[u]]
<1>1. f.BIT_count \in Nat /\ f.opt \in Nat /\ Len(f.blocks) \in Nat /\ f.units \in Nat
      /\ KELF_header_size(f) \in Nat /\ KELF_header_size(f) <= f.units
  BY Sizes
<1>2. KbitOffset(f) \in Nat
  <2>1. f.BIT_count \in Nat /\ f.opt \in Nat /\ Len(f.blocks) \in Nat
    BY <1>1
  <2> QED
    BY ONLY <2>1 DEF KbitOffset
<1>3. KbitOffset(f) + 5 <= KELF_header_size(f)
  <2> PICK o, l, h : o = KbitOffset(f) /\ l = Len(f.blocks) /\ h = KELF_header_size(f)
    OBVIOUS
  <2>1. o \in Nat /\ l \in Nat /\ h = o + 4 + (1 + 2 * l) + (IF f.icvps2 THEN 1 ELSE 0)
    BY <1>1, <1>2 DEF KELF_header_size, BitLength
  <2>2. o + 5 <= h
    BY ONLY <2>1
  <2> QED
    BY <2>2
<1>4. KELF_header_size(f) \notin KeyPlaces(f) /\ \A u \in KeyPlaces(f) : \E k \in 1 .. 4 : u = KbitOffset(f) + k
  <2> SUFFICES ASSUME NEW u \in KeyPlaces(f) PROVE u # KELF_header_size(f) /\ \E k \in 1 .. 4 : u = KbitOffset(f) + k
    OBVIOUS
  <2>1. u \in KbitOffset(f) + 1 .. KbitOffset(f) + 4
    BY DEF KeyPlaces
  <2>2. u - KbitOffset(f) \in 1 .. 4 /\ u = KbitOffset(f) + (u - KbitOffset(f))
    BY <1>2, <2>1
  <2> QED
    <3>1. u # KELF_header_size(f)
      BY ONLY <1>1, <1>2, <1>3, <2>1
    <3>2. \E k \in 1 .. 4 : u = KbitOffset(f) + k
      BY ONLY <2>2
    <3> QED
      BY <3>1, <3>2
<1> QED
  BY <1>1, <1>2, <1>3, <1>4 DEF KcOffset, Content

(* A boot takes the halves from their places. *)
LEMMA KeyUnits == ASSUME NEW f \in Files, NEW k \in 1 .. 4 PROVE KeyUnit(f, k) = KbitOffset(f) + k
<1> PICK o, c : o = KbitOffset(f) /\ c = KcOffset(f)
  OBVIOUS
<1>1. o \in Nat /\ c = o + 2
  BY Places
<1>2. KeyUnit(f, k) = IF k <= 2 THEN o + k ELSE c + k - 2
  BY Copies DEF KeyUnit
<1>3. KeyUnit(f, k) = o + k
  BY ONLY <1>1, <1>2, k \in 1 .. 4
<1> QED
  BY <1>3

(* What the invariant says of a signed file is what was promised of it. *)
LEMMA SignedMeans == HInv /\ SignedInv => SignedIsBound
<1> SUFFICES ASSUME HInv, SignedInv, signed.card # "none" PROVE SignedIsBound
  BY DEF SignedIsBound
<1> DEFINE f == signed.file
<1>1. f \in Files
  BY DEF HInv, TypeInv
<1>2. signed.all /\ Kept(signed.buf, f) /\ \A u \in 1 .. 4 : BoundAt(signed.buf, u, f, signed.card)
  BY DEF SignedInv
<1>3. ASSUME NEW u \in DOMAIN signed.buf
      PROVE  IF u \in KeyPlaces(f)
             THEN signed.buf[u] = [n |-> Halves[u - KbitOffset(f)], card |-> signed.card, keys |-> f.keys]
             ELSE \/ signed.buf[u] = Content(f)[u]
                  \/ f.icvps2 /\ u = KELF_header_size(f)
  <2>1. CASE u \in KeyPlaces(f)
    <3>1. PICK k \in 1 .. 4 : u = KbitOffset(f) + k
      BY <1>1, <2>1, Places
    <3>2. u - KbitOffset(f) = k
      BY <1>1, <3>1, Places
    <3>3. signed.buf[u] = Bound(Halves[k], signed.card, f)
      BY <1>2, <3>1 DEF BoundAt
    <3> QED
      BY <2>1, <3>2, <3>3 DEF Bound
  <2>2. CASE u \notin KeyPlaces(f)
    BY <1>2, <2>2 DEF Kept
  <2> QED
    BY <2>1, <2>2
<1> QED
  BY <1>2, <1>3 DEF SignedIsBound

(* What an exchange that succeeded has done to the MECHACON. *)
LEMMA MechaOn ==
  ASSUME HInv, fn \in {"sign", "boot"}, NEW how \in {"done", "lost", "unheard", "garbled"}, Exchange(how),
         fn' # "failed", x.to = "mecha"
  PROVE  /\ (mecha'.auth <=> mecha.auth) /\ mecha'.peer = mecha.peer
         /\ x.cmd = "90" => /\ mecha.auth /\ mecha'.op = "header" /\ mecha'.mode = x.arg[1]
                            /\ mecha'.left = x.arg[2] /\ mecha'.got = <<>> /\ mecha'.nth = 0
         /\ x.cmd = "92" => /\ mecha'.op = "block" /\ mecha'.left = x.arg[1] /\ mecha'.got = <<>>
                            /\ mecha'.nth = mecha.nth
         /\ x.cmd = "8D" => how = "done" /\ Device.ok /\ Device = MechaTakes(mecha, Sent) /\ mecha' = Device.dev
         /\ x.cmd \in Reads => mecha' = mecha
         /\ x.cmd = "8F" => mecha.calc = "ok" /\ Len(mecha.got) = mecha.left
         /\ x.cmd = "94" => Device.out = <<Half("Kbit1", mecha.peer, file.keys)>> /\ how = "done"
         /\ x.cmd = "95" => Device.out = <<Half("Kbit2", mecha.peer, file.keys)>> /\ how = "done"
         /\ x.cmd = "96" => Device.out = <<Half("Kc1", mecha.peer, file.keys)>> /\ how = "done"
         /\ x.cmd = "97" => Device.out = <<Half("Kc2", mecha.peer, file.keys)>> /\ how = "done"
<1>1. /\ x.cmd \in FileCommands \cup {"8F"}
      /\ x.cmd # "8E" => how = "done" /\ Device.ok /\ mecha' = Device.dev
      /\ x.cmd = "8E" => mecha' = mecha
  BY FileExchangeOn
<1>2. CASE x.cmd = "8E"
  BY <1>1, <1>2
<1>3. CASE x.cmd # "8E"
  <2> PICK a, cmd, in, arg : a = Device /\ cmd = x.cmd /\ in = Sent /\ arg = x.arg
    OBVIOUS
  <2>1. a = MechaDoes(mecha, cmd, arg, in) /\ IsMecha(mecha)
    BY DEF Device, HInv, TypeInv
  <2>2. cmd \in FileCommands \cup {"8F"} /\ a.ok /\ mecha' = a.dev /\ how = "done"
    BY <1>1, <1>3
  <2>3. /\ (a.dev.auth <=> mecha.auth) /\ a.dev.peer = mecha.peer
        /\ cmd = "90" => /\ mecha.auth /\ a.dev.op = "header" /\ a.dev.mode = arg[1] /\ a.dev.left = arg[2]
                         /\ a.dev.got = <<>> /\ a.dev.nth = 0 /\ a.dev.calc = "ok"
        /\ cmd = "8D" => a = MechaTakes(mecha, in)
        /\ cmd = "92" => /\ a.dev.op = "block" /\ a.dev.left = arg[1] /\ a.dev.got = <<>>
                         /\ a.dev.nth = mecha.nth /\ a.dev.calc = mecha.calc
        /\ cmd \in Reads => a.dev = mecha
        /\ cmd = "8F" => mecha.calc = "ok" /\ Len(mecha.got) = mecha.left
        /\ cmd = "94" => mecha.mode = 2 /\ a.out = <<Half("Kbit1", mecha.peer, file.keys)>>
        /\ cmd = "95" => mecha.mode = 2 /\ a.out = <<Half("Kbit2", mecha.peer, file.keys)>>
        /\ cmd = "96" => mecha.mode = 2 /\ a.out = <<Half("Kc1", mecha.peer, file.keys)>>
        /\ cmd = "97" => mecha.mode = 2 /\ a.out = <<Half("Kc2", mecha.peer, file.keys)>>
    BY <2>1, <2>2, MechaFileStep
  <2> QED
    BY <2>2, <2>3
<1> QED
  BY <1>2, <1>3

(* The ends of a script, and the script at the loop. *)
LEMMA Fronts ==
  ASSUME NEW s, IsSeq(s)
  PROVE  After(s, 0) = s /\ After(s, Len(s)) = <<>> /\ Len(s) \in Nat
<1>1. PICK S : s \in Seq(S)
  BY DEF IsSeq
<1> QED
  BY <1>1, SuffixEnds

(* The script at the loop. *)
LEMMA LoopIs ==
  ASSUME NEW i
  PROVE  /\ IsSeq(Loop(i)) /\ Loop(i) # <<>> /\ Head(Loop(i)) = Blocks(i)
         /\ Tail(Loop(i)) = SecrDownloadKeys(file)
<1> PICK k, a : k = SecrDownloadKeys(file) /\ a = <<Blocks(i)>>
  OBVIOUS
<1>1. IsSeq(k) /\ IsSeq(a) /\ Len(a) = 1 /\ a[1] = Blocks(i)
  BY KeyScript, SeqFacts
<1>2. IsSeq(a \o k)
  BY <1>1, SeqFacts
<1>3. After(a, 0) = a
  BY <1>1, Fronts
<1>4. /\ After(a, 0) \o k # <<>> /\ Head(After(a, 0) \o k) = a[0 + 1]
      /\ 0 + 1 = Len(a) => Tail(After(a, 0) \o k) = k
  <2> PICK z : z = 0
    OBVIOUS
  <2>1. z \in Nat /\ z < Len(a) /\ IsSeq(a) /\ IsSeq(k)
    BY <1>1
  <2>2. /\ After(a, z) \o k # <<>> /\ Head(After(a, z) \o k) = a[z + 1]
        /\ z + 1 = Len(a) => Tail(After(a, z) \o k) = k
    BY ONLY <2>1, FrontStep
  <2> QED
    BY <2>2
<1> QED
  BY <1>1, <1>2, <1>3, <1>4 DEF Loop

(* The invariant of signing in a state where a piece of the script is over. *)
LEMMA HeaderExchange ==
  ASSUME HInv, fn = "sign", NEW how \in {"done", "lost", "unheard", "garbled"}, Exchange(how), fn' # "failed",
         NEW n \in Nat, n < Len(SecrDownloadHeader(file)), HeaderAt(n)
  PROVE  SignAt'
<1> PICK h : h = SecrDownloadHeader(file)
  OBVIOUS
<1>1. /\ IsSeq(h) /\ Len(h) \in Nat /\ Len(h) > 2
      /\ h[1] = Rpc("header") /\ h[2] = write_HD_start(2, file)
      /\ \A k \in 3 .. Len(h) : h[k].to = "mecha" /\ h[k].cmd \in {"8D", "8F", "91", "8E"} /\ h[k].get = <<>>
  BY SignHeaderAt DEF HInv, TypeInv
<1>2. /\ todo = After(h, n) \o Loop(1) /\ x = h[n + 1] /\ Tail(todo) = After(h, n + 1) \o Loop(1)
      /\ n + 1 = Len(h) => Tail(todo) = Loop(1)
  <2> PICK t : t = Loop(1)
    OBVIOUS
  <2>1. IsSeq(h) /\ IsSeq(t) /\ n \in Nat /\ n < Len(h)
    BY <1>1, LoopIs
  <2>2. /\ Head(After(h, n) \o t) = h[n + 1] /\ Tail(After(h, n) \o t) = After(h, n + 1) \o t
        /\ n + 1 = Len(h) => Tail(After(h, n) \o t) = t
    BY ONLY <2>1, FrontStep
  <2> QED
    BY <2>2 DEF HeaderAt, x
<1>3. /\ todo' = Tail(todo) /\ x.to \in {"card", "mecha"} /\ file' = file /\ buf' = buf
  BY FileExchangeOn, ExchangeStep DEF fileVars
<1>4. n # 0
  <2> SUFFICES ASSUME n = 0 PROVE FALSE
    OBVIOUS
  <2>1. x = Rpc("header")
    BY <1>1, <1>2
  <2> QED
    BY <1>3, <2>1 DEF Rpc, Exchanged
<1>5. mecha'.auth /\ mecha'.nth = 0 /\ mecha'.op = "header"
  <2>1. CASE n = 1
    <3>1. x = write_HD_start(2, file)
      BY <1>1, <1>2, <2>1
    <3>2. x.to = "mecha" /\ x.cmd = "90"
      BY <3>1 DEF write_HD_start, Numbered, ToMecha, Exchanged
    <3> QED
      BY <3>2, MechaOn
  <2>2. CASE n # 1
    <3>1. n >= 2 /\ n + 1 \in 3 .. Len(h)
      BY <1>1, <1>4, <2>2
    <3>2. x.to = "mecha" /\ x.cmd \in {"8D", "8F", "91", "8E"}
      BY <1>1, <1>2, <3>1
    <3>3. mecha.auth /\ mecha.nth = 0 /\ mecha.op = "header"
      BY <3>1 DEF HeaderAt
    <3>4. CASE x.cmd # "8D"
      <4>1. x.cmd \in Reads
        BY <3>2, <3>4 DEF Reads
      <4> QED
        BY <3>2, <3>3, <4>1, MechaOn
    <3>5. CASE x.cmd = "8D"
      <4> PICK in, a : in = Sent /\ a = Device
        OBVIOUS
      <4>1. a.ok /\ a = MechaTakes(mecha, in) /\ mecha' = a.dev /\ (mecha'.auth <=> mecha.auth) /\ IsMecha(mecha)
        BY <3>2, <3>5, MechaOn DEF HInv, TypeInv
      <4>2. a.dev.op = mecha.op
            /\ a.dev.nth = (IF Len(mecha.got \o in) = mecha.left /\ mecha.op = "block" THEN mecha.nth + 1 ELSE mecha.nth)
        BY <4>1, MechaTakesStep
      <4> QED
        BY <3>3, <4>1, <4>2
    <3> QED
      BY <3>4, <3>5
  <2> QED
    BY <2>1, <2>2
<1>6. Loop(1)' = Loop(1)
  BY <1>3 DEF Loop
<1>7. buf' = Content(file')
  BY <1>3 DEF HeaderAt
<1>8. CASE n + 1 < Len(h)
  <2>1. HeaderAt(n + 1)'
    BY <1>2, <1>3, <1>5, <1>6, <1>7 DEF HeaderAt
  <2> QED
    BY <1>3, <1>8, <2>1 DEF SignAt
<1>9. CASE ~(n + 1 < Len(h))
  <2>1. n + 1 = Len(h)
    BY <1>1, <1>9
  <2>2. Before(Signed(file), 1) = 0 /\ 1 \in 1 .. Len(file.blocks) + 1
    <3>1. file \in Files
      BY DEF HInv, TypeInv
    <3>2. Len(file.blocks) \in Nat /\ Signed(file) \in SUBSET (1 .. Len(file.blocks))
      <4>1. \A f \in Files : f.blocks \in Seq([flags : 0..3, size : Nat \ {0}])
        BY Sizes
      <4>2. DOMAIN file.blocks = 1 .. Len(file.blocks) /\ Len(file.blocks) \in Nat
        BY ONLY <3>1, <4>1
      <4> QED
        BY ONLY <4>2 DEF Signed
    <3> PICK m, S : m = Len(file.blocks) /\ S = Signed(file)
      OBVIOUS
    <3>3. m \in Nat /\ S \in SUBSET (1 .. m)
      BY <3>2
    <3>4. Before(S, 1) = 0
      BY ONLY <3>3, Counting
    <3> QED
      BY <3>3, <3>4
  <2>3. LoopAt(1)'
    BY <1>2, <1>3, <1>5, <1>6, <1>7, <2>1, <2>2 DEF LoopAt
  <2> QED
    BY <1>3, <2>2, <2>3 DEF SignAt
<1> QED
  BY <1>8, <1>9

(* Where the signing of block i stands. *)
LEMMA BlockFront ==
  ASSUME HInv, NEW i \in Signed(file), NEW b, b = SecrDownloadBlock(file, i),
         NEW k \in Nat, k < Len(b), NEW t, t = Loop(i + 1), todo = After(b, k) \o t
  PROVE  /\ i \in DOMAIN file.blocks /\ file \in Files
         /\ IsSeq(b) /\ Len(b) \in Nat /\ Len(b) > 3
         /\ todo # <<>> /\ x = b[k + 1] /\ Tail(todo) = After(b, k + 1) \o t
         /\ k + 1 = Len(b) => Tail(todo) = t
<1>1. file \in Files /\ i \in DOMAIN file.blocks
  BY DEF HInv, TypeInv, Signed
<1>2. IsSeq(b) /\ Len(b) \in Nat /\ Len(b) > 3
  BY <1>1, SignBlockAt
<1>3. IsSeq(b) /\ IsSeq(t) /\ k \in Nat /\ k < Len(b)
  BY <1>2, LoopIs
<1>4. /\ After(b, k) \o t # <<>> /\ Head(After(b, k) \o t) = b[k + 1] /\ Tail(After(b, k) \o t) = After(b, k + 1) \o t
      /\ k + 1 = Len(b) => Tail(After(b, k) \o t) = t
  BY ONLY <1>3, FrontStep
<1> QED
  BY <1>1, <1>2, <1>4 DEF x

(* A chunk of two units is accepted: the last one completes the block. *)
LEMMA PourStep ==
  ASSUME HInv, fn \in {"sign", "boot"}, NEW how \in {"done", "lost", "unheard", "garbled"}, Exchange(how), fn' # "failed",
         Poured(x), mecha.op = "block", IsSeq(mecha.got), NEW n \in Nat,
         mecha.nth = n + (IF Len(mecha.got) = mecha.left THEN 1 ELSE 0)
  PROVE  /\ mecha'.op = "block" /\ IsSeq(mecha'.got) /\ (mecha'.auth <=> mecha.auth)
         /\ mecha'.nth = n + (IF Len(mecha'.got) = mecha'.left THEN 1 ELSE 0)
<1>1. x.to = "mecha" /\ x.cmd = "8D" /\ DOMAIN x.units = 1 .. 2 /\ x.put = <<>>
  <2>1. x.to # "self"
    <3>1. x.to \in {"card", "mecha"}
      BY ExchangeStep
    <3> QED
      BY <3>1
  <2> QED
    BY <2>1 DEF Poured
<1>2. IsSeq(Sent) /\ Len(Sent) = 2
  <2> DEFINE u == [j \in 1 .. 2 |-> IF x.units[j] = 0 THEN Noise ELSE buf[x.units[j]]]
             v == [j \in DOMAIN x.put |-> loc[x.put[j]]]
  <2>1. Sent = u \o v
    BY <1>1 DEF Sent
  <2>2. v = <<>>
    BY <1>1
  <2>3. IsSeq(u) /\ Len(u) = 2
    <3> PICK two \in Nat : two = 2
      OBVIOUS
    <3> DEFINE S == {u[j] : j \in 1 .. 2}
    <3>1. u \in [1 .. two -> S] /\ Len(u) = 2
      OBVIOUS
    <3> HIDE DEF S, u
    <3>2. u \in Seq(S)
      <4>1. two \in Nat /\ u \in [1 .. two -> S]
        BY <3>1
      <4> QED
        BY ONLY <4>1
    <3>3. IsSeq(u)
      BY <3>2 DEF IsSeq
    <3> QED
      BY <3>1, <3>3
  <2> HIDE DEF u, v
  <2>4. IsSeq(<<>>) /\ Len(<<>>) = 0
    BY SeqFacts
  <2>5. IsSeq(v) /\ Len(v) = 0
    BY <2>2, <2>4
  <2>6. IsSeq(u \o v) /\ Len(u \o v) = 2
    BY <2>3, <2>5, ConcatAt
  <2> QED
    BY <2>1, <2>6
<1> PICK in, a, g : in = Sent /\ a = Device /\ g = mecha.got
  OBVIOUS
<1>3. a.ok /\ a = MechaTakes(mecha, in) /\ mecha' = a.dev /\ (mecha'.auth <=> mecha.auth) /\ IsMecha(mecha)
  BY <1>1, MechaOn DEF HInv, TypeInv
<1>4. /\ a.dev.op = mecha.op /\ a.dev.left = mecha.left /\ a.dev.got = g \o in
      /\ a.dev.nth = (IF Len(g \o in) = mecha.left /\ mecha.op = "block" THEN mecha.nth + 1 ELSE mecha.nth)
      /\ Len(g \o in) <= mecha.left
  <2>1. a.ok /\ a = MechaTakes(mecha, in) /\ IsMecha(mecha) /\ g = mecha.got
    BY <1>3
  <2> QED
    BY ONLY <2>1, MechaTakesStep
<1>5. IsSeq(g \o in) /\ Len(g \o in) = Len(g) + 2 /\ Len(g) \in Nat
  <2>1. IsSeq(g) /\ IsSeq(in) /\ Len(in) = 2
    BY <1>2
  <2>2. IsSeq(g \o in) /\ Len(g \o in) = Len(g) + Len(in) /\ Len(g) \in Nat
    BY ONLY <2>1, ConcatAt
  <2> QED
    BY <2>1, <2>2
<1>7. Len(g) # mecha.left
  <2> SUFFICES ASSUME Len(g) = mecha.left PROVE FALSE
    OBVIOUS
  <2>1. Len(g) + 2 <= Len(g) /\ Len(g) \in Nat
    BY <1>4, <1>5
  <2> QED
    BY ONLY <2>1
<1>8. mecha.nth = n
  BY <1>7
<1> QED
  BY <1>3, <1>4, <1>5, <1>8

(* An exchange for a signed block: when it is complete, one more block is counted. *)
LEMMA BlockExchange ==
  ASSUME HInv, fn = "sign", NEW how \in {"done", "lost", "unheard", "garbled"}, Exchange(how), fn' # "failed",
         NEW i \in Signed(file), NEW k \in Nat, k < Len(SecrDownloadBlock(file, i)), BlockAt(i, k)
  PROVE  SignAt'
<1> PICK b, t : b = SecrDownloadBlock(file, i) /\ t = Loop(i + 1)
  OBVIOUS
<1>1. /\ i \in DOMAIN file.blocks /\ file \in Files
      /\ IsSeq(b) /\ Len(b) \in Nat /\ Len(b) > 3
      /\ x = b[k + 1] /\ Tail(todo) = After(b, k + 1) \o t
      /\ k + 1 = Len(b) => Tail(todo) = t
  BY BlockFront DEF BlockAt
<1>2. /\ b[1] = Rpc("block")
      /\ b[2].to = "mecha" /\ b[2].cmd = "92" /\ b[2].arg = <<file.blocks[i].size>> /\ b[2].get = <<>>
      /\ b[Len(b)].to = "mecha" /\ b[Len(b)].cmd = "8F" /\ b[Len(b)].get = <<>>
      /\ \A j \in 3 .. Len(b) - 1 : Poured(b[j])
  BY <1>1, SignBlockAt
<1>3. /\ todo' = Tail(todo) /\ x.to \in {"card", "mecha"} /\ file' = file /\ buf' = buf /\ fn' = fn
  BY FileExchangeOn, ExchangeStep DEF fileVars
<1>4. t' = t /\ SecrDownloadBlock(file, i)' = b /\ Signed(file)' = Signed(file) /\ buf' = Content(file')
      /\ Loop(i + 1)' = t
  BY <1>3 DEF Loop, BlockAt
<1> PICK n : n = Before(Signed(file), i)
  OBVIOUS
<1>5. /\ n \in Nat /\ Before(Signed(file), i + 1) = n + 1 /\ i \in Nat /\ i + 1 \in 1 .. Len(file.blocks) + 1
  <2>1. Len(file.blocks) \in Nat /\ DOMAIN file.blocks = 1 .. Len(file.blocks)
    <3>1. file.blocks \in Seq([flags : 0..3, size : Nat \ {0}])
      BY <1>1, Sizes
    <3> PICK bs, T : bs = file.blocks /\ T = [flags : 0..3, size : Nat \ {0}]
      OBVIOUS
    <3>2. bs \in Seq(T)
      BY <3>1
    <3>3. Len(bs) \in Nat /\ DOMAIN bs = 1 .. Len(bs)
      BY ONLY <3>2
    <3> QED
      BY <3>3
  <2> PICK m, S : m = Len(file.blocks) /\ S = Signed(file)
    OBVIOUS
  <2>2. m \in Nat /\ S \in SUBSET (1 .. m) /\ i \in S
    BY <2>1 DEF Signed
  <2>3. /\ \A j \in 1 .. m : Before(S, j) \in Nat
        /\ \A j \in S : Before(S, j + 1) = Before(S, j) + 1
    BY ONLY <2>2, Counting
  <2>4. i \in 1 .. m
    BY <2>2
  <2> QED
    BY <2>2, <2>3, <2>4
<1>6. k # 0
  <2> SUFFICES ASSUME k = 0 PROVE FALSE
    OBVIOUS
  <2>1. x = Rpc("block")
    BY <1>1, <1>2
  <2> QED
    BY <1>3, <2>1 DEF Rpc, Exchanged
<1>7. CASE k = 1
  <2>1. x.to = "mecha" /\ x.cmd = "92" /\ x.arg[1] = file.blocks[i].size
    BY <1>1, <1>2, <1>7
  <2>2. /\ mecha'.op = "block" /\ mecha'.left = file.blocks[i].size /\ mecha'.got = <<>> /\ mecha'.nth = mecha.nth
        /\ (mecha'.auth <=> mecha.auth)
    BY <2>1, MechaOn
  <2>3. file.blocks[i].size \in Nat \ {0}
    BY <1>1, Sizes
  <2>4. IsSeq(mecha'.got) /\ Len(mecha'.got) = 0
    BY <2>2, SeqFacts
  <2>5. mecha.nth = n /\ mecha.auth
    BY <1>7 DEF BlockAt
  <2>6. mecha'.nth = n + (IF Len(mecha'.got) = mecha'.left THEN 1 ELSE 0)
    BY <1>5, <2>2, <2>3, <2>4, <2>5
  <2>7. BlockAt(i, 2)'
    <3>1. (todo = After(SecrDownloadBlock(file, i), 2) \o Loop(i + 1))'
      BY <1>1, <1>3, <1>4, <1>7
    <3>2. (mecha.nth = Before(Signed(file), i) + (IF Len(mecha.got) = mecha.left THEN 1 ELSE 0))'
      BY <1>3, <2>6
    <3>3. (buf = Content(file) /\ mecha.auth /\ mecha.op = "block" /\ IsSeq(mecha.got))'
      BY <1>4, <2>2, <2>4, <2>5
    <3> QED
      BY <3>1, <3>2, <3>3 DEF BlockAt
  <2> QED
    BY <1>1, <1>3, <1>4, <2>7 DEF SignAt
<1>8. CASE k >= 2 /\ k + 1 # Len(b)
  <2>1. k + 1 \in 3 .. Len(b) - 1
    BY <1>1, <1>8
  <2>2. Poured(x)
    BY <1>1, <1>2, <2>1
  <2>3. /\ mecha.auth /\ mecha.op = "block" /\ IsSeq(mecha.got)
        /\ mecha.nth = n + (IF Len(mecha.got) = mecha.left THEN 1 ELSE 0)
    BY <1>8 DEF BlockAt
  <2>4. /\ mecha'.op = "block" /\ IsSeq(mecha'.got) /\ (mecha'.auth <=> mecha.auth)
        /\ mecha'.nth = n + (IF Len(mecha'.got) = mecha'.left THEN 1 ELSE 0)
    BY <1>5, <2>2, <2>3, PourStep
  <2>5. BlockAt(i, k + 1)'
    <3>1. (todo = After(SecrDownloadBlock(file, i), k + 1) \o Loop(i + 1))'
      BY <1>1, <1>3, <1>4
    <3>2. (mecha.nth = Before(Signed(file), i) + (IF Len(mecha.got) = mecha.left THEN 1 ELSE 0))'
      BY <1>3, <2>4
    <3>3. (buf = Content(file) /\ mecha.auth /\ mecha.op = "block" /\ IsSeq(mecha.got))'
      BY <1>4, <2>3, <2>4
    <3>4. k + 1 >= 2
      BY <1>8
    <3> QED
      BY <3>1, <3>2, <3>3, <3>4 DEF BlockAt
  <2>6. k + 1 \in Nat /\ k + 1 < Len(b)
    BY <2>1, <1>1
  <2> QED
    BY <1>3, <1>4, <2>5, <2>6 DEF SignAt
<1>9. CASE k + 1 = Len(b)
  <2>1. x.to = "mecha" /\ x.cmd = "8F" /\ k >= 2
    BY <1>1, <1>2, <1>9
  <2>2. Len(mecha.got) = mecha.left /\ mecha' = mecha
    <3>1. x.cmd \in Reads
      BY <2>1 DEF Reads
    <3> QED
      BY <2>1, <3>1, MechaOn
  <2>3. mecha.auth /\ mecha.nth = n + 1
    BY <2>1, <2>2 DEF BlockAt
  <2>4. LoopAt(i + 1)'
    BY <1>1, <1>3, <1>4, <1>5, <1>9, <2>2, <2>3 DEF LoopAt
  <2> QED
    BY <1>3, <1>5, <2>4 DEF SignAt
<1> QED
  BY <1>1, <1>6, <1>7, <1>8, <1>9

(* Which exchange for the keys fills what. *)
LEMMA KeyGets ==
  ASSUME NEW f, NEW k, k = SecrDownloadKeys(f), NEW m \in 1 .. Len(k), k[m].to \in {"card", "mecha"}
  PROVE  /\ m \notin {1, 12, 23, 24, 25, 27}
         /\ k[m].to = "mecha" => k[m].cmd \in Reads
         /\ k[m].get = CASE m \in {2, 7} -> <<"Kbit1">>
                         [] m \in {3, 11} -> <<"Kbit2">>
                         [] m \in {13, 18} -> <<"Kc1">>
                         [] m \in {14, 22} -> <<"Kc2">>
                         [] m = 26 -> <<"icvps2">>
                         [] OTHER -> <<>>
<1> PICK e : e = k[m]
  OBVIOUS
<1>0. KeysStand(f, k)
  BY KeysAre
<1>1. \A c : Rpc(c).to = "rpc" /\ Self(c).to = "self"
  BY DEF Rpc, Self, Exchanged
<1>2. /\ kbit1.to = "mecha" /\ kbit1.cmd = "94" /\ kbit1.get = <<"Kbit1">>
      /\ kbit2.to = "mecha" /\ kbit2.cmd = "95" /\ kbit2.get = <<"Kbit2">>
      /\ kc1.to = "mecha" /\ kc1.cmd = "96" /\ kc1.get = <<"Kc1">>
      /\ kc2.to = "mecha" /\ kc2.cmd = "97" /\ kc2.get = <<"Kc2">>
      /\ get_icvps2.to = "mecha" /\ get_icvps2.cmd = "98" /\ get_icvps2.get = <<"icvps2">>
  BY DEF kbit1, kbit2, kc1, kc2, get_icvps2, ToMecha, Exchanged
<1>3. \A c, h : /\ card_auth(c).to = "card" /\ card_auth(c).get = <<>>
                /\ card_auth_write(h, c).to = "card" /\ card_auth_write(h, c).get = <<>>
                /\ card_auth_read(h, c).to = "card" /\ card_auth_read(h, c).get = <<h>>
  BY DEF card_auth, card_auth_write, card_auth_read, ToCard, Exchanged
<1>4. {"94", "95", "96", "97", "98"} \subseteq Reads
  BY DEF Reads
<1>5. e.to \in {"card", "mecha"} /\ Len(k) \in {24, 27} /\ m \in Int /\ 1 <= m /\ m <= Len(k)
  <2>1. e.to \in {"card", "mecha"}
    OBVIOUS
  <2>2. Len(k) = 24 \/ Len(k) = 27
    BY ONLY <1>0 DEF KeysStand
  <2>3. m \in 1 .. Len(k)
    OBVIOUS
  <2>4. m \in Int /\ 1 <= m /\ m <= Len(k)
    BY ONLY <2>2, <2>3
  <2> QED
    BY ONLY <2>1, <2>2, <2>4
<1>a. m \in 1 .. 27 /\ (Len(k) = 24 => m \in 1 .. 24)
  <2>1. CASE Len(k) = 24
    BY ONLY <1>5, <2>1
  <2>2. CASE Len(k) = 27
    BY ONLY <1>5, <2>2
  <2> QED
    BY ONLY <1>5, <2>1, <2>2
<1>6. f.icvps2 \/ Len(k) = 24
  BY ONLY <1>0 DEF KeysStand
<1>7. m \notin {1, 12, 23, 24, 25, 27}
  <2>1. f.icvps2 => k[25] = Rpc("icvps2") /\ k[27] = Self("store_icvps2")
    BY ONLY <1>0 DEF KeysStand
  <2>2. k[1] = Rpc("kbit") /\ k[12] = Rpc("kc") /\ k[23] = Self("store_kbit") /\ k[24] = Self("store_kc")
    BY ONLY <1>0 DEF KeysStand
  <2>3. m \in {25, 27} => f.icvps2
    BY ONLY <1>a, <1>6
  <2>4. k[m].to \in {"card", "mecha"}
    OBVIOUS
  <2> QED
    BY ONLY <1>1, <2>1, <2>2, <2>3, <2>4
<1>8. m \in {2, 3, 13, 14, 7, 11, 18, 22, 4, 5, 6, 8, 9, 10, 15, 16, 17, 19, 20, 21, 26}
  BY ONLY <1>a, <1>7
<1>9. /\ k[2] = kbit1 /\ k[3] = kbit2 /\ k[13] = kc1 /\ k[14] = kc2
      /\ k[7] = card_auth_read("Kbit1", "53") /\ k[11] = card_auth_read("Kbit2", "53")
      /\ k[18] = card_auth_read("Kc1", "53") /\ k[22] = card_auth_read("Kc2", "53")
  BY ONLY <1>0 DEF KeysStand
<1>10. CASE m \in {2, 3, 13, 14}
  <2>1. k[m].to = "mecha" /\ k[m].cmd \in Reads
    BY ONLY <1>2, <1>4, <1>9, <1>10
  <2>2. m = 2 \/ m = 3 \/ m = 13 \/ m = 14
    BY ONLY <1>10
  <2>3. CASE m = 2
    BY ONLY <1>2, <1>7, <1>9, <2>1, <2>3
  <2>4. CASE m = 3
    BY ONLY <1>2, <1>7, <1>9, <2>1, <2>4
  <2>5. CASE m = 13
    BY ONLY <1>2, <1>7, <1>9, <2>1, <2>5
  <2>6. CASE m = 14
    BY ONLY <1>2, <1>7, <1>9, <2>1, <2>6
  <2> QED
    BY ONLY <2>2, <2>3, <2>4, <2>5, <2>6
<1>11. CASE m \in {7, 11, 18, 22}
  <2>1. k[m].to = "card"
    BY ONLY <1>3, <1>9, <1>11
  <2>2. m = 7 \/ m = 11 \/ m = 18 \/ m = 22
    BY ONLY <1>11
  <2>3. CASE m = 7
    BY ONLY <1>3, <1>7, <1>9, <2>1, <2>3
  <2>4. CASE m = 11
    BY ONLY <1>3, <1>7, <1>9, <2>1, <2>4
  <2>5. CASE m = 18
    BY ONLY <1>3, <1>7, <1>9, <2>1, <2>5
  <2>6. CASE m = 22
    BY ONLY <1>3, <1>7, <1>9, <2>1, <2>6
  <2> QED
    BY ONLY <2>2, <2>3, <2>4, <2>5, <2>6
<1>12. CASE m \in {4, 5, 6, 8, 9, 10, 15, 16, 17, 19, 20, 21}
  <2>1. /\ k[4] = card_auth("50") /\ k[5] = card_auth_write("Kbit1", "51") /\ k[6] = card_auth("52")
        /\ k[8] = card_auth("50") /\ k[9] = card_auth_write("Kbit2", "51") /\ k[10] = card_auth("52")
        /\ k[15] = card_auth("50") /\ k[16] = card_auth_write("Kc1", "51") /\ k[17] = card_auth("52")
        /\ k[19] = card_auth("50") /\ k[20] = card_auth_write("Kc2", "51") /\ k[21] = card_auth("52")
    BY ONLY <1>0 DEF KeysStand
  <2>2. k[m].to = "card" /\ k[m].get = <<>>
    BY ONLY <1>3, <1>12, <2>1
  <2>3. m \notin {2, 7, 3, 11, 13, 18, 14, 22, 26}
    BY ONLY <1>12
  <2> QED
    BY ONLY <1>7, <2>2, <2>3
<1>13. CASE m = 26
  <2>1. f.icvps2
    BY ONLY <1>a, <1>6, <1>13
  <2>2. k[26] = get_icvps2
    BY ONLY <1>0, <2>1 DEF KeysStand
  <2> QED
    BY ONLY <1>2, <1>4, <1>7, <1>13, <2>2
<1> QED
  BY ONLY <1>8, <1>10, <1>11, <1>12, <1>13

(* What an exchange sends and stores of a local. *)
LEMMA SentOne ==
  ASSUME NEW h, x.units = <<>>, x.put = <<h>>
  PROVE  Sent[1] = loc[h]
<1> DEFINE u == [i \in DOMAIN x.units |-> IF x.units[i] = 0 THEN Noise ELSE buf[x.units[i]]]
           v == [i \in DOMAIN x.put |-> loc[x.put[i]]]
<1>1. u = <<>> /\ v = <<loc[h]>>
  OBVIOUS
<1>2. Sent = u \o v
  BY DEF Sent
<1> HIDE DEF u, v
<1> PICK a : a = <<loc[h]>>
  OBVIOUS
<1>3. IsSeq(<<>>) /\ IsSeq(a) /\ Len(a) = 1 /\ a[1] = loc[h] /\ Len(<<>>) = 0
  BY SeqFacts
<1> PICK z : z = <<>>
  OBVIOUS
<1>4. IsSeq(z) /\ IsSeq(a) /\ Len(a) = 1 /\ Len(z) = 0
  BY <1>3
<1>5. \A i \in 1 .. Len(a) : (z \o a)[Len(z) + i] = a[i]
  BY ONLY <1>4, ConcatAt
<1>6. (z \o a)[Len(z) + 1] = a[1]
  BY <1>4, <1>5
<1> QED
  BY <1>1, <1>2, <1>3, <1>4, <1>6

(* What an exchange stores under one name. *)
LEMMA FilledAt ==
  ASSUME NEW how, NEW h \in DOMAIN loc, loc' = Filled(how, TRUE)
  PROVE  /\ DOMAIN loc' = DOMAIN loc
         /\ (\A j \in DOMAIN x.get : x.get[j] # h) => loc'[h] = loc[h]
         /\ \A v : x.get = <<h>> /\ how = "done" /\ Device.out = <<v>> => loc'[h] = v
<1>1. DOMAIN loc' = DOMAIN loc /\ ((\A j \in DOMAIN x.get : x.get[j] # h) => loc'[h] = loc[h])
  BY DEF Filled
<1>2. ASSUME NEW v, x.get = <<h>>, how = "done", Device.out = <<v>> PROVE loc'[h] = v
  <2>1. DOMAIN x.get = {1} /\ x.get[1] = h
    BY <1>2
  <2>2. loc'[h] = GotAt(how, CHOOSE j \in DOMAIN x.get : x.get[j] = h)
    BY <2>1 DEF Filled
  <2>3. (CHOOSE j \in DOMAIN x.get : x.get[j] = h) = 1
    BY <2>1
  <2>4. loc'[h] = GotAt(how, 1)
    BY <2>2, <2>3
  <2> PICK out : out = Device.out
    OBVIOUS
  <2>5. 1 \in DOMAIN out /\ out[1] = v
    BY <1>2
  <2> QED
    BY <1>2, <2>4, <2>5 DEF GotAt
<1> QED
  BY <1>1, <1>2

(* A device answers a file's step: the card in the slot and the peer stay. *)
LEMMA SamePair ==
  ASSUME HInv, OfStart, fn \in {"sign", "boot"}, NEW how \in {"done", "lost", "unheard", "garbled"}, Exchange(how),
         fn' # "failed"
  PROVE  /\ (mecha'.auth <=> mecha.auth) /\ mecha'.peer = mecha.peer
         /\ (card'.auth <=> card.auth) /\ card'.id = card.id /\ card'.s = card.s
         /\ OfStart' /\ (x.to = "mecha" => card' = card)
         /\ file' = file /\ start' = start /\ buf' = buf /\ todo' = Tail(todo) /\ fn' = fn
<1>1. /\ todo' = Tail(todo) /\ fn' = fn /\ x.to \in {"card", "mecha"}
      /\ x.to = "card" => /\ mecha' = mecha /\ Device.ok /\ card' = Device.dev /\ x.cmd \in CardKeyCmds
      /\ x.to = "mecha" => card' = card
      /\ UNCHANGED <<file, buf, start>>
  BY FileExchangeOn, ExchangeStep DEF fileVars
<1>2. CASE x.to = "mecha"
  <2>1. (mecha'.auth <=> mecha.auth) /\ mecha'.peer = mecha.peer
    BY <1>2, MechaOn
  <2> QED
    BY <1>1, <1>2, <2>1 DEF OfStart
<1>3. CASE x.to = "card"
  <2> PICK a, cmd, in : a = Device /\ cmd = x.cmd /\ in = Sent
    OBVIOUS
  <2>1. a = CardDoes(card, cmd, in) /\ IsCard(card) /\ cmd \in CardKeyCmds /\ a.ok /\ card' = a.dev
    BY <1>1, <1>3 DEF Device, HInv, TypeInv
  <2>2. a.dev.id = card.id /\ a.dev.s = card.s /\ (a.dev.auth <=> card.auth)
    BY <2>1, CryptoStep
  <2> QED
    BY <1>1, <1>3, <2>1, <2>2 DEF OfStart
<1> QED
  BY <1>1, <1>2, <1>3

(* The card's part: what it is given and hands over. *)
LEMMA CardOn ==
  ASSUME HInv, fn \in {"sign", "boot"}, NEW how \in {"done", "lost", "unheard", "garbled"}, Exchange(how),
         fn' # "failed", NEW h
  PROVE  /\ \A cmd : x = card_auth_write(h, cmd) /\ cmd \in {"41", "51"} => card'.val = loc[h]
         /\ x = card_auth("42") => card'.val = DecryptFor(card, card.val)
         /\ x = card_auth("52") => card'.val = EncryptFor(card, card.val)
         /\ \A cmd : x = card_auth_read(h, cmd) /\ cmd \in {"43", "53"} =>
               how = "done" /\ Device.out = <<card.val>> /\ card.auth
<1> SUFFICES ASSUME x.to = "card"
             PROVE  /\ \A cmd : x = card_auth_write(h, cmd) /\ cmd \in {"41", "51"} => card'.val = loc[h]
                    /\ x = card_auth("42") => card'.val = DecryptFor(card, card.val)
                    /\ x = card_auth("52") => card'.val = EncryptFor(card, card.val)
                    /\ \A cmd : x = card_auth_read(h, cmd) /\ cmd \in {"43", "53"} =>
                          how = "done" /\ Device.out = <<card.val>> /\ card.auth
  BY DEF card_auth, card_auth_write, card_auth_read, ToCard, Exchanged
<1>1. how = "done" /\ Device.ok /\ card' = Device.dev /\ x.cmd \in CardKeyCmds
  BY FileExchangeOn
<1> PICK a, c, in : a = Device /\ c = x.cmd /\ in = Sent
  OBVIOUS
<1>2. a = CardDoes(card, c, in) /\ IsCard(card) /\ c \in CardKeyCmds /\ a.ok /\ card' = a.dev
  BY <1>1 DEF Device, HInv, TypeInv
<1>3. /\ card.auth
      /\ c \in {"41", "51"} => a.dev.val = in[1]
      /\ c = "42" => a.dev.val = DecryptFor(card, card.val)
      /\ c = "52" => a.dev.val = EncryptFor(card, card.val)
      /\ c \in {"43", "53"} => a.out = <<card.val>>
  BY <1>2, CryptoStep
<1>4. ASSUME NEW cmd, x = card_auth_write(h, cmd), cmd \in {"41", "51"} PROVE card'.val = loc[h]
  <2>1. x.cmd = cmd /\ x.units = <<>> /\ x.put = <<h>>
    BY <1>4 DEF card_auth_write, ToCard, Exchanged
  <2>2. Sent[1] = loc[h]
    BY <2>1, SentOne
  <2> QED
    BY <1>2, <1>3, <1>4, <2>1, <2>2
<1>5. \A cmd : card_auth(cmd).cmd = cmd /\ card_auth_read(h, cmd).cmd = cmd
  BY DEF card_auth, card_auth_read, ToCard, Exchanged
<1>6. x = card_auth("42") => c = "42"
  BY <1>5
<1>7. x = card_auth("52") => c = "52"
  BY <1>5
<1>8. ASSUME NEW cmd, x = card_auth_read(h, cmd), cmd \in {"43", "53"}
      PROVE  how = "done" /\ Device.out = <<card.val>> /\ card.auth
  <2>1. c = cmd
    BY <1>5, <1>8
  <2> QED
    BY <1>1, <1>3, <1>8, <2>1
<1> QED
  BY <1>2, <1>3, <1>4, <1>6, <1>7, <1>8

(* One key half goes on by an exchange. *)
LEMMA HalfOn ==
  ASSUME HInv, OfStart, fn = "sign", NEW how \in {"done", "lost", "unheard", "garbled"}, Exchange(how), fn' # "failed",
         mecha.auth, NEW h \in ToSet(Halves), NEW a \in Nat, NEW e \in Nat, a <= e, NEW n \in Nat, HalfAt(h, a, e, n),
         n + 1 = a => x.get = <<h>> /\ how = "done" /\ Device.out = <<Half(h, mecha.peer, file.keys)>>,
         n + 1 = e + 2 => x = card_auth_write(h, "51"),
         n + 1 = e + 3 => x = card_auth("52"),
         n + 1 = e + 4 => x = card_auth_read(h, "53"),
         n + 1 \notin {a, e + 4} => \A j \in DOMAIN x.get : x.get[j] # h
  PROVE  HalfAt(h, a, e, n + 1)'
<1>1. /\ mecha'.peer = mecha.peer /\ (card'.auth <=> card.auth) /\ card'.id = card.id
      /\ file' = file /\ start' = start
  BY SamePair
<1>2. h \in DOMAIN loc /\ loc' = Filled(how, TRUE)
  BY FileExchangeOn DEF HInv, TypeInv, LocalNames
<1>3. /\ (\A j \in DOMAIN x.get : x.get[j] # h) => loc'[h] = loc[h]
      /\ \A v : x.get = <<h>> /\ how = "done" /\ Device.out = <<v>> => loc'[h] = v
  BY <1>2, FilledAt
<1>4. a <= n + 1 /\ n + 1 < e + 4 => loc'[h] = Half(h, mecha.peer, file.keys)
  <2> SUFFICES ASSUME a <= n + 1, n + 1 < e + 4 PROVE loc'[h] = Half(h, mecha.peer, file.keys)
    OBVIOUS
  <2>1. CASE n + 1 = a
    BY <1>3, <2>1
  <2>2. CASE n + 1 # a
    <3>1. a <= n /\ n < e + 4 /\ n + 1 \notin {a, e + 4}
      BY <2>2
    <3>2. loc[h] = Half(h, mecha.peer, file.keys)
      BY <3>1 DEF HalfAt
    <3> QED
      BY <1>3, <3>1, <3>2
  <2> QED
    BY <2>1, <2>2
<1>5. e + 4 <= n + 1 => loc'[h] = Bound(h, start, file)
  <2> SUFFICES ASSUME e + 4 <= n + 1 PROVE loc'[h] = Bound(h, start, file)
    OBVIOUS
  <2>1. CASE n + 1 = e + 4
    <3>1. x = card_auth_read(h, "53") /\ n = e + 3
      BY <2>1
    <3>2. how = "done" /\ Device.out = <<card.val>> /\ card.auth
      BY <3>1, CardOn
    <3>3. x.get = <<h>>
      BY <3>1 DEF card_auth_read, ToCard, Exchanged
    <3>4. loc'[h] = card.val
      BY <1>3, <3>2, <3>3
    <3> QED
      BY <3>1, <3>2, <3>4 DEF HalfAt
  <2>2. CASE n + 1 # e + 4
    <3>1. e + 4 <= n /\ n + 1 \notin {a, e + 4}
      BY <2>2
    <3> QED
      BY <1>3, <3>1 DEF HalfAt
  <2> QED
    BY <2>1, <2>2
<1>6. n + 1 = e + 2 /\ card'.auth => card'.val = Half(h, mecha.peer, file.keys)
  <2> SUFFICES ASSUME n + 1 = e + 2 PROVE card'.val = Half(h, mecha.peer, file.keys)
    OBVIOUS
  <2>1. a <= n /\ n < e + 4
    OBVIOUS
  <2>2. card'.val = loc[h]
    BY CardOn
  <2> QED
    BY <2>1, <2>2 DEF HalfAt
<1>7. n + 1 = e + 3 /\ card'.auth => card'.val = Bound(h, start, file)
  <2> SUFFICES ASSUME n + 1 = e + 3, card.auth PROVE card'.val = Bound(h, start, file)
    BY <1>1
  <2>1. card'.val = EncryptFor(card, card.val)
    BY CardOn
  <2>2. card.val = Half(h, mecha.peer, file.keys) /\ mecha.peer = card.s /\ card.id = start
    BY DEF HalfAt, HInv, PairInv, OfStart
  <2> PICK c, p, ks : c = card /\ p = mecha.peer /\ ks = file.keys
    OBVIOUS
  <2>3. EncryptFor(c, Half(h, p, ks)) = [n |-> h, card |-> c.id, keys |-> ks]
    BY <2>2, Crypts
  <2> QED
    BY <2>1, <2>2, <2>3 DEF Bound
<1> QED
  BY <1>1, <1>4, <1>5, <1>6, <1>7 DEF HalfAt

(* Where the exchange for the keys stands. *)
LEMMA KeyFront ==
  ASSUME NEW n \in 0 .. KeyCount(file), NEW k, k = SecrDownloadKeys(file), todo = After(k, n)
  PROVE  /\ IsSeq(k) /\ Len(k) = KeyCount(file) /\ n \in Nat /\ KeyCount(file) \in Nat
         /\ todo # <<>> => n < Len(k) /\ n + 1 \in 1 .. Len(k) /\ x = k[n + 1] /\ Tail(todo) = After(k, n + 1)
         /\ todo = <<>> => n = KeyCount(file)
<1>0. KeysStand(file, k)
  BY KeysAre
<1>1. IsSeq(k) /\ Len(k) = KeyCount(file)
  BY ONLY <1>0 DEF KeysStand, KeyCount
<1>2. KeyCount(file) \in Nat
  BY DEF KeyCount
<1> PICK c : c = KeyCount(file)
  OBVIOUS
<1>3. c \in Nat /\ n \in 0 .. c /\ Len(k) = c
  BY <1>1, <1>2
<1>4. n \in Nat /\ n <= c /\ (n # c => n < c /\ n + 1 \in 1 .. c)
  BY ONLY <1>3
<1>5. PICK S : k \in Seq(S)
  BY <1>1 DEF IsSeq
<1>6. n < Len(k) => After(k, n) # <<>> /\ Head(After(k, n)) = k[n + 1] /\ Tail(After(k, n)) = After(k, n + 1)
  <2> SUFFICES ASSUME n < Len(k)
               PROVE  After(k, n) # <<>> /\ Head(After(k, n)) = k[n + 1] /\ Tail(After(k, n)) = After(k, n + 1)
    OBVIOUS
  <2>1. k \in Seq(S) /\ n \in Nat /\ n < Len(k)
    BY <1>4, <1>5
  <2> QED
    BY ONLY <2>1, SuffixStep
<1>7. After(k, Len(k)) = <<>>
  BY <1>1, Fronts
<1>8. n = c => todo = <<>>
  BY <1>3, <1>7
<1>9. n # c => todo # <<>> /\ x = k[n + 1] /\ Tail(todo) = After(k, n + 1)
  BY <1>3, <1>4, <1>6 DEF x
<1> QED
  BY <1>1, <1>2, <1>3, <1>4, <1>8, <1>9

(* An exchange for the keys moves each half one step on. *)
LEMMA KeysExchange ==
  ASSUME HInv, OfStart, fn = "sign", NEW how \in {"done", "lost", "unheard", "garbled"}, Exchange(how), fn' # "failed",
         NEW n \in 0 .. KeyCount(file), KeysAt(n)
  PROVE  SignAt'
<1> PICK k : k = SecrDownloadKeys(file)
  OBVIOUS
<1>1. todo # <<>> /\ x.to \in {"card", "mecha"}
  BY ExchangeStep
<1>2. /\ Len(k) = KeyCount(file) /\ n \in Nat /\ KeyCount(file) \in Nat
      /\ n < Len(k) /\ n + 1 \in 1 .. Len(k) /\ x = k[n + 1] /\ Tail(todo) = After(k, n + 1)
  <2>1. todo = After(k, n)
    BY DEF KeysAt
  <2> QED
    BY <1>1, <2>1, KeyFront
<1>3. /\ n + 1 \notin {1, 12, 23, 24, 25, 27}
      /\ x.to = "mecha" => x.cmd \in Reads
      /\ x.get = CASE n + 1 \in {2, 7} -> <<"Kbit1">>
                   [] n + 1 \in {3, 11} -> <<"Kbit2">>
                   [] n + 1 \in {13, 18} -> <<"Kc1">>
                   [] n + 1 \in {14, 22} -> <<"Kc2">>
                   [] n + 1 = 26 -> <<"icvps2">>
                   [] OTHER -> <<>>
  <2> PICK m : m = n + 1
    OBVIOUS
  <2>1. m \in 1 .. Len(k) /\ k[m].to \in {"card", "mecha"}
    BY <1>1, <1>2
  <2>2. /\ m \notin {1, 12, 23, 24, 25, 27}
        /\ k[m].to = "mecha" => k[m].cmd \in Reads
        /\ k[m].get = CASE m \in {2, 7} -> <<"Kbit1">>
                        [] m \in {3, 11} -> <<"Kbit2">>
                        [] m \in {13, 18} -> <<"Kc1">>
                        [] m \in {14, 22} -> <<"Kc2">>
                        [] m = 26 -> <<"icvps2">>
                        [] OTHER -> <<>>
    BY <2>1, KeyGets
  <2> QED
    BY <1>2, <2>2
<1>4. /\ n + 1 \in {2, 7} => x.get = <<"Kbit1">>
      /\ n + 1 \in {3, 11} => x.get = <<"Kbit2">>
      /\ n + 1 \in {13, 18} => x.get = <<"Kc1">>
      /\ n + 1 \in {14, 22} => x.get = <<"Kc2">>
      /\ n + 1 = 26 => x.get = <<"icvps2">>
      /\ n + 1 \notin {2, 7, 3, 11, 13, 18, 14, 22, 26} => x.get = <<>>
  <2>1. PICK m \in Nat : m = n + 1
    BY <1>2
  <2>2. x.get = CASE m \in {2, 7} -> <<"Kbit1">>
                  [] m \in {3, 11} -> <<"Kbit2">>
                  [] m \in {13, 18} -> <<"Kc1">>
                  [] m \in {14, 22} -> <<"Kc2">>
                  [] m = 26 -> <<"icvps2">>
                  [] OTHER -> <<>>
    BY ONLY <1>3, <2>1
  <2>3. m \in {2, 7} => x.get = <<"Kbit1">>
    BY ONLY <2>2, m \in Nat
  <2>4. m \in {3, 11} => x.get = <<"Kbit2">>
    BY ONLY <2>2, m \in Nat
  <2>5. m \in {13, 18} => x.get = <<"Kc1">>
    BY ONLY <2>2, m \in Nat
  <2>6. m \in {14, 22} => x.get = <<"Kc2">>
    BY ONLY <2>2, m \in Nat
  <2>7. m = 26 => x.get = <<"icvps2">>
    BY ONLY <2>2, m \in Nat
  <2>8. m \notin {2, 7, 3, 11, 13, 18, 14, 22, 26} => x.get = <<>>
    BY ONLY <2>2, m \in Nat
  <2> QED
    BY ONLY <2>1, <2>3, <2>4, <2>5, <2>6, <2>7, <2>8
<1>5. /\ n + 1 \notin {2, 7} => \A j \in DOMAIN x.get : x.get[j] # "Kbit1"
      /\ n + 1 \notin {3, 11} => \A j \in DOMAIN x.get : x.get[j] # "Kbit2"
      /\ n + 1 \notin {13, 18} => \A j \in DOMAIN x.get : x.get[j] # "Kc1"
      /\ n + 1 \notin {14, 22} => \A j \in DOMAIN x.get : x.get[j] # "Kc2"
  <2>1. \A v : \A j \in DOMAIN <<v>> : <<v>>[j] = v
    OBVIOUS
  <2>2. DOMAIN <<>> = {}
    OBVIOUS
  <2>3. \/ x.get = <<>>
        \/ \E v \in {"Kbit1", "Kbit2", "Kc1", "Kc2", "icvps2"} :
             /\ x.get = <<v>>
             /\ n + 1 \notin {2, 7} => v # "Kbit1"
             /\ n + 1 \notin {3, 11} => v # "Kbit2"
             /\ n + 1 \notin {13, 18} => v # "Kc1"
             /\ n + 1 \notin {14, 22} => v # "Kc2"
    BY ONLY <1>4
  <2>4. CASE x.get = <<>>
    BY ONLY <2>2, <2>4
  <2>5. ASSUME NEW v \in {"Kbit1", "Kbit2", "Kc1", "Kc2", "icvps2"}, x.get = <<v>>
        PROVE  \A j \in DOMAIN x.get : x.get[j] = v
    BY ONLY <2>1, <2>5
  <2> QED
    BY ONLY <2>3, <2>4, <2>5
<1>6. /\ n + 1 = 2 => x = kbit1
      /\ n + 1 = 3 => x = kbit2
      /\ n + 1 = 13 => x = kc1
      /\ n + 1 = 14 => x = kc2
      /\ n + 1 = 5 => x = card_auth_write("Kbit1", "51")
      /\ n + 1 = 6 => x = card_auth("52")
      /\ n + 1 = 7 => x = card_auth_read("Kbit1", "53")
      /\ n + 1 = 9 => x = card_auth_write("Kbit2", "51")
      /\ n + 1 = 10 => x = card_auth("52")
      /\ n + 1 = 11 => x = card_auth_read("Kbit2", "53")
      /\ n + 1 = 16 => x = card_auth_write("Kc1", "51")
      /\ n + 1 = 17 => x = card_auth("52")
      /\ n + 1 = 18 => x = card_auth_read("Kc1", "53")
      /\ n + 1 = 20 => x = card_auth_write("Kc2", "51")
      /\ n + 1 = 21 => x = card_auth("52")
      /\ n + 1 = 22 => x = card_auth_read("Kc2", "53")
  <2>1. KeysStand(file, k)
    BY KeysAre
  <2>2. x = k[n + 1]
    BY <1>2
  <2> QED
    BY ONLY <2>1, <2>2 DEF KeysStand
<1>7. /\ n + 1 = 2 => how = "done" /\ Device.out = <<Half("Kbit1", mecha.peer, file.keys)>>
      /\ n + 1 = 3 => how = "done" /\ Device.out = <<Half("Kbit2", mecha.peer, file.keys)>>
      /\ n + 1 = 13 => how = "done" /\ Device.out = <<Half("Kc1", mecha.peer, file.keys)>>
      /\ n + 1 = 14 => how = "done" /\ Device.out = <<Half("Kc2", mecha.peer, file.keys)>>
  <2>1. /\ kbit1.to = "mecha" /\ kbit1.cmd = "94" /\ kbit2.to = "mecha" /\ kbit2.cmd = "95"
        /\ kc1.to = "mecha" /\ kc1.cmd = "96" /\ kc2.to = "mecha" /\ kc2.cmd = "97"
    BY DEF kbit1, kbit2, kc1, kc2, ToMecha, Exchanged
  <2>2. n + 1 = 2 => x.to = "mecha" /\ x.cmd = "94"
    BY ONLY <1>6, <2>1
  <2>3. n + 1 = 3 => x.to = "mecha" /\ x.cmd = "95"
    BY ONLY <1>6, <2>1
  <2>4. n + 1 = 13 => x.to = "mecha" /\ x.cmd = "96"
    BY ONLY <1>6, <2>1
  <2>5. n + 1 = 14 => x.to = "mecha" /\ x.cmd = "97"
    BY ONLY <1>6, <2>1
  <2> QED
    BY <2>2, <2>3, <2>4, <2>5, MechaOn
<1>8. mecha.auth /\ HalfAt("Kbit1", 2, 3, n) /\ HalfAt("Kbit2", 3, 7, n) /\ HalfAt("Kc1", 13, 14, n) /\ HalfAt("Kc2", 14, 18, n)
  BY DEF KeysAt
<1>9. HalfAt("Kbit1", 2, 3, n + 1)'
  <2> PICK h, a, e : h = "Kbit1" /\ a = 2 /\ e = 3
    OBVIOUS
  <2>1. /\ h \in ToSet(Halves) /\ a \in Nat /\ e \in Nat /\ a <= e /\ HalfAt(h, a, e, n)
        /\ n + 1 = a => x.get = <<h>> /\ how = "done" /\ Device.out = <<Half(h, mecha.peer, file.keys)>>
        /\ n + 1 = e + 2 => x = card_auth_write(h, "51")
        /\ n + 1 = e + 3 => x = card_auth("52")
        /\ n + 1 = e + 4 => x = card_auth_read(h, "53")
        /\ n + 1 \notin {a, e + 4} => \A j \in DOMAIN x.get : x.get[j] # h
    BY <1>4, <1>5, <1>6, <1>7, <1>8, HalvesAre
  <2>2. HalfAt(h, a, e, n + 1)'
    BY ONLY <1>2, <1>8, <2>1, HInv, OfStart, fn = "sign", Exchange(how), fn' # "failed",
      how \in {"done", "lost", "unheard", "garbled"}, HalfOn
  <2> QED
    BY <2>2
<1>10. HalfAt("Kbit2", 3, 7, n + 1)'
  <2> PICK h, a, e : h = "Kbit2" /\ a = 3 /\ e = 7
    OBVIOUS
  <2>1. /\ h \in ToSet(Halves) /\ a \in Nat /\ e \in Nat /\ a <= e /\ HalfAt(h, a, e, n)
        /\ n + 1 = a => x.get = <<h>> /\ how = "done" /\ Device.out = <<Half(h, mecha.peer, file.keys)>>
        /\ n + 1 = e + 2 => x = card_auth_write(h, "51")
        /\ n + 1 = e + 3 => x = card_auth("52")
        /\ n + 1 = e + 4 => x = card_auth_read(h, "53")
        /\ n + 1 \notin {a, e + 4} => \A j \in DOMAIN x.get : x.get[j] # h
    BY <1>4, <1>5, <1>6, <1>7, <1>8, HalvesAre
  <2>2. HalfAt(h, a, e, n + 1)'
    BY ONLY <1>2, <1>8, <2>1, HInv, OfStart, fn = "sign", Exchange(how), fn' # "failed",
      how \in {"done", "lost", "unheard", "garbled"}, HalfOn
  <2> QED
    BY <2>2
<1>11. HalfAt("Kc1", 13, 14, n + 1)'
  <2> PICK h, a, e : h = "Kc1" /\ a = 13 /\ e = 14
    OBVIOUS
  <2>1. /\ h \in ToSet(Halves) /\ a \in Nat /\ e \in Nat /\ a <= e /\ HalfAt(h, a, e, n)
        /\ n + 1 = a => x.get = <<h>> /\ how = "done" /\ Device.out = <<Half(h, mecha.peer, file.keys)>>
        /\ n + 1 = e + 2 => x = card_auth_write(h, "51")
        /\ n + 1 = e + 3 => x = card_auth("52")
        /\ n + 1 = e + 4 => x = card_auth_read(h, "53")
        /\ n + 1 \notin {a, e + 4} => \A j \in DOMAIN x.get : x.get[j] # h
    BY <1>4, <1>5, <1>6, <1>7, <1>8, HalvesAre
  <2>2. HalfAt(h, a, e, n + 1)'
    BY ONLY <1>2, <1>8, <2>1, HInv, OfStart, fn = "sign", Exchange(how), fn' # "failed",
      how \in {"done", "lost", "unheard", "garbled"}, HalfOn
  <2> QED
    BY <2>2
<1>12. HalfAt("Kc2", 14, 18, n + 1)'
  <2> PICK h, a, e : h = "Kc2" /\ a = 14 /\ e = 18
    OBVIOUS
  <2>1. /\ h \in ToSet(Halves) /\ a \in Nat /\ e \in Nat /\ a <= e /\ HalfAt(h, a, e, n)
        /\ n + 1 = a => x.get = <<h>> /\ how = "done" /\ Device.out = <<Half(h, mecha.peer, file.keys)>>
        /\ n + 1 = e + 2 => x = card_auth_write(h, "51")
        /\ n + 1 = e + 3 => x = card_auth("52")
        /\ n + 1 = e + 4 => x = card_auth_read(h, "53")
        /\ n + 1 \notin {a, e + 4} => \A j \in DOMAIN x.get : x.get[j] # h
    BY <1>4, <1>5, <1>6, <1>7, <1>8, HalvesAre
  <2>2. HalfAt(h, a, e, n + 1)'
    BY ONLY <1>2, <1>8, <2>1, HInv, OfStart, fn = "sign", Exchange(how), fn' # "failed",
      how \in {"done", "lost", "unheard", "garbled"}, HalfOn
  <2> QED
    BY <2>2
<1>13. /\ mecha' = mecha /\ todo' = Tail(todo) /\ file' = file /\ buf' = buf /\ start' = start
  <2>1. x.to = "mecha" => mecha' = mecha
    BY <1>3, MechaOn
  <2>2. x.to = "card" => mecha' = mecha
    BY FileExchangeOn
  <2> QED
    BY <1>1, <2>1, <2>2, SamePair
<1>14. BufAt(n + 1)'
  <2>1. BufAt(n) /\ (n + 1 >= 23 => n >= 23) /\ (n + 1 >= 24 => n >= 24)
    BY <1>2, <1>3 DEF KeysAt
  <2> QED
    BY <1>13, <2>1 DEF BufAt, BoundAt
<1>15. KeysAt(n + 1)'
  <2>1. (todo = After(SecrDownloadKeys(file), n + 1))' /\ (mecha.auth /\ mecha.nth = Cardinality(Signed(file)))'
    BY <1>2, <1>13 DEF KeysAt
  <2> QED
    BY <2>1, <1>9, <1>10, <1>11, <1>12, <1>14 DEF KeysAt
<1>16. n + 1 \in 0 .. KeyCount(file')
  <2> PICK c : c = KeyCount(file)
    OBVIOUS
  <2>1. c \in Nat /\ n \in Nat /\ n < c
    BY <1>2
  <2>2. n + 1 \in 0 .. c
    BY ONLY <2>1
  <2> QED
    BY <1>13, <2>2
<1> QED
  BY <1>15, <1>16 DEF SignAt

(* The steps for the keys that reach no device. *)
LEMMA KeyInner ==
  ASSUME NEW f, NEW k, k = SecrDownloadKeys(f), NEW m \in 1 .. Len(k), k[m].to \in {"rpc", "self"}
  PROVE  \/ m \in {1, 12, 25} /\ k[m].to = "rpc"
         \/ m = 23 /\ k[m] = Self("store_kbit")
         \/ m = 24 /\ k[m] = Self("store_kc")
         \/ m = 27 /\ f.icvps2 /\ k[m] = Self("store_icvps2")
<1>0. KeysStand(f, k)
  BY KeysAre
<1>1. \A c : Rpc(c).to = "rpc" /\ Self(c).to = "self"
  BY DEF Rpc, Self, Exchanged
<1>2. kbit1.to = "mecha" /\ kbit2.to = "mecha" /\ kc1.to = "mecha" /\ kc2.to = "mecha" /\ get_icvps2.to = "mecha"
  BY DEF kbit1, kbit2, kc1, kc2, get_icvps2, ToMecha, Exchanged
<1>3. \A c, h : card_auth(c).to = "card" /\ card_auth_write(h, c).to = "card" /\ card_auth_read(h, c).to = "card"
  BY DEF card_auth, card_auth_write, card_auth_read, ToCard, Exchanged
<1>4. \/ Len(k) = 24
      \/ Len(k) = 27 /\ f.icvps2 /\ k[25] = Rpc("icvps2") /\ k[26] = get_icvps2 /\ k[27] = Self("store_icvps2")
  BY ONLY <1>0 DEF KeysStand
<1>5. m \in 1 .. 24 \/ (m \in {25, 26, 27} /\ Len(k) = 27)
  <2>1. m \in 1 .. Len(k)
    OBVIOUS
  <2>2. CASE Len(k) = 24
    BY ONLY <2>1, <2>2
  <2>3. CASE Len(k) = 27
    <3>1. m \in 1 .. 27
      BY ONLY <2>1, <2>3
    <3> QED
      BY ONLY <3>1, <2>3
  <2> QED
    BY ONLY <1>4, <2>2, <2>3
<1>6. k[m].to \in {"rpc", "self"}
  OBVIOUS
<1>7. CASE m \in {25, 26, 27} /\ Len(k) = 27
  <2>1. f.icvps2 /\ k[25] = Rpc("icvps2") /\ k[26] = get_icvps2 /\ k[27] = Self("store_icvps2")
    BY ONLY <1>4, <1>7
  <2> QED
    BY ONLY <1>1, <1>2, <1>6, <1>7, <2>1
<1>8. CASE m \in 1 .. 24
  <2>1. m \notin {2, 3, 13, 14}
    <3>1. k[2] = kbit1 /\ k[3] = kbit2 /\ k[13] = kc1 /\ k[14] = kc2
      BY ONLY <1>0 DEF KeysStand
    <3> QED
      BY ONLY <1>2, <1>6, <3>1
  <2>2. m \notin {4, 5, 6, 7, 8, 9, 10, 11}
    <3>1. /\ k[4] = card_auth("50") /\ k[5] = card_auth_write("Kbit1", "51") /\ k[6] = card_auth("52")
          /\ k[7] = card_auth_read("Kbit1", "53")
          /\ k[8] = card_auth("50") /\ k[9] = card_auth_write("Kbit2", "51") /\ k[10] = card_auth("52")
          /\ k[11] = card_auth_read("Kbit2", "53")
      BY ONLY <1>0 DEF KeysStand
    <3> QED
      BY ONLY <1>3, <1>6, <3>1
  <2>3. m \notin {15, 16, 17, 18, 19, 20, 21, 22}
    <3>1. /\ k[15] = card_auth("50") /\ k[16] = card_auth_write("Kc1", "51") /\ k[17] = card_auth("52")
          /\ k[18] = card_auth_read("Kc1", "53")
          /\ k[19] = card_auth("50") /\ k[20] = card_auth_write("Kc2", "51") /\ k[21] = card_auth("52")
          /\ k[22] = card_auth_read("Kc2", "53")
      BY ONLY <1>0 DEF KeysStand
    <3> QED
      BY ONLY <1>3, <1>6, <3>1
  <2>4. m \in {1, 12, 23, 24}
    BY ONLY <1>8, <2>1, <2>2, <2>3
  <2>5. k[1] = Rpc("kbit") /\ k[12] = Rpc("kc") /\ k[23] = Self("store_kbit") /\ k[24] = Self("store_kc")
    BY ONLY <1>0 DEF KeysStand
  <2> QED
    BY ONLY <1>1, <2>4, <2>5
<1> QED
  BY ONLY <1>5, <1>7, <1>8

(* Where a step that reaches no device stands when a file is signed. *)
KeyInside(n) ==
    /\ KeysAt(n) /\ n \in Nat /\ n + 1 \in 0 .. KeyCount(file) /\ Tail(todo) = After(SecrDownloadKeys(file), n + 1)
    /\ \/ n \in {0, 11, 24} /\ x.to = "rpc"
       \/ n = 22 /\ x = Self("store_kbit")
       \/ n = 23 /\ x = Self("store_kc")
       \/ n = 26 /\ file.icvps2 /\ x = Self("store_icvps2")

(* A step that reaches no device: where it stands, and what is left after it. *)
LEMMA InnerAt ==
  ASSUME HInv, fn = "sign", SignAt, todo # <<>>, x.to \in {"rpc", "self"}
  PROVE  \/ x.to = "rpc" /\ HeaderAt(0) /\ Tail(todo) = After(SecrDownloadHeader(file), 1) \o Loop(1)
         \/ x.to = "rpc" /\ \E i \in Signed(file) : BlockAt(i, 0) /\ Tail(todo) = After(SecrDownloadBlock(file, i), 1) \o Loop(i + 1)
         \/ x.to = "self" /\ x.cmd = "toolong"
         \/ \E i \in 1 .. Len(file.blocks) + 1 : LoopAt(i) /\ x = Blocks(i)
         \/ \E n \in 0 .. KeyCount(file) : KeyInside(n)
<1>1. ASSUME NEW n \in Nat, n < Len(SecrDownloadHeader(file)), HeaderAt(n)
      PROVE  x.to = "rpc" /\ HeaderAt(0) /\ Tail(todo) = After(SecrDownloadHeader(file), 1) \o Loop(1)
  <2> PICK h, t : h = SecrDownloadHeader(file) /\ t = Loop(1)
    OBVIOUS
  <2>1. /\ IsSeq(h) /\ Len(h) \in Nat /\ Len(h) > 2
        /\ h[1] = Rpc("header") /\ h[2] = write_HD_start(2, file)
        /\ \A k \in 3 .. Len(h) : h[k].to = "mecha"
    BY SignHeaderAt DEF HInv, TypeInv
  <2>2. IsSeq(h) /\ IsSeq(t) /\ n \in Nat /\ n < Len(h)
    BY <1>1, <2>1, LoopIs
  <2>3. Head(After(h, n) \o t) = h[n + 1] /\ Tail(After(h, n) \o t) = After(h, n + 1) \o t
    BY ONLY <2>2, FrontStep
  <2>4. x = h[n + 1] /\ Tail(todo) = After(h, n + 1) \o t
    BY <1>1, <2>3 DEF HeaderAt, x
  <2>5. write_HD_start(2, file).to = "mecha"
    BY DEF write_HD_start, Numbered, ToMecha, Exchanged
  <2>6. n = 0
    <3>1. n # 1
      BY <2>1, <2>4, <2>5
    <3>2. n + 1 \notin 3 .. Len(h)
      BY <2>1, <2>4
    <3> QED
      BY <2>1, <2>2, <3>1, <3>2
  <2>7. Rpc("header").to = "rpc"
    BY DEF Rpc, Exchanged
  <2>8. 0 + 1 = 1
    OBVIOUS
  <2>9. x.to = "rpc" /\ HeaderAt(0)
    BY ONLY <1>1, <2>1, <2>4, <2>6, <2>7, <2>8
  <2>10. Tail(todo) = After(h, 1) \o t
    BY ONLY <2>4, <2>6, <2>8
  <2> QED
    BY <2>9, <2>10
<1>2. ASSUME NEW i \in 1 .. Len(file.blocks) + 1, LoopAt(i) PROVE x = Blocks(i)
  BY <1>2, LoopIs DEF LoopAt, x
<1>3. ASSUME NEW i \in Signed(file), NEW k \in Nat, k < Len(SecrDownloadBlock(file, i)), BlockAt(i, k)
      PROVE  \/ x.to = "rpc" /\ BlockAt(i, 0) /\ Tail(todo) = After(SecrDownloadBlock(file, i), 1) \o Loop(i + 1)
             \/ x.to = "self" /\ x.cmd = "toolong"
  <2> PICK b, t : b = SecrDownloadBlock(file, i) /\ t = Loop(i + 1)
    OBVIOUS
  <2>1. /\ i \in DOMAIN file.blocks /\ file \in Files
        /\ IsSeq(b) /\ Len(b) \in Nat /\ Len(b) > 3
        /\ x = b[k + 1] /\ Tail(todo) = After(b, k + 1) \o t
    BY <1>3, BlockFront DEF BlockAt
  <2>2. /\ b[1] = Rpc("block") /\ b[2].to = "mecha" /\ b[Len(b)].to = "mecha"
        /\ \A j \in 3 .. Len(b) - 1 : Poured(b[j])
    BY <2>1, SignBlockAt
  <2>3. k # 1 /\ k + 1 # Len(b)
    BY <2>1, <2>2
  <2>4. CASE k = 0
    <3>1. Rpc("block").to = "rpc"
      BY DEF Rpc, Exchanged
    <3> QED
      BY <1>3, <2>1, <2>2, <2>4, <3>1
  <2>5. CASE k # 0
    <3>1. k + 1 \in 3 .. Len(b) - 1
      BY <1>3, <2>1, <2>3, <2>5
    <3> QED
      BY <2>1, <2>2, <3>1 DEF Poured
  <2> QED
    BY <2>4, <2>5
<1>4. ASSUME NEW n \in 0 .. KeyCount(file), KeysAt(n) PROVE KeyInside(n)
  <2> PICK k, m : k = SecrDownloadKeys(file) /\ m = n + 1
    OBVIOUS
  <2>1. /\ Len(k) = KeyCount(file) /\ n \in Nat /\ KeyCount(file) \in Nat
        /\ n < Len(k) /\ n + 1 \in 1 .. Len(k) /\ x = k[n + 1] /\ Tail(todo) = After(k, n + 1)
    <3>1. todo = After(k, n)
      BY <1>4 DEF KeysAt
    <3> QED
      BY <3>1, KeyFront
  <2>2. m \in 1 .. Len(k) /\ k[m].to \in {"rpc", "self"}
    BY <2>1
  <2>3. \/ m \in {1, 12, 25} /\ k[m].to = "rpc"
        \/ m = 23 /\ k[m] = Self("store_kbit")
        \/ m = 24 /\ k[m] = Self("store_kc")
        \/ m = 27 /\ file.icvps2 /\ k[m] = Self("store_icvps2")
    BY <2>2, KeyInner
  <2>4. n + 1 \in 0 .. KeyCount(file)
    BY <2>1
  <2> QED
    BY <1>4, <2>1, <2>3, <2>4 DEF KeyInside
<1> QED
  BY <1>1, <1>2, <1>3, <1>4 DEF SignAt

(* A step that reaches no device moves the keys on too. *)
LEMMA HalfStays ==
  ASSUME NEW h, NEW a \in Nat, NEW e \in Nat, NEW n \in Nat, HalfAt(h, a, e, n), n + 1 \notin {a, e + 2, e + 3, e + 4},
         UNCHANGED <<loc, mecha, card, file, start>>
  PROVE  HalfAt(h, a, e, n + 1)'
<1>1. /\ a <= n + 1 /\ n + 1 < e + 4 => a <= n /\ n < e + 4
      /\ e + 4 <= n + 1 => e + 4 <= n
      /\ n + 1 # e + 2 /\ n + 1 # e + 3
  OBVIOUS
<1> QED
  BY <1>1 DEF HalfAt

(* Such a step changes no half of a key: the keys have come one step further. *)
LEMMA KeysStay ==
  ASSUME NEW n \in Nat, KeysAt(n), n \in {0, 11, 22, 23, 24, 26}, Tail(todo) = After(SecrDownloadKeys(file), n + 1),
         todo' = Tail(todo), UNCHANGED <<loc, mecha, card, file, start>>, BufAt(n + 1)'
  PROVE  KeysAt(n + 1)'
<1>1. HalfAt("Kbit1", 2, 3, n + 1)' /\ HalfAt("Kbit2", 3, 7, n + 1)'
  <2>1. HalfAt("Kbit1", 2, 3, n) /\ HalfAt("Kbit2", 3, 7, n)
    BY DEF KeysAt
  <2> PICK h, g, a, e, b, d : h = "Kbit1" /\ g = "Kbit2" /\ a = 2 /\ e = 3 /\ b = 3 /\ d = 7
    OBVIOUS
  <2>2. /\ a \in Nat /\ e \in Nat /\ HalfAt(h, a, e, n) /\ n + 1 \notin {a, e + 2, e + 3, e + 4}
        /\ b \in Nat /\ d \in Nat /\ HalfAt(g, b, d, n) /\ n + 1 \notin {b, d + 2, d + 3, d + 4}
    BY <2>1
  <2>3. HalfAt(h, a, e, n + 1)' /\ HalfAt(g, b, d, n + 1)'
    BY <2>2, HalfStays
  <2> QED
    BY <2>3
<1>2. HalfAt("Kc1", 13, 14, n + 1)' /\ HalfAt("Kc2", 14, 18, n + 1)'
  <2>1. HalfAt("Kc1", 13, 14, n) /\ HalfAt("Kc2", 14, 18, n)
    BY DEF KeysAt
  <2> PICK h, g, a, e, b, d : h = "Kc1" /\ g = "Kc2" /\ a = 13 /\ e = 14 /\ b = 14 /\ d = 18
    OBVIOUS
  <2>2. /\ a \in Nat /\ e \in Nat /\ HalfAt(h, a, e, n) /\ n + 1 \notin {a, e + 2, e + 3, e + 4}
        /\ b \in Nat /\ d \in Nat /\ HalfAt(g, b, d, n) /\ n + 1 \notin {b, d + 2, d + 3, d + 4}
    BY <2>1
  <2>3. HalfAt(h, a, e, n + 1)' /\ HalfAt(g, b, d, n + 1)'
    BY <2>2, HalfStays
  <2> QED
    BY <2>3
<1>3. (todo = After(SecrDownloadKeys(file), n + 1))' /\ (mecha.auth /\ mecha.nth = Cardinality(Signed(file)))'
  BY DEF KeysAt
<1> QED
  BY <1>1, <1>2, <1>3 DEF KeysAt

(* The steps of signing that reach no device: calls of secrsif, ... *)
LEMMA SignRpc ==
  ASSUME HInv, KInv, fn = "sign", NEW ok \in BOOLEAN, RpcStep(ok)
  PROVE  SignInv'
<1>1. /\ todo # <<>> /\ x.to = "rpc" /\ Next_(ok) /\ UNCHANGED <<card, mecha, loc, file, buf, twin, start>>
      /\ twin.keys = file.keys /\ SignAt
  BY DEF RpcStep, devices, fileVars, KInv, SignInv
<1> SUFFICES ASSUME fn' = "sign" PROVE SignAt'
  BY <1>1 DEF SignInv
<1>2. todo' = Tail(todo)
  BY <1>1 DEF Next_
<1>3. CASE HeaderAt(0) /\ Tail(todo) = After(SecrDownloadHeader(file), 1) \o Loop(1)
  <2>1. HeaderAt(1)'
    <3>1. todo' = After(SecrDownloadHeader(file), 1) \o Loop(1) /\ file' = file /\ buf' = buf
      BY <1>1, <1>2, <1>3
    <3>2. (todo = After(SecrDownloadHeader(file), 1) \o Loop(1))'
      BY ONLY <3>1 DEF Loop
    <3>3. (buf = Content(file))'
      BY ONLY <1>3, <3>1 DEF HeaderAt
    <3>4. ~(1 >= 2)
      OBVIOUS
    <3> QED
      BY ONLY <3>2, <3>3, <3>4 DEF HeaderAt
  <2>2. Len(SecrDownloadHeader(file')) > 1 /\ Len(SecrDownloadHeader(file')) \in Nat
    <3> PICK h : h = SecrDownloadHeader(file)
      OBVIOUS
    <3>1. Len(h) \in Nat /\ Len(h) > 2
      BY SignHeaderAt DEF HInv, TypeInv
    <3> QED
      BY <1>1, <3>1
  <2> QED
    BY <2>1, <2>2 DEF SignAt
<1>4. ASSUME NEW i \in Signed(file), BlockAt(i, 0), Tail(todo) = After(SecrDownloadBlock(file, i), 1) \o Loop(i + 1)
      PROVE  SignAt'
  <2>1. BlockAt(i, 1)'
    <3>1. todo' = After(SecrDownloadBlock(file, i), 1) \o Loop(i + 1) /\ file' = file /\ buf' = buf /\ mecha' = mecha
      BY <1>1, <1>2, <1>4
    <3>2. (todo = After(SecrDownloadBlock(file, i), 1) \o Loop(i + 1))'
      BY ONLY <3>1 DEF Loop
    <3>3. buf = Content(file) /\ mecha.auth /\ mecha.nth = Before(Signed(file), i)
      BY ONLY <1>4 DEF BlockAt
    <3>4. (buf = Content(file) /\ mecha.auth /\ mecha.nth = Before(Signed(file), i))'
      BY ONLY <3>1, <3>3
    <3>5. ~(1 >= 2)
      OBVIOUS
    <3> QED
      BY ONLY <3>2, <3>4, <3>5 DEF BlockAt
  <2>2. Len(SecrDownloadBlock(file', i)) > 1 /\ Len(SecrDownloadBlock(file', i)) \in Nat
    <3> PICK b : b = SecrDownloadBlock(file, i)
      OBVIOUS
    <3>1. i \in DOMAIN file.blocks /\ file \in Files
      BY DEF HInv, TypeInv, Signed
    <3>2. Len(b) \in Nat /\ Len(b) > 3
      BY <3>1, SignBlockAt
    <3> QED
      BY <1>1, <3>2
  <2> QED
    BY <1>1, <2>1, <2>2 DEF SignAt
<1>5. ASSUME NEW n \in 0 .. KeyCount(file), KeyInside(n) PROVE SignAt'
  <2>1. /\ KeysAt(n) /\ n \in Nat /\ n + 1 \in 0 .. KeyCount(file) /\ Tail(todo) = After(SecrDownloadKeys(file), n + 1)
        /\ n \in {0, 11, 24}
    BY <1>1, <1>5 DEF KeyInside, Self, Exchanged
  <2>2. BufAt(n + 1)'
    <3>1. BufAt(n) /\ (n + 1 >= 23 => n >= 23) /\ (n + 1 >= 24 => n >= 24)
      BY <2>1 DEF KeysAt
    <3> QED
      BY <1>1, <3>1 DEF BufAt, BoundAt
  <2>3. KeysAt(n + 1)'
    BY <1>1, <1>2, <2>1, <2>2, KeysStay
  <2> QED
    BY <1>1, <2>1, <2>3 DEF SignAt
<1>6. \A i : x # Blocks(i)
  BY <1>1 DEF Blocks, Self, Exchanged
<1> QED
  BY <1>1, <1>3, <1>4, <1>5, <1>6, InnerAt

(* What is stored at a key place. *)
LEMMA Stores ==
  ASSUME NEW f \in Files, NEW b, Kept(b, f), NEW p, NEW q, NEW at, NEW d, d = Stored(b, at, <<p, q>>)
  PROVE  /\ at = KbitOffset(f) => /\ Kept(d, f) /\ d[KbitOffset(f) + 1] = p /\ d[KbitOffset(f) + 2] = q
         /\ at = KcOffset(f) => /\ Kept(d, f) /\ d[KbitOffset(f) + 3] = p /\ d[KbitOffset(f) + 4] = q
                                /\ d[KbitOffset(f) + 1] = b[KbitOffset(f) + 1]
                                /\ d[KbitOffset(f) + 2] = b[KbitOffset(f) + 2]
<1> PICK o, s, n : o = KbitOffset(f) /\ s = KELF_header_size(f) /\ n = f.units
  OBVIOUS
<1>1. o \in Nat /\ s \in Nat /\ n \in Nat /\ o + 5 <= s /\ s <= n /\ KcOffset(f) = o + 2 /\ KeyPlaces(f) = o + 1 .. o + 4
  BY Places DEF KeyPlaces
<1>2. DOMAIN b = 1 .. n /\ \A u \in 1 .. n : u \notin o + 1 .. o + 4 => b[u] = Content(f)[u] \/ (f.icvps2 /\ u = s)
  BY <1>1 DEF Kept
<1>3. DOMAIN <<p, q>> = {1, 2} /\ <<p, q>>[1] = p /\ <<p, q>>[2] = q
  OBVIOUS
<1>4. DOMAIN d = 1 .. n /\ \A u \in 1 .. n : d[u] = IF u - at \in {1, 2} THEN <<p, q>>[u - at] ELSE b[u]
  BY <1>2, <1>3 DEF Stored
<1>5. ASSUME at \in {o, o + 2} PROVE Kept(d, f)
  <2>1. ASSUME NEW u \in 1 .. n, u \notin o + 1 .. o + 4 PROVE d[u] = b[u]
    <3>1. u - at \notin {1, 2}
      BY ONLY <1>1, <1>5, <2>1
    <3> QED
      BY ONLY <1>4, <2>1, <3>1
  <2> QED
    BY <1>1, <1>2, <1>4, <2>1 DEF Kept
<1>6. at = o => d[o + 1] = p /\ d[o + 2] = q
  <2> SUFFICES ASSUME at = o PROVE d[o + 1] = p /\ d[o + 2] = q
    OBVIOUS
  <2>0. o \in Nat /\ n \in Nat /\ o + 5 <= n /\ at = o
    BY ONLY <1>1, at = o
  <2>1. o + 1 \in 1 .. n /\ o + 2 \in 1 .. n /\ (o + 1) - at = 1 /\ (o + 2) - at = 2
    BY ONLY <2>0
  <2> QED
    BY <1>3, <1>4, <2>1
<1>7. at = o + 2 => d[o + 3] = p /\ d[o + 4] = q /\ d[o + 1] = b[o + 1] /\ d[o + 2] = b[o + 2]
  <2> SUFFICES ASSUME at = o + 2 PROVE d[o + 3] = p /\ d[o + 4] = q /\ d[o + 1] = b[o + 1] /\ d[o + 2] = b[o + 2]
    OBVIOUS
  <2>0. o \in Nat /\ n \in Nat /\ o + 5 <= n /\ at = o + 2
    BY <1>1
  <2>1. o + 1 \in 1 .. n /\ o + 2 \in 1 .. n /\ o + 3 \in 1 .. n /\ o + 4 \in 1 .. n
    BY ONLY <2>0
  <2>2. (o + 3) - at = 1 /\ (o + 4) - at = 2
    BY ONLY <2>0
  <2>3. (o + 1) - at \notin {1, 2} /\ (o + 2) - at \notin {1, 2}
    BY ONLY <2>0
  <2> QED
    BY <1>3, <1>4, <2>1, <2>2, <2>3
<1> QED
  BY <1>1, <1>5, <1>6, <1>7

(* ... and of the ICVPS2, which lies outside the key places. *)
LEMMA StoresLast ==
  ASSUME NEW f \in Files, f.icvps2, NEW b, Kept(b, f), NEW p, NEW d, d = Stored(b, KELF_header_size(f) - 1, <<p>>)
  PROVE  Kept(d, f) /\ \A u \in 1 .. 4 : d[KbitOffset(f) + u] = b[KbitOffset(f) + u]
<1> PICK o, s, n : o = KbitOffset(f) /\ s = KELF_header_size(f) /\ n = f.units
  OBVIOUS
<1>1. o \in Nat /\ s \in Nat /\ n \in Nat /\ o + 5 <= s /\ s <= n
  BY Places
<1>2. DOMAIN b = 1 .. n
  BY DEF Kept
<1>3. DOMAIN <<p>> = {1}
  OBVIOUS
<1>4. DOMAIN d = 1 .. n /\ \A u \in 1 .. n : u - (s - 1) # 1 => d[u] = b[u]
  BY <1>2, <1>3 DEF Stored
<1>5. \A u \in 1 .. n : u # s => d[u] = b[u]
  <2>1. \A u \in 1 .. n : u # s => u - (s - 1) # 1
    BY ONLY <1>1
  <2> QED
    BY ONLY <1>4, <2>1
<1>6. Kept(d, f)
  BY <1>4, <1>5 DEF Kept
<1>7. \A u \in 1 .. 4 : o + u \in 1 .. n /\ o + u # s
  BY <1>1
<1> QED
  BY <1>5, <1>6, <1>7

(* ... what secrsif does by itself, ... *)
LEMMA SignSelf ==
  ASSUME HInv, KInv, fn = "sign", SelfStep
  PROVE  SignInv'
<1>1. /\ todo # <<>> /\ x.to = "self" /\ x.cmd # "block" /\ UNCHANGED <<card, mecha, file, twin, start>>
      /\ Next_(x.cmd # "toolong") /\ twin.keys = file.keys /\ SignAt /\ file \in Files
  BY DEF SelfStep, devices, KInv, SignInv, HInv, TypeInv
<1> SUFFICES ASSUME fn' = "sign" PROVE SignAt'
  BY <1>1 DEF SignInv
<1>2. todo' = Tail(todo) /\ x.cmd # "toolong"
  BY <1>1 DEF Next_
<1>3. PICK n \in 0 .. KeyCount(file) : KeyInside(n)
  <2>1. \A i : x # Blocks(i)
    BY <1>1 DEF Blocks, Self, Exchanged
  <2> QED
    BY <1>1, <1>2, <2>1, InnerAt
<1>4. /\ KeysAt(n) /\ n \in Nat /\ n + 1 \in 0 .. KeyCount(file) /\ Tail(todo) = After(SecrDownloadKeys(file), n + 1)
      /\ \/ n = 22 /\ x.cmd = "store_kbit"
         \/ n = 23 /\ x.cmd = "store_kc"
         \/ n = 26 /\ file.icvps2 /\ x.cmd = "store_icvps2"
  BY <1>1, <1>3 DEF KeyInside, Self, Exchanged
<1>5. loc' = loc
  BY <1>4 DEF SelfStep
<1>6. BufAt(n) /\ Kept(buf, file)
  BY <1>4 DEF KeysAt, BufAt
<1>7. BufAt(n + 1)'
  <2>1. CASE n = 22
    <3>1. buf' = Stored(buf, KbitOffset(file), <<loc["Kbit1"], loc["Kbit2"]>>)
      BY <1>4, <2>1, Copies DEF SelfStep, store_kbit
    <3>2. loc["Kbit1"] = Bound("Kbit1", start, file) /\ loc["Kbit2"] = Bound("Kbit2", start, file)
      BY <1>4, <2>1 DEF KeysAt, HalfAt
    <3> PICK f, b, p, q, at, d : f = file /\ b = buf /\ p = loc["Kbit1"] /\ q = loc["Kbit2"] /\ at = KbitOffset(file) /\ d = buf'
      OBVIOUS
    <3>3. f \in Files /\ Kept(b, f) /\ d = Stored(b, at, <<p, q>>) /\ at = KbitOffset(f)
      BY <1>1, <1>6, <3>1
    <3>4. Kept(d, f) /\ d[KbitOffset(f) + 1] = p /\ d[KbitOffset(f) + 2] = q
      BY ONLY <3>3, Stores
    <3>5. (Kept(buf, file) /\ BoundAt(buf, 1, file, start) /\ BoundAt(buf, 2, file, start))'
      BY <1>1, <3>2, <3>4 DEF BoundAt, Halves
    <3>6. ~(n + 1 >= 24)
      BY <2>1
    <3> QED
      BY <3>5, <3>6 DEF BufAt
  <2>2. CASE n = 23
    <3>1. buf' = Stored(buf, KcOffset(file), <<loc["Kc1"], loc["Kc2"]>>)
      BY <1>4, <2>2, Copies DEF SelfStep, store_kc
    <3>2. loc["Kc1"] = Bound("Kc1", start, file) /\ loc["Kc2"] = Bound("Kc2", start, file)
      BY <1>4, <2>2 DEF KeysAt, HalfAt
    <3> PICK f, b, p, q, at, d : f = file /\ b = buf /\ p = loc["Kc1"] /\ q = loc["Kc2"] /\ at = KcOffset(file) /\ d = buf'
      OBVIOUS
    <3>3. f \in Files /\ Kept(b, f) /\ d = Stored(b, at, <<p, q>>) /\ at = KcOffset(f)
      BY <1>1, <1>6, <3>1
    <3>4. /\ Kept(d, f) /\ d[KbitOffset(f) + 3] = p /\ d[KbitOffset(f) + 4] = q
          /\ d[KbitOffset(f) + 1] = b[KbitOffset(f) + 1] /\ d[KbitOffset(f) + 2] = b[KbitOffset(f) + 2]
      BY ONLY <3>3, Stores
    <3>5. BoundAt(buf, 1, file, start) /\ BoundAt(buf, 2, file, start)
      BY <1>6, <2>2 DEF BufAt
    <3>6. (Kept(buf, file) /\ BoundAt(buf, 1, file, start) /\ BoundAt(buf, 2, file, start))'
      BY <1>1, <3>4, <3>5 DEF BoundAt
    <3>7. (BoundAt(buf, 3, file, start) /\ BoundAt(buf, 4, file, start))'
      BY <1>1, <3>2, <3>4 DEF BoundAt, Halves
    <3> QED
      BY <3>6, <3>7 DEF BufAt
  <2>3. CASE n = 26
    <3>1. buf' = Stored(buf, KELF_header_size(file) - 1, <<loc["icvps2"]>>)
      BY <1>4, <2>3 DEF SelfStep, store_icvps2
    <3> PICK f, b, p, d : f = file /\ b = buf /\ p = loc["icvps2"] /\ d = buf'
      OBVIOUS
    <3>2. f \in Files /\ f.icvps2 /\ Kept(b, f) /\ d = Stored(b, KELF_header_size(f) - 1, <<p>>)
      BY <1>1, <1>4, <1>6, <2>3, <3>1
    <3>3. Kept(d, f) /\ \A u \in 1 .. 4 : d[KbitOffset(f) + u] = b[KbitOffset(f) + u]
      BY ONLY <3>2, StoresLast
    <3>4. \A u \in 1 .. 4 : BoundAt(buf, u, file, start)
      <4>1. /\ BoundAt(buf, 1, file, start) /\ BoundAt(buf, 2, file, start)
            /\ BoundAt(buf, 3, file, start) /\ BoundAt(buf, 4, file, start)
        BY <1>6, <2>3 DEF BufAt
      <4> HIDE DEF BoundAt
      <4>2. \A u \in 1 .. 4 : u = 1 \/ u = 2 \/ u = 3 \/ u = 4
        OBVIOUS
      <4> QED
        BY <4>1, <4>2
    <3>5. (\A u \in 1 .. 4 : BoundAt(buf, u, file, start))'
      BY <1>1, <3>3, <3>4 DEF BoundAt
    <3>6. Kept(buf, file)'
      BY <1>1, <3>3
    <3> QED
      BY <3>5, <3>6 DEF BufAt
  <2> QED
    BY <1>4, <2>1, <2>2, <2>3
<1>8. KeysAt(n + 1)'
  BY <1>1, <1>2, <1>4, <1>5, <1>7, KeysStay
<1> QED
  BY <1>1, <1>4, <1>8 DEF SignAt

(* Scripts are concatenated in any order. *)
Associates(s, t, u) == (s \o t) \o u = s \o (t \o u)

LEMMA ConcatAssoc ==
  ASSUME NEW s, NEW t, NEW u, IsSeq(s), IsSeq(t), IsSeq(u)
  PROVE  Associates(s, t, u)
<1>1. PICK S : s \in Seq(S)
  BY DEF IsSeq
<1>2. PICK T : t \in Seq(T)
  BY DEF IsSeq
<1>3. PICK U : u \in Seq(U)
  BY DEF IsSeq
<1>4. s \in Seq(S \cup T \cup U) /\ t \in Seq(S \cup T \cup U) /\ u \in Seq(S \cup T \cup U)
  BY <1>1, <1>2, <1>3
<1> PICK R : R = S \cup T \cup U
  OBVIOUS
<1>5. s \in Seq(R) /\ t \in Seq(R) /\ u \in Seq(R)
  BY <1>4
<1> QED
  BY ONLY <1>5, ConcatAssociative DEF Associates

LEMMA ConcatThrice ==
  ASSUME NEW s, NEW t, NEW u, IsSeq(s), IsSeq(t), IsSeq(u)
  PROVE  (s \o t) \o u = s \o (t \o u) /\ <<>> \o s = s
<1>1. PICK S : s \in Seq(S)
  BY DEF IsSeq
<1>2. (s \o t) \o u = s \o (t \o u)
  <2>1. Associates(s, t, u)
    BY ONLY IsSeq(s), IsSeq(t), IsSeq(u), ConcatAssoc
  <2> QED
    BY ONLY <2>1 DEF Associates
<1>3. <<>> \o s = s
  BY ONLY <1>1, ConcatEmptySeq
<1> QED
  BY <1>2, <1>3

(* The loop over the blocks comes to the next one, or to the keys. *)
LEMMA SignLoop ==
  ASSUME HInv, KInv, fn = "sign", NextBlock
  PROVE  SignInv'
<1>1. /\ todo # <<>> /\ x.to = "self" /\ x.cmd = "block" /\ UNCHANGED <<card, mecha, loc, file, twin, start, buf, fn>>
      /\ twin.keys = file.keys /\ SignAt /\ file \in Files
  BY DEF NextBlock, devices, fileVars, KInv, SignInv, HInv, TypeInv
<1>2. PICK i \in 1 .. Len(file.blocks) + 1 : LoopAt(i) /\ x = Blocks(i)
  <2>1. \A n : ~KeyInside(n)
    BY <1>1 DEF KeyInside, Self, Exchanged
  <2> QED
    BY <1>1, <2>1, InnerAt
<1> PICK k, m, S : k = SecrDownloadKeys(file) /\ m = Len(file.blocks) /\ S = Signed(file)
  OBVIOUS
<1>3. m \in Nat /\ DOMAIN file.blocks = 1 .. m /\ S \in SUBSET (1 .. m) /\ i \in 1 .. m + 1
  <2>1. file.blocks \in Seq([flags : 0..3, size : Nat \ {0}])
    BY <1>1, Sizes
  <2> PICK bs, T : bs = file.blocks /\ T = [flags : 0..3, size : Nat \ {0}]
    OBVIOUS
  <2>2. bs \in Seq(T)
    BY <2>1
  <2>3. Len(bs) \in Nat /\ DOMAIN bs = 1 .. Len(bs)
    BY ONLY <2>2
  <2> QED
    BY <2>3 DEF Signed
<1>4. IsSeq(k) /\ Tail(todo) = k /\ mecha.auth /\ mecha.nth = Before(S, i) /\ buf = Content(file)
  <2>1. IsSeq(k)
    BY KeyScript, SeqFacts
  <2>2. Tail(Loop(i)) = k
    BY LoopIs
  <2> QED
    BY <1>2, <2>1, <2>2 DEF LoopAt
<1>5. x.arg[1] = i
  BY <1>2 DEF Blocks, Self, Exchanged
<1>6. todo' = (IF i \in 1 .. m THEN (IF i \in S THEN SecrDownloadBlock(file, i) ELSE <<>>) \o <<Blocks(i + 1)>> ELSE <<>>) \o k
  BY <1>3, <1>4, <1>5 DEF NextBlock, BlockCalls
<1>7. /\ \A j \in S : Before(S, j + 1) = Before(S, j) + 1
      /\ \A j \in 1 .. m : j \notin S => Before(S, j + 1) = Before(S, j)
      /\ Before(S, m + 1) = Cardinality(S)
  BY ONLY <1>3, Counting
<1> PICK a, t : a = <<Blocks(i + 1)>> /\ t = Loop(i + 1)
  OBVIOUS
<1>8. IsSeq(a) /\ IsSeq(<<>>) /\ t = a \o k /\ Loop(i + 1)' = t
  BY <1>1, SeqFacts DEF Loop
<1>9. CASE i \in S
  <2> PICK b : b = SecrDownloadBlock(file, i)
    OBVIOUS
  <2>1. IsSeq(b) /\ Len(b) \in Nat /\ Len(b) > 3 /\ i \in 1 .. m
    BY <1>1, <1>3, <1>9, SignBlockAt
  <2>2. todo' = (b \o a) \o k
    BY <1>6, <1>9, <2>1
  <2>3. (b \o a) \o k = b \o (a \o k)
    <3>1. IsSeq(b) /\ IsSeq(a) /\ IsSeq(k)
      BY <1>4, <1>8, <2>1
    <3>2. Associates(b, a, k)
      BY ONLY <3>1, ConcatAssoc
    <3> QED
      BY ONLY <3>2 DEF Associates
  <2>4. After(b, 0) = b
    BY <2>1, Fronts
  <2>5. BlockAt(i, 0)'
    <3>1. (todo = After(SecrDownloadBlock(file, i), 0) \o Loop(i + 1))'
      BY <1>1, <1>8, <2>2, <2>3, <2>4
    <3>2. (buf = Content(file) /\ mecha.auth /\ mecha.nth = Before(Signed(file), i))'
      BY <1>1, <1>4
    <3> QED
      BY <3>1, <3>2 DEF BlockAt
  <2>6. i \in Signed(file') /\ 0 < Len(SecrDownloadBlock(file', i))
    BY <1>1, <1>9, <2>1
  <2> QED
    BY <1>1, <2>5, <2>6 DEF SignInv, SignAt
<1>10. CASE i \in 1 .. m /\ i \notin S
  <2>1. todo' = (<<>> \o a) \o k
    BY <1>6, <1>10
  <2>2. <<>> \o a = a
    BY <1>4, <1>8, ConcatThrice
  <2>3. Before(S, i + 1) = Before(S, i)
    BY <1>7, <1>10
  <2>4. LoopAt(i + 1)'
    BY <1>1, <1>4, <1>8, <2>1, <2>2, <2>3 DEF LoopAt
  <2>5. i + 1 \in 1 .. Len(file'.blocks) + 1
    <3>1. i + 1 \in 1 .. m + 1
      BY ONLY <1>3, <1>10
    <3> QED
      BY <1>1, <3>1
  <2> QED
    BY <1>1, <2>4, <2>5 DEF SignInv, SignAt
<1>11. CASE i \notin 1 .. m
  <2>1. i = m + 1
    BY ONLY <1>3, <1>11
  <2>2. todo' = k
    <3>1. <<>> \o k = k
      BY <1>4, <1>8, ConcatThrice
    <3> QED
      BY <1>6, <1>11, <3>1
  <2>3. mecha.nth = Cardinality(S)
    BY <1>4, <1>7, <2>1
  <2>4. After(k, 0) = k
    BY <1>4, Fronts
  <2>5. HalfAt("Kbit1", 2, 3, 0)' /\ HalfAt("Kbit2", 3, 7, 0)' /\ HalfAt("Kc1", 13, 14, 0)' /\ HalfAt("Kc2", 14, 18, 0)'
    BY DEF HalfAt
  <2>6. BufAt(0)'
    <3>1. DOMAIN Content(file) = 1 .. file.units
      BY DEF Content
    <3>2. Kept(Content(file), file)
      BY <3>1 DEF Kept
    <3> QED
      BY <1>1, <1>4, <3>2 DEF BufAt
  <2>7. KeysAt(0)'
    BY <1>1, <1>4, <2>2, <2>3, <2>4, <2>5, <2>6 DEF KeysAt
  <2>8. 0 \in 0 .. KeyCount(file')
    BY DEF KeyCount
  <2> QED
    BY <1>1, <2>7, <2>8 DEF SignInv, SignAt
<1> QED
  BY <1>9, <1>10, <1>11

(* Every exchange keeps the invariant. *)
LEMMA ExchangeKeeps ==
  ASSUME HInv, KInv, NEW how \in {"done", "lost", "unheard", "garbled"}, Exchange(how)
  PROVE  KInv'
<1>1. SignedInv'
  <2>1. signed' = signed
    BY ExchangeStep
  <2> QED
    BY <2>1 DEF KInv, SignedInv
<1>2. fn' \in {"sign", "boot"} => fn' = fn
  <2>1. PICK ok \in BOOLEAN : Answered(how, ok)
    BY ExchangeStep
  <2> QED
    BY <2>1 DEF Answered, Next_
<1>3. CASE fn' \in {"sign", "boot"}
  <2>1. fn \in {"sign", "boot"} /\ fn' # "failed" /\ fn' = fn /\ OfStart
    BY <1>2, <1>3 DEF KInv
  <2>2. OfStart'
    BY <2>1, SamePair
  <2>3. SignInv'
    <3> SUFFICES ASSUME fn = "sign" PROVE SignInv'
      BY <2>1 DEF SignInv
    <3>1. file' = file /\ twin' = twin /\ twin.keys = file.keys /\ SignAt
      BY ExchangeStep DEF fileVars, KInv, SignInv
    <3>2. SignAt'
      <4>1. ASSUME NEW n \in Nat, n < Len(SecrDownloadHeader(file)), HeaderAt(n) PROVE SignAt'
        BY <2>1, <4>1, HeaderExchange
      <4>2. ASSUME NEW i \in 1 .. Len(file.blocks) + 1, LoopAt(i) PROVE FALSE
        <5>1. x = Blocks(i)
          BY <4>2, LoopIs DEF LoopAt, x
        <5>2. x.to = "self"
          BY <5>1 DEF Blocks, Self, Exchanged
        <5> QED
          BY <5>2, ExchangeStep
      <4>3. ASSUME NEW i \in Signed(file), NEW k \in Nat, k < Len(SecrDownloadBlock(file, i)), BlockAt(i, k) PROVE SignAt'
        BY <2>1, <4>3, BlockExchange
      <4>4. ASSUME NEW n \in 0 .. KeyCount(file), KeysAt(n) PROVE SignAt'
        BY <2>1, <4>4, KeysExchange
      <4> QED
        BY <3>1, <4>1, <4>2, <4>3, <4>4 DEF SignAt
    <3> QED
      BY <3>1, <3>2 DEF SignInv
  <2> QED
    BY <1>1, <2>2, <2>3 DEF KInv
<1>4. CASE fn' \notin {"sign", "boot"}
  BY <1>1, <1>4 DEF KInv, OfStart, SignInv
<1> QED
  BY <1>3, <1>4

(* Between the steps of an operation: a card is swapped in, a calculation ends. *)
LEMMA StayKeeps ==
  ASSUME KInv, UNCHANGED <<fn, todo, loc, file, buf, twin, start, signed>>,
         card' = card \/ ~card'.auth,
         (mecha'.auth <=> mecha.auth), mecha'.peer = mecha.peer, mecha'.op = mecha.op, mecha'.left = mecha.left,
         mecha'.got = mecha.got, mecha'.nth = mecha.nth
  PROVE  KInv'
<1>1. OfStart' /\ SignedInv'
  BY DEF KInv, OfStart, SignedInv
<1>2. SignInv'
  <2> SUFFICES ASSUME fn = "sign" PROVE (twin.keys = file.keys /\ SignAt)'
    BY DEF SignInv
  <2>1. twin.keys = file.keys /\ SignAt
    BY DEF KInv, SignInv
  <2>2. \A i : Loop(i)' = Loop(i)
    BY DEF Loop
  <2>3. ASSUME NEW n \in Nat, HeaderAt(n) PROVE HeaderAt(n)'
    BY <2>2, <2>3 DEF HeaderAt
  <2>4. ASSUME NEW i, LoopAt(i) PROVE LoopAt(i)'
    BY <2>2, <2>4 DEF LoopAt
  <2>5. ASSUME NEW i, NEW k, BlockAt(i, k) PROVE BlockAt(i, k)'
    BY <2>2, <2>5 DEF BlockAt
  <2>6. ASSUME NEW n, KeysAt(n) PROVE KeysAt(n)'
    <3>1. ASSUME NEW h, NEW a, NEW e, HalfAt(h, a, e, n) PROVE HalfAt(h, a, e, n)'
      BY <3>1 DEF HalfAt
    <3>2. BufAt(n)'
      BY <2>6 DEF KeysAt, BufAt, BoundAt
    <3> QED
      BY <2>6, <3>1, <3>2 DEF KeysAt
  <2> QED
    BY <2>1, <2>3, <2>4, <2>5, <2>6 DEF SignAt
<1> QED
  BY <1>1, <1>2 DEF KInv

(* ... every step outside of it, ... *)
LEMMA OutsideKeeps ==
  ASSUME KInv, IsMecha(mecha),
         \/ SetMcHandlers \/ Calculated \/ UNCHANGED vars
         \/ \E id \in Cards : SwapCard(id)
  PROVE  KInv'
<1>1. CASE SetMcHandlers
  <2>1. UNCHANGED <<fn, todo, loc, file, buf, twin, start, signed, card, mecha>>
    BY <1>1 DEF SetMcHandlers, devices, fileVars
  <2> QED
    BY <2>1, StayKeeps
<1>2. CASE Calculated
  <2>1. UNCHANGED <<fn, todo, loc, file, buf, twin, start, signed, card>> /\ mecha' = [mecha EXCEPT !.calc = "ok"]
    BY <1>2 DEF Calculated, fileVars
  <2>2. /\ mecha'.auth = mecha.auth /\ mecha'.peer = mecha.peer /\ mecha'.op = mecha.op /\ mecha'.left = mecha.left
        /\ mecha'.got = mecha.got /\ mecha'.nth = mecha.nth
    BY <2>1 DEF IsMecha
  <2> QED
    BY <2>1, <2>2, StayKeeps
<1>3. CASE UNCHANGED vars
  <2>1. UNCHANGED <<fn, todo, loc, file, buf, twin, start, signed, card, mecha>>
    BY <1>3 DEF vars, authVars, fileVars
  <2> QED
    BY <2>1, StayKeeps
<1>4. ASSUME NEW id \in Cards, SwapCard(id) PROVE KInv'
  <2>1. UNCHANGED <<fn, todo, loc, file, buf, twin, start, signed, mecha>> /\ card' = NewCard(id)
    BY <1>4 DEF SwapCard, fileVars
  <2>2. ~card'.auth
    BY <2>1 DEF NewCard
  <2> QED
    BY <2>1, <2>2, StayKeeps
<1> QED
  BY <1>1, <1>2, <1>3, <1>4

(* So does every step inside secrman, ... *)
LEMMA InnerKeeps ==
  ASSUME HInv, KInv, (\E ok \in BOOLEAN : RpcStep(ok)) \/ SelfStep \/ NextBlock
  PROVE  KInv'
<1>1. /\ todo # <<>> /\ x.to \in {"rpc", "self"} /\ UNCHANGED <<card, start, signed>>
      /\ fn' = fn \/ fn' \notin {"sign", "boot"}
  <2>1. ASSUME NEW ok \in BOOLEAN, RpcStep(ok) PROVE fn' = fn \/ fn' \notin {"sign", "boot"}
    BY <2>1 DEF RpcStep, Next_
  <2>2. CASE SelfStep
    BY <2>2 DEF SelfStep, Next_, devices
  <2>3. CASE NextBlock
    BY <2>3 DEF NextBlock, devices
  <2>4. ASSUME NEW ok \in BOOLEAN, RpcStep(ok)
        PROVE  todo # <<>> /\ x.to \in {"rpc", "self"} /\ UNCHANGED <<card, start, signed>>
    BY <2>4 DEF RpcStep, devices
  <2> QED
    BY <2>1, <2>2, <2>3, <2>4
<1>2. OfStart' /\ SignedInv'
  BY <1>1 DEF KInv, OfStart, SignedInv
<1>3. SignInv'
  <2>1. CASE fn = "sign"
    BY <2>1, SignRpc, SignSelf, SignLoop
  <2>2. CASE fn # "sign"
    BY <1>1, <2>2 DEF SignInv
  <2> QED
    BY <2>1, <2>2
<1> QED
  BY <1>2, <1>3 DEF KInv

(* ... the start of an operation, ... *)
LEMMA StartKeeps ==
  ASSUME HInv, KInv, NEW f \in {"auth", "reset", "sign", "boot", "failed"}, NEW script, NEW must, Start(f, script, must),
         f = "sign" => /\ file' \in Files /\ twin'.keys = file'.keys /\ buf' = Content(file')
                       /\ script = SecrDownloadFile(file')
  PROVE  KInv'
<1>1. /\ card' = card /\ start' = card.id /\ signed' = signed
      /\ fn' = "idle" \/ (fn' = f /\ todo' = script)
  BY DEF Start, devices
<1>2. OfStart' /\ SignedInv'
  BY <1>1 DEF KInv, OfStart, SignedInv
<1>3. SignInv'
  <2> SUFFICES ASSUME f = "sign", fn' = "sign", todo' = script PROVE (twin.keys = file.keys /\ SignAt)'
    BY <1>1 DEF SignInv
  <2> PICK g, h, a, k : g = file' /\ h = SecrDownloadHeader(g) /\ a = <<Blocks(1)>> /\ k = SecrDownloadKeys(g)
    OBVIOUS
  <2>1. IsSeq(h) /\ Len(h) > 2 /\ IsSeq(a) /\ IsSeq(k)
    <3>1. g \in Files
      OBVIOUS
    <3>2. IsSeq(h) /\ Len(h) > 2
      BY <3>1, SignHeaderAt
    <3> QED
      BY <3>2, KeyScript, SeqFacts
  <2>2. todo' = (h \o a) \o k
    BY DEF SecrDownloadFile
  <2>3. (h \o a) \o k = h \o (a \o k)
    BY ONLY <2>1, ConcatThrice
  <2>4. After(h, 0) = h
    BY <2>1, Fronts
  <2>5. HeaderAt(0)'
    <3>1. Loop(1)' = a \o k
      BY DEF Loop
    <3>2. (todo = After(SecrDownloadHeader(file), 0) \o Loop(1))'
      BY <2>2, <2>3, <2>4, <3>1
    <3> QED
      BY <3>2 DEF HeaderAt
  <2>6. 0 < Len(SecrDownloadHeader(file'))
    <3>1. Len(h) \in Nat
      BY <2>1, Fronts
    <3> QED
      BY <2>1, <3>1
  <2> QED
    BY <2>5, <2>6 DEF SignAt
<1> QED
  BY <1>2, <1>3 DEF KInv

(* ... of each of them, ... *)
LEMMA OperationsKeep ==
  ASSUME HInv, KInv,
         \/ SecrAuthCard \/ SecrResetAuthCard
         \/ \E f \in Files : SignKELF(f)
         \/ \E p \in Twins : TwinSignKELF(p[1], p[2]) \/ TwinUnreadable(p[1], p[2])
         \/ BootSigned
  PROVE  KInv'
<1>1. CASE SecrAuthCard
  <2>1. Start("auth", Handshake, TRUE)
    BY <1>1 DEF SecrAuthCard
  <2> QED
    BY <2>1, StartKeeps
<1>2. CASE SecrResetAuthCard
  <2>1. Start("reset", <<card_auth_60, mechacon_auth_80>>, FALSE)
    BY <1>2 DEF SecrResetAuthCard
  <2> QED
    BY <2>1, StartKeeps
<1>3. ASSUME NEW f \in Files, NEW g, f.keys = g.keys, TwinSignKELF(f, g) PROVE KInv'
  <2>1. PICK must : Start("sign", SecrDownloadFile(f), must)
    BY <1>3 DEF TwinSignKELF
  <2>2. file' = f /\ twin' = g /\ buf' = Content(f)
    BY <1>3 DEF TwinSignKELF
  <2>3. file' \in Files /\ twin'.keys = file'.keys /\ buf' = Content(file') /\ SecrDownloadFile(f) = SecrDownloadFile(file')
    BY <1>3, <2>2
  <2> QED
    BY <2>1, <2>3, StartKeeps
<1>4. ASSUME NEW f \in Files, SignKELF(f) PROVE KInv'
  <2>1. TwinSignKELF(f, f)
    BY <1>4 DEF SignKELF, TwinSignKELF
  <2> QED
    BY <1>3, <2>1
<1>5. ASSUME NEW f, NEW g, TwinUnreadable(f, g) PROVE KInv'
  <2>1. Start("failed", <<>>, FALSE)
    BY <1>5 DEF TwinUnreadable
  <2> QED
    BY <2>1, StartKeeps
<1>6. CASE BootSigned
  <2>1. PICK must : Start("boot", SecrCardBootFile(signed.file), must)
    BY <1>6 DEF BootSigned
  <2> QED
    BY <2>1, StartKeeps
<1>7. \A p \in Twins : p[1] \in Files /\ p[2] \in Files /\ p[1].keys = p[2].keys
  BY TwinsAssumption
<1> QED
  BY <1>1, <1>2, <1>3, <1>4, <1>5, <1>6, <1>7

(* The keys copied into the PSX file. *)
LEMMA TwinBound ==
  ASSUME NEW f \in Files, NEW g \in Files, g.keys = f.keys, NEW b, NEW id, Kept(b, f),
         \A u \in 1 .. 4 : BoundAt(b, u, f, id),
         NEW d, d = Stored(Content(g), KbitOffset(g), SubSeq(b, KbitOffset(f) + 1, KbitOffset(f) + 4))
  PROVE  Kept(d, g) /\ \A u \in 1 .. 4 : BoundAt(d, u, g, id)
<1> PICK o, s, n, q, m : o = KbitOffset(g) /\ s = KELF_header_size(g) /\ n = g.units /\ q = KbitOffset(f) /\ m = f.units
  OBVIOUS
<1>0. /\ o \in Nat /\ s \in Nat /\ n \in Nat /\ o + 5 <= s /\ s <= n
      /\ q \in Nat /\ m \in Nat /\ q + 5 <= m
  <2>1. o \in Nat /\ s \in Nat /\ n \in Nat /\ o + 5 <= s /\ s <= n
    BY Places
  <2>2. q \in Nat /\ KELF_header_size(f) \in Nat /\ q + 5 <= KELF_header_size(f) /\ KELF_header_size(f) <= m /\ m \in Nat
    BY Places
  <2> QED
    BY <2>1, <2>2
<1>1. KeyPlaces(g) = o + 1 .. o + 4
  BY DEF KeyPlaces
<1> PICK vs : vs = SubSeq(b, q + 1, q + 4)
  OBVIOUS
<1>2. DOMAIN vs = 1 .. 4 /\ \A u \in 1 .. 4 : vs[u] = b[q + u]
  <2> PICK S, lo, hi : S = {b[j] : j \in 1 .. m} /\ lo = q + 1 /\ hi = q + 4
    OBVIOUS
  <2>a. q \in Nat /\ m \in Nat /\ q + 5 <= m /\ lo = q + 1 /\ hi = q + 4
    BY <1>0
  <2>1. lo \in Int /\ hi \in Int /\ \A i \in lo .. hi : i \in 1 .. m
    BY ONLY <2>a
  <2>2. lo \in Int /\ hi \in Int /\ \A i \in lo .. hi : b[i] \in S
    BY <2>1
  <2>3. /\ Len(SubSeq(b, lo, hi)) = (IF lo <= hi THEN hi - lo + 1 ELSE 0)
        /\ SubSeq(b, lo, hi) \in Seq(S)
        /\ \A i \in 1 .. hi - lo + 1 : SubSeq(b, lo, hi)[i] = b[lo + i - 1]
    BY ONLY <2>2, SubSeqProperties
  <2>4. hi - lo + 1 = 4 /\ lo <= hi
    BY ONLY <2>a
  <2>5. vs \in Seq(S) /\ Len(vs) = 4 /\ \A i \in 1 .. 4 : vs[i] = b[lo + i - 1]
    BY <2>3, <2>4
  <2>6. DOMAIN vs = 1 .. 4
    BY ONLY <2>5
  <2>7. \A u \in 1 .. 4 : lo + u - 1 = q + u
    BY ONLY <2>a
  <2> QED
    BY <2>5, <2>6, <2>7
<1>3. DOMAIN Content(g) = 1 .. n
  BY DEF Content
<1>4. DOMAIN d = 1 .. n /\ \A u \in 1 .. n : d[u] = IF u - o \in 1 .. 4 THEN vs[u - o] ELSE Content(g)[u]
  BY <1>2, <1>3 DEF Stored
<1>5. Kept(d, g)
  <2>1. ASSUME NEW u \in 1 .. n, u \notin o + 1 .. o + 4 PROVE d[u] = Content(g)[u]
    <3>1. u \in Nat /\ o \in Nat /\ u \notin o + 1 .. o + 4
      BY <1>0, <2>1
    <3>2. u - o \notin 1 .. 4
      BY ONLY <3>1
    <3> QED
      BY <1>4, <3>2
  <2> QED
    BY <1>1, <1>4, <2>1 DEF Kept
<1>6. ASSUME NEW u \in 1 .. 4 PROVE BoundAt(d, u, g, id)
  <2>0. o \in Nat /\ n \in Nat /\ o + 5 <= n /\ u \in 1 .. 4
    BY ONLY <1>0, <1>6
  <2>1. o + u \in 1 .. n /\ (o + u) - o = u
    BY ONLY <2>0
  <2>2. d[o + u] = b[q + u]
    <3>1. d[o + u] = vs[u]
      BY ONLY <1>4, <1>6, <2>1
    <3> QED
      BY ONLY <1>2, <1>6, <3>1
  <2>3. b[q + u] = Bound(Halves[u], id, f)
    BY DEF BoundAt
  <2>4. Bound(Halves[u], id, f) = Bound(Halves[u], id, g)
    BY DEF Bound
  <2> QED
    BY <2>2, <2>3, <2>4 DEF BoundAt
<1> QED
  BY <1>5, <1>6

(* Place by place. *)
LEMMA FourPlaces ==
  ASSUME NEW b, NEW f, NEW id, BoundAt(b, 1, f, id), BoundAt(b, 2, f, id), BoundAt(b, 3, f, id), BoundAt(b, 4, f, id)
  PROVE  \A u \in 1 .. 4 : BoundAt(b, u, f, id)
<1>1. \A u \in 1 .. 4 : u = 1 \/ u = 2 \/ u = 3 \/ u = 4
  OBVIOUS
<1> HIDE DEF BoundAt
<1> QED
  BY <1>1

(* ... and the return: a signing that returns has done all of its steps. *)
LEMMA ReturnKeeps ==
  ASSUME HInv, KInv, Return
  PROVE  KInv'
<1>1. fn' = "idle" /\ todo = <<>> /\ (fn # "sign" => signed' = signed)
  BY DEF Return
<1>2. OfStart' /\ SignInv'
  BY <1>1 DEF OfStart, SignInv
<1>3. SignedInv'
  <2>1. CASE fn # "sign"
    BY <1>1, <2>1 DEF KInv, SignedInv
  <2>2. CASE fn = "sign"
    <3>1. twin.keys = file.keys /\ SignAt /\ file \in Files /\ twin \in Files
      BY <2>2 DEF KInv, SignInv, HInv, TypeInv
    <3>2. KeysAt(KeyCount(file))
      <4>1. \A n \in Nat : ~(n < Len(SecrDownloadHeader(file)) /\ HeaderAt(n))
        <5> SUFFICES ASSUME NEW n \in Nat, n < Len(SecrDownloadHeader(file)), HeaderAt(n) PROVE FALSE
          OBVIOUS
        <5> PICK h, t : h = SecrDownloadHeader(file) /\ t = Loop(1)
          OBVIOUS
        <5>1. IsSeq(h) /\ IsSeq(t) /\ n \in Nat /\ n < Len(h)
          BY <3>1, SignHeaderAt, LoopIs
        <5>2. After(h, n) \o t # <<>>
          BY ONLY <5>1, FrontStep
        <5> QED
          BY <1>1, <5>2 DEF HeaderAt
      <4>2. \A i : ~LoopAt(i)
        BY <1>1, LoopIs DEF LoopAt
      <4>3. ASSUME NEW i \in Signed(file), NEW k \in Nat, k < Len(SecrDownloadBlock(file, i)), BlockAt(i, k) PROVE FALSE
        <5> PICK b, t : b = SecrDownloadBlock(file, i) /\ t = Loop(i + 1)
          OBVIOUS
        <5>1. todo # <<>>
          BY <4>3, BlockFront DEF BlockAt
        <5> QED
          BY <1>1, <5>1
      <4>4. PICK n \in 0 .. KeyCount(file) : KeysAt(n)
        BY <3>1, <4>1, <4>2, <4>3 DEF SignAt
      <4> PICK k : k = SecrDownloadKeys(file)
        OBVIOUS
      <4>5. todo = After(k, n)
        BY <4>4 DEF KeysAt
      <4>6. n = KeyCount(file)
        BY <1>1, <4>5, KeyFront
      <4> QED
        BY <4>4, <4>6
    <3>3. KeyCount(file) >= 24 /\ KeyCount(file) >= 23
      BY DEF KeyCount
    <3>4. /\ mecha.nth = Cardinality(Signed(file)) /\ Kept(buf, file)
          /\ BoundAt(buf, 1, file, start) /\ BoundAt(buf, 2, file, start)
          /\ BoundAt(buf, 3, file, start) /\ BoundAt(buf, 4, file, start)
      BY <3>2, <3>3 DEF KeysAt, BufAt
    <3>5. \A u \in 1 .. 4 : BoundAt(buf, u, file, start)
      BY <3>4, FourPlaces
    <3>6. signed' = [file |-> twin, card |-> start, all |-> mecha.nth = Cardinality(Signed(file)),
                     buf |-> IF twin = file THEN buf ELSE SetKbitAndKc(twin, GetKbitAndKc(buf))]
      BY <2>2 DEF Return
    <3>7. signed'.file = twin /\ signed'.card = start /\ signed'.all
          /\ signed'.buf = (IF twin = file THEN buf ELSE SetKbitAndKc(twin, GetKbitAndKc(buf)))
      BY <3>4, <3>6
    <3>8. Kept(signed'.buf, twin) /\ \A u \in 1 .. 4 : BoundAt(signed'.buf, u, twin, start)
      <4>1. CASE twin = file
        BY <3>4, <3>5, <3>7, <4>1
      <4>2. CASE twin # file
        <5> PICK f, g, b, id, d : f = file /\ g = twin /\ b = buf /\ id = start /\ d = signed'.buf
          OBVIOUS
        <5>1. /\ f \in Files /\ g \in Files /\ g.keys = f.keys /\ Kept(b, f) /\ \A u \in 1 .. 4 : BoundAt(b, u, f, id)
          BY <3>1, <3>4, <3>5
        <5>2. d = Stored(Content(g), KbitOffset(g), SubSeq(b, KbitOffset(f) + 1, KbitOffset(f) + 4))
          BY <3>7, <4>2, Copies DEF SetKbitAndKc, GetKbitAndKc
        <5>3. Kept(d, g) /\ \A u \in 1 .. 4 : BoundAt(d, u, g, id)
          BY ONLY <5>1, <5>2, TwinBound
        <5> QED
          BY <5>3
      <4> QED
        BY <4>1, <4>2
    <3>9. \A u \in 1 .. 4 : BoundAt(signed'.buf, u, signed'.file, signed'.card)
      BY <3>7, <3>8
    <3> QED
      BY <3>7, <3>8, <3>9 DEF SignedInv, BoundAt
  <2> QED
    BY <2>1, <2>2
<1> QED
  BY <1>2, <1>3 DEF KInv

(* A file as it may lie on a card from before. *)
LEMMA SignedBefore ==
  ASSUME NEW f \in Files, NEW id, signed = SignedFor(f, id)
  PROVE  SignedInv
<1> PICK o, s, n, vs, d : /\ o = KbitOffset(f) /\ s = KELF_header_size(f) /\ n = f.units
                          /\ vs = [k \in 1 .. 4 |-> [n |-> Halves[k], card |-> id, keys |-> f.keys]]
                          /\ d = Stored(Content(f), o, vs)
  OBVIOUS
<1>1. o \in Nat /\ s \in Nat /\ n \in Nat /\ o + 5 <= s /\ s <= n /\ KeyPlaces(f) = o + 1 .. o + 4
  BY Places DEF KeyPlaces
<1>2. DOMAIN vs = 1 .. 4 /\ \A u \in 1 .. 4 : vs[u] = Bound(Halves[u], id, f)
  BY DEF Bound
<1>3. DOMAIN Content(f) = 1 .. n
  BY DEF Content
<1>4. DOMAIN d = 1 .. n /\ \A u \in 1 .. n : d[u] = IF u - o \in 1 .. 4 THEN vs[u - o] ELSE Content(f)[u]
  BY <1>2, <1>3 DEF Stored
<1>5. Kept(d, f)
  <2>1. ASSUME NEW u \in 1 .. n, u \notin o + 1 .. o + 4 PROVE d[u] = Content(f)[u]
    <3>1. u - o \notin 1 .. 4
      BY <1>1, <2>1
    <3> QED
      BY <1>4, <3>1
  <2> QED
    BY <1>1, <1>4, <2>1 DEF Kept
<1>6. ASSUME NEW u \in 1 .. 4 PROVE BoundAt(d, u, f, id)
  <2>0. o \in Nat /\ n \in Nat /\ o + 5 <= n /\ u \in 1 .. 4
    BY <1>1
  <2>1. o + u \in 1 .. n /\ (o + u) - o = u
    BY ONLY <2>0
  <2>2. d[o + u] = vs[u]
    BY ONLY <1>4, <1>6, <2>1
  <2>3. d[o + u] = Bound(Halves[u], id, f)
    BY ONLY <1>2, <1>6, <2>2
  <2> QED
    BY <2>3 DEF BoundAt
<1>7. signed.file = f /\ signed.card = id /\ signed.all /\ signed.buf = d
  BY DEF SignedFor
<1> QED
  BY <1>5, <1>6, <1>7 DEF SignedInv

(* The invariant holds at the start. *)
LEMMA KInit == Init => KInv
<1> SUFFICES ASSUME Init PROVE KInv
  OBVIOUS
<1>1. OfStart /\ SignInv
  BY DEF Init, OfStart, SignInv
<1>2. CASE signed = [file |-> file, buf |-> <<>>, card |-> "none", all |-> FALSE]
  BY <1>1, <1>2 DEF KInv, SignedInv
<1>3. ASSUME NEW f \in OldFiles, NEW id, signed = SignedFor(f, id) PROVE SignedInv
  BY <1>3, SignedBefore, OldFilesAssumption
<1> QED
  BY <1>1, <1>2, <1>3 DEF Init, KInv

(* Every step keeps the invariant. *)
LEMMA KStep == HInv /\ KInv /\ [Next]_vars => KInv'
<1> SUFFICES ASSUME HInv, KInv, [Next]_vars PROVE KInv'
  OBVIOUS
<1>1. CASE SetMcHandlers \/ Calculated \/ UNCHANGED vars \/ \E id \in Cards : SwapCard(id)
  BY <1>1, OutsideKeeps DEF HInv, TypeInv
<1>2. CASE \/ SecrAuthCard \/ SecrResetAuthCard
           \/ \E f \in Files : SignKELF(f)
           \/ \E p \in Twins : TwinSignKELF(p[1], p[2]) \/ TwinUnreadable(p[1], p[2])
           \/ BootSigned
  BY <1>2, OperationsKeep
<1>3. CASE \E how \in {"done", "lost", "unheard", "garbled"} : Exchange(how)
  BY <1>3, ExchangeKeeps
<1>4. CASE (\E ok \in BOOLEAN : RpcStep(ok)) \/ SelfStep \/ NextBlock
  BY <1>4, InnerKeeps
<1>5. CASE Return
  BY <1>5, ReturnKeeps
<1> QED
  BY <1>1, <1>2, <1>3, <1>4, <1>5 DEF Next, Step

(* A file reported as signed has its four key halves bound to the one card in the slot when the
   signing began, nothing else in it disturbed, and every marked block seen by the MECHACON
   (SignedIsBound): for all files, cards, twins, faults and swaps. *)
THEOREM SigningBindsToCard == Spec => []SignedIsBound
<1>1. Init => HInv /\ KInv
  BY HInit, KInit
<1>2. HInv /\ KInv /\ [Next]_vars => HInv' /\ KInv'
  BY HStep, KStep
<1>3. HInv /\ KInv => SignedIsBound
  BY SignedMeans DEF KInv
<1> QED
  BY <1>1, <1>2, <1>3, PTL DEF Spec

(* Where the steps of the header of a boot stand: the first half of Kbit is taken from the buffer,
   given to the card, taken back and stored; then the header goes to the MECHACON. *)
BootStand(f, c) ==
    /\ IsSeq(c) /\ Len(c) > 21 + HeaderChunks(f)
    /\ c[1] = Self("get_keys")
    /\ c[2] = card_auth("40") /\ c[3] = card_auth_write("Kbit1", "41") /\ c[4] = card_auth("42")
    /\ c[5] = card_auth_read("Kbit1", "43")
    /\ \A k \in 6 .. 17 : c[k].to = "card" /\ \A j \in DOMAIN c[k].get : c[k].get[j] # "Kbit1"
    /\ c[18] = Self("store_kc") /\ c[19] = Self("store_kbit")
    /\ c[20] = write_HD_start(1, f)
    /\ \A k \in 1 .. HeaderChunks(f) : c[20 + k] = write_data(Chunks(0, KELF_header_size(f))[k])
    /\ c[21 + HeaderChunks(f)] = pol_cal_cmplt

(* The first 19 steps, ... *)
LEMMA Prefix ==
  ASSUME NEW a, a = <<Self("get_keys")>>
                    \o func_0000077c("Kbit1") \o func_0000077c("Kbit2")
                    \o func_0000077c("Kc1") \o func_0000077c("Kc2")
                    \o <<Self("store_kc"), Self("store_kbit")>>
  PROVE  /\ IsSeq(a) /\ Len(a) = 19
         /\ a[1] = Self("get_keys")
         /\ a[2] = card_auth("40") /\ a[3] = card_auth_write("Kbit1", "41") /\ a[4] = card_auth("42")
         /\ a[5] = card_auth_read("Kbit1", "43")
         /\ \A k \in 6 .. 17 : a[k].to = "card" /\ \A j \in DOMAIN a[k].get : a[k].get[j] # "Kbit1"
         /\ a[18] = Self("store_kc") /\ a[19] = Self("store_kbit")
<1>1. IsSeq(a)
  <2>1. ASSUME NEW h PROVE IsSeq(func_0000077c(h))
    <3>1. func_0000077c(h) \in Seq({card_auth("40"), card_auth_write(h, "41"), card_auth("42"), card_auth_read(h, "43")})
      BY DEF func_0000077c
    <3> QED
      BY <3>1 DEF IsSeq
  <2> PICK g, p, q, r, s, t : /\ g = <<Self("get_keys")>> /\ p = func_0000077c("Kbit1") /\ q = func_0000077c("Kbit2")
                              /\ r = func_0000077c("Kc1") /\ s = func_0000077c("Kc2")
                              /\ t = <<Self("store_kc"), Self("store_kbit")>>
    OBVIOUS
  <2>2. t \in Seq({Self("store_kc"), Self("store_kbit")})
    OBVIOUS
  <2>3. IsSeq(g) /\ IsSeq(p) /\ IsSeq(q) /\ IsSeq(r) /\ IsSeq(s) /\ IsSeq(t)
    BY <2>1, <2>2, SeqFacts DEF IsSeq
  <2>4. IsSeq(((((g \o p) \o q) \o r) \o s) \o t)
    BY ONLY <2>3, SeqFacts
  <2> QED
    BY <2>4
<1>2. /\ Len(a) = 19 /\ a[1] = Self("get_keys")
      /\ a[2] = card_auth("40") /\ a[3] = card_auth_write("Kbit1", "41") /\ a[4] = card_auth("42")
      /\ a[5] = card_auth_read("Kbit1", "43")
  BY DEF func_0000077c
<1>3. /\ a[6] = card_auth("40") /\ a[7] = card_auth_write("Kbit2", "41") /\ a[8] = card_auth("42")
      /\ a[9] = card_auth_read("Kbit2", "43")
  BY DEF func_0000077c
<1>4. /\ a[10] = card_auth("40") /\ a[11] = card_auth_write("Kc1", "41") /\ a[12] = card_auth("42")
      /\ a[13] = card_auth_read("Kc1", "43")
  BY DEF func_0000077c
<1>5. /\ a[14] = card_auth("40") /\ a[15] = card_auth_write("Kc2", "41") /\ a[16] = card_auth("42")
      /\ a[17] = card_auth_read("Kc2", "43")
      /\ a[18] = Self("store_kc") /\ a[19] = Self("store_kbit")
  BY DEF func_0000077c
<1>6. ASSUME NEW k \in 6 .. 17 PROVE a[k].to = "card" /\ \A j \in DOMAIN a[k].get : a[k].get[j] # "Kbit1"
  <2>1. \/ k = 6 \/ k = 7 \/ k = 8 \/ k = 9 \/ k = 10 \/ k = 11
        \/ k = 12 \/ k = 13 \/ k = 14 \/ k = 15 \/ k = 16 \/ k = 17
    OBVIOUS
  <2>2. \A e : e \in {card_auth("40"), card_auth("42"), card_auth_write("Kbit2", "41"), card_auth_write("Kc1", "41"),
                      card_auth_write("Kc2", "41"), card_auth_read("Kbit2", "43"), card_auth_read("Kc1", "43"),
                      card_auth_read("Kc2", "43")}
           => e.to = "card" /\ \A j \in DOMAIN e.get : e.get[j] # "Kbit1"
    BY DEF card_auth, card_auth_write, card_auth_read, ToCard, Exchanged
  <2>3. a[k] \in {card_auth("40"), card_auth("42"), card_auth_write("Kbit2", "41"), card_auth_write("Kc1", "41"),
                      card_auth_write("Kc2", "41"), card_auth_read("Kbit2", "43"), card_auth_read("Kc1", "43"),
                      card_auth_read("Kc2", "43")}
    BY <1>3, <1>4, <1>5, <2>1
  <2> QED
    BY <2>2, <2>3
<1> QED
  BY <1>1, <1>2, <1>5, <1>6

(* ... and all up to the answer to the header. *)
LEMMA BootAre ==
  ASSUME NEW f \in Files, NEW c, c = SecrCardBootHeader(f)
  PROVE  BootStand(f, c)
<1> PICK a, h, r, m : /\ a = <<Self("get_keys")>>
                             \o func_0000077c("Kbit1") \o func_0000077c("Kbit2")
                             \o func_0000077c("Kc1") \o func_0000077c("Kc2")
                             \o <<Self("store_kc"), Self("store_kbit")>>
                      /\ h = secr_set_header(1, f) /\ r = Read_BIT(f) /\ m = HeaderChunks(f)
  OBVIOUS
<1>1. c = (a \o h) \o r
  BY DEF SecrCardBootHeader
<1>2. /\ IsSeq(a) /\ Len(a) = 19
      /\ a[1] = Self("get_keys")
      /\ a[2] = card_auth("40") /\ a[3] = card_auth_write("Kbit1", "41") /\ a[4] = card_auth("42")
      /\ a[5] = card_auth_read("Kbit1", "43")
      /\ \A k \in 6 .. 17 : a[k].to = "card" /\ \A j \in DOMAIN a[k].get : a[k].get[j] # "Kbit1"
      /\ a[18] = Self("store_kc") /\ a[19] = Self("store_kbit")
  BY Prefix
<1>3. /\ IsSeq(h) /\ m \in Nat /\ Len(h) = m + 2 /\ h[1] = write_HD_start(1, f)
      /\ \A k \in 1 .. m : h[1 + k] = write_data(Chunks(0, KELF_header_size(f))[k])
      /\ h[m + 2] = pol_cal_cmplt
  BY SetHeaderAt
<1>4. IsSeq(r) /\ Len(r) > 0
  <2>1. IsSeq(r)
    BY HeaderScript, SeqFacts
  <2> PICK o, t : o = <<get_BIT_length>> /\ t = [k \in 1..(BitLength(f) + 1) \div 2 |-> read_data]
    OBVIOUS
  <2>2. r = o \o t /\ IsSeq(o) /\ Len(o) = 1
    BY SeqFacts DEF Read_BIT
  <2> PICK l : l = (BitLength(f) + 1) \div 2
    OBVIOUS
  <2>3. l \in Nat
    BY Sizes
  <2>4. t \in Seq({read_data})
    BY <2>3
  <2>5. IsSeq(t)
    BY <2>4 DEF IsSeq
  <2>6. Len(o \o t) = 1 + Len(t) /\ Len(t) \in Nat
    BY <2>2, <2>5, ConcatAt
  <2> PICK d : d = Len(t)
    OBVIOUS
  <2>7. Len(r) = 1 + d /\ d \in Nat
    BY <2>2, <2>6
  <2>8. \A j \in Nat : 1 + j > 0
    OBVIOUS
  <2> QED
    BY <2>1, <2>7, <2>8
<1> PICK b : b = a \o h
  OBVIOUS
<1>5. /\ IsSeq(b) /\ Len(b) = 21 + m
      /\ \A i \in 1 .. 19 : b[i] = a[i]
      /\ \A i \in 1 .. m + 2 : b[19 + i] = h[i]
  <2>0. IsSeq(a) /\ IsSeq(h)
    BY <1>2, <1>3
  <2>1. /\ IsSeq(a \o h) /\ Len(a \o h) = Len(a) + Len(h)
        /\ \A i \in 1 .. Len(a) : (a \o h)[i] = a[i]
        /\ \A i \in 1 .. Len(h) : (a \o h)[Len(a) + i] = h[i]
    BY ONLY <2>0, ConcatAt
  <2>2. 19 + (m + 2) = 21 + m
    BY <1>3
  <2>3. Len(a) = 19 /\ Len(h) = m + 2 /\ b = a \o h
    BY <1>2, <1>3
  <2> QED
    BY ONLY <2>1, <2>2, <2>3
<1>6. IsSeq(c) /\ Len(c) > 21 + m /\ \A i \in 1 .. 21 + m : c[i] = b[i]
  <2>0. IsSeq(b) /\ IsSeq(r)
    BY <1>4, <1>5
  <2>1. /\ IsSeq(b \o r) /\ Len(b \o r) = Len(b) + Len(r) /\ Len(r) \in Nat
        /\ \A i \in 1 .. Len(b) : (b \o r)[i] = b[i]
    BY ONLY <2>0, ConcatAt
  <2>2. (21 + m) + Len(r) > 21 + m
    BY <1>3, <1>4, <2>1
  <2>3. c = b \o r /\ Len(b) = 21 + m
    BY <1>1, <1>5
  <2> QED
    BY ONLY <2>1, <2>2, <2>3
<1>7. \A i \in 1 .. 19 : c[i] = a[i]
  <2>1. \A i \in 1 .. 19 : i \in 1 .. 21 + m
    BY <1>3
  <2> QED
    BY <1>5, <1>6, <2>1
<1>8. \A i \in 1 .. m + 2 : c[19 + i] = h[i]
  <2>1. \A i \in 1 .. m + 2 : 19 + i \in 1 .. 21 + m
    BY <1>3
  <2> QED
    BY <1>5, <1>6, <2>1
<1>9. c[20] = write_HD_start(1, f)
  <2>1. 1 \in 1 .. m + 2 /\ 19 + 1 = 20
    BY <1>3
  <2> QED
    BY <1>3, <1>8, <2>1
<1>10. ASSUME NEW k \in 1 .. m PROVE c[20 + k] = write_data(Chunks(0, KELF_header_size(f))[k])
  <2>1. 1 + k \in 1 .. m + 2 /\ 19 + (1 + k) = 20 + k
    BY <1>3
  <2>2. c[20 + k] = h[1 + k]
    BY <1>8, <2>1
  <2> QED
    BY <1>3, <2>2
<1>11. c[21 + m] = pol_cal_cmplt
  <2>1. m + 2 \in 1 .. m + 2 /\ 19 + (m + 2) = 21 + m
    BY <1>3
  <2>2. c[21 + m] = h[m + 2]
    BY <1>8, <2>1
  <2> QED
    BY <1>3, <2>2
<1>12. /\ c[1] = a[1] /\ c[2] = a[2] /\ c[3] = a[3] /\ c[4] = a[4] /\ c[5] = a[5] /\ c[18] = a[18] /\ c[19] = a[19]
       /\ \A k \in 6 .. 17 : c[k] = a[k]
  BY ONLY <1>7
<1>13. m = HeaderChunks(f)
  OBVIOUS
<1>14. /\ c[1] = Self("get_keys")
       /\ c[2] = card_auth("40") /\ c[3] = card_auth_write("Kbit1", "41") /\ c[4] = card_auth("42")
       /\ c[5] = card_auth_read("Kbit1", "43")
       /\ \A k \in 6 .. 17 : c[k].to = "card" /\ \A j \in DOMAIN c[k].get : c[k].get[j] # "Kbit1"
       /\ c[18] = Self("store_kc") /\ c[19] = Self("store_kbit")
  BY ONLY <1>2, <1>12
<1> QED
  BY ONLY <1>6, <1>9, <1>10, <1>11, <1>13, <1>14 DEF BootStand

(* Which steps of the header of a boot reach which device. *)
LEMMA BootKinds ==
  ASSUME NEW f \in Files, NEW c, BootStand(f, c), NEW n \in 0 .. 20 + HeaderChunks(f)
  PROVE  /\ n \in {0, 17, 18} => c[n + 1].to = "self" /\ c[n + 1].cmd # "block"
         /\ n \in 1 .. 16 => c[n + 1].to = "card"
         /\ n >= 19 => c[n + 1].to = "mecha"
<1> PICK m : m = HeaderChunks(f)
  OBVIOUS
<1>0. m \in Nat /\ n \in Nat /\ n <= 20 + m
  <2>1. m \in Nat
    BY Sizes DEF HeaderChunks
  <2> QED
    BY <2>1
<1>1. /\ \A s : Self(s).to = "self" /\ Self(s).cmd = s
      /\ \A s, v : card_auth(s).to = "card" /\ card_auth_write(v, s).to = "card" /\ card_auth_read(v, s).to = "card"
      /\ \A v, w : write_HD_start(v, w).to = "mecha"
      /\ \A v : write_data(v).to = "mecha"
      /\ pol_cal_cmplt.to = "mecha"
  BY DEF Self, card_auth, card_auth_write, card_auth_read, write_HD_start, write_data,
      pol_cal_cmplt, Numbered, ToCard,
         ToMecha, Exchanged
<1>2. /\ c[1] = Self("get_keys") /\ c[18] = Self("store_kc") /\ c[19] = Self("store_kbit")
      /\ c[2] = card_auth("40") /\ c[3] = card_auth_write("Kbit1", "41") /\ c[4] = card_auth("42")
      /\ c[5] = card_auth_read("Kbit1", "43")
      /\ \A k \in 6 .. 17 : c[k].to = "card"
      /\ c[20] = write_HD_start(1, f)
      /\ \A k \in 1 .. m : c[20 + k] = write_data(Chunks(0, KELF_header_size(f))[k])
      /\ c[21 + m] = pol_cal_cmplt
  BY DEF BootStand
<1>3. n \in {0, 17, 18} => c[n + 1].to = "self" /\ c[n + 1].cmd # "block"
  <2>1. (n = 0 => n + 1 = 1) /\ (n = 17 => n + 1 = 18) /\ (n = 18 => n + 1 = 19)
    OBVIOUS
  <2> QED
    BY ONLY <1>1, <1>2, <2>1
<1>4. n \in 1 .. 16 => c[n + 1].to = "card"
  <2>1. n \in 1 .. 16 => n + 1 = 2 \/ n + 1 = 3 \/ n + 1 = 4 \/ n + 1 = 5 \/ n + 1 \in 6 .. 17
    BY <1>0
  <2> QED
    BY ONLY <1>1, <1>2, <2>1
<1>5. n >= 19 => c[n + 1].to = "mecha"
  <2> SUFFICES ASSUME n >= 19 PROVE c[n + 1].to = "mecha"
    OBVIOUS
  <2> PICK u : u = n - 19
    OBVIOUS
  <2>1. n + 1 = 20 \/ n + 1 = 21 + m \/ (u \in 1 .. m /\ n + 1 = 20 + u)
    BY <1>0
  <2> QED
    BY ONLY <1>1, <1>2, <2>1
<1> QED
  BY <1>3, <1>4, <1>5

(* What a chunk of the header hands to the MECHACON. *)
LEMMA ChunkSent ==
  ASSUME NEW s \in Nat, NEW k \in 1 .. (s + 1) \div 2, x = write_data(Chunks(0, s)[k])
  PROVE  /\ x.to = "mecha" /\ x.cmd = "8D" /\ x.get = <<>>
         /\ IsSeq(Sent)
         /\ 2 * k <= s => Len(Sent) = 2 /\ Sent[1] = buf[2 * k - 1] /\ Sent[2] = buf[2 * k]
         /\ ~(2 * k <= s) => Len(Sent) = 1 /\ s = 2 * k - 1
<1>1. k \in Nat /\ k >= 1 /\ 2 * k <= s + 1
  OBVIOUS
<1>2. /\ x.to = "mecha" /\ x.cmd = "8D" /\ x.get = <<>> /\ x.put = <<>>
      /\ x.units = (IF 2 * k <= s THEN <<0 + 2 * k - 1, 0 + 2 * k>> ELSE <<0 + s>>)
  BY DEF write_data, ToMecha, Exchanged, Chunks
<1>3. x.units = (IF 2 * k <= s THEN <<2 * k - 1, 2 * k>> ELSE <<s>>)
  <2>1. 0 + 2 * k - 1 = 2 * k - 1 /\ 0 + 2 * k = 2 * k /\ 0 + s = s
    BY <1>1
  <2> QED
    BY <1>2, <2>1
<1> DEFINE u == [j \in DOMAIN x.units |-> IF x.units[j] = 0 THEN Noise ELSE buf[x.units[j]]]
<1>4. Sent = u \o <<>>
  <2>1. [j \in DOMAIN x.put |-> loc[x.put[j]]] = <<>>
    BY <1>2
  <2> QED
    BY <2>1 DEF Sent
<1>5. CASE 2 * k <= s
  <2>1. x.units = <<2 * k - 1, 2 * k>>
    BY <1>3, <1>5
  <2>2. 2 * k - 1 # 0 /\ 2 * k # 0
    BY <1>1
  <2>3. u = <<buf[2 * k - 1], buf[2 * k]>>
    BY <2>1, <2>2
  <2> PICK p, q : p = buf[2 * k - 1] /\ q = buf[2 * k]
    OBVIOUS
  <2>4. Sent = <<p, q>>
    BY <1>4, <2>3
  <2>5. IsSeq(<<p, q>>)
    <3>1. <<p, q>> \in Seq({p, q})
      OBVIOUS
    <3> QED
      BY <3>1 DEF IsSeq
  <2> QED
    BY <1>2, <1>5, <2>4, <2>5
<1>6. CASE ~(2 * k <= s)
  <2>1. x.units = <<s>> /\ s = 2 * k - 1
    BY <1>1, <1>3, <1>6
  <2>2. s # 0
    BY <1>1, <2>1
  <2>3. u = <<buf[s]>>
    BY <2>1, <2>2
  <2> PICK p : p = buf[s]
    OBVIOUS
  <2>4. Sent = <<p>>
    BY <1>4, <2>3
  <2> QED
    BY <1>2, <1>6, <2>1, <2>4, SeqFacts
<1> QED
  BY <1>5, <1>6

(* The MECHACON when k chunks of the header of a boot are in: with noise for a key it fails. *)
ChunksSent(k) ==
    /\ mecha.op = "header" /\ mecha.mode = 1 /\ mecha.left = KELF_header_size(file) /\ IsSeq(mecha.got)
    /\ k < HeaderChunks(file) => Len(mecha.got) = 2 * k
    /\ KbitOffset(file) + 1 <= Len(mecha.got) => mecha.got[KbitOffset(file) + 1] = Noise
    /\ Len(mecha.got) = mecha.left => mecha.calc = "fails"

(* A boot on another card when n of its steps are done: the card turns the half bound to the card
   of the signing into noise, which goes back into the buffer. *)
BootAt(n) ==
    /\ todo = After(SecrCardBootHeader(file), n) \o <<Blocks(1)>>
    /\ DOMAIN buf = 1 .. file.units
    /\ n = 0 => buf[KbitOffset(file) + 1] = Bound("Kbit1", signed.card, file)
    /\ n \in 1 .. 4 => loc["Kbit1"] = Bound("Kbit1", signed.card, file)
    /\ n = 3 /\ card.auth => card.val = Bound("Kbit1", signed.card, file)
    /\ n = 4 /\ card.auth => card.val = Noise
    /\ n >= 5 => loc["Kbit1"] = Noise
    /\ n >= 19 => buf[KbitOffset(file) + 1] = Noise
    /\ n >= 20 => \E k \in Nat : n = 20 + k /\ ChunksSent(k)

(* Late in the header the noise is all that matters. *)
LEMMA BootLate ==
  ASSUME NEW n \in Nat, n >= 5,
         (todo = After(SecrCardBootHeader(file), n) \o <<Blocks(1)>>)', (DOMAIN buf = 1 .. file.units)',
         (loc["Kbit1"] = Noise)', n >= 19 => (buf[KbitOffset(file) + 1] = Noise)',
         n >= 20 => \E k \in Nat : n = 20 + k /\ ChunksSent(k)'
  PROVE  BootAt(n)'
<1>1. n # 0 /\ n \notin 1 .. 4 /\ n # 3 /\ n # 4
  OBVIOUS
<1>2. /\ (n = 0 => buf[KbitOffset(file) + 1] = Bound("Kbit1", signed.card, file))'
      /\ (n \in 1 .. 4 => loc["Kbit1"] = Bound("Kbit1", signed.card, file))'
      /\ (n = 3 /\ card.auth => card.val = Bound("Kbit1", signed.card, file))'
      /\ (n = 4 /\ card.auth => card.val = Noise)'
  BY <1>1
<1>3. (n >= 20 => \E k \in Nat : n = 20 + k /\ ChunksSent(k))'
  OBVIOUS
<1>4. (n >= 19 => buf[KbitOffset(file) + 1] = Noise)' /\ (n >= 5 => loc["Kbit1"] = Noise)'
  OBVIOUS
<1> QED
  BY <1>2, <1>3, <1>4 DEF BootAt

(* The invariant of a boot: on another card it never comes to the blocks. *)
BootInv ==
    fn = "boot" =>
        /\ file = signed.file /\ signed.card # "none"
        /\ signed.card # start => \E n \in 0 .. 20 + HeaderChunks(file) : BootAt(n)

(* Where a boot stands. *)
LEMMA BootFront ==
  ASSUME file \in Files, NEW c, c = SecrCardBootHeader(file), NEW n \in 0 .. 20 + HeaderChunks(file), BootAt(n)
  PROVE  /\ BootStand(file, c) /\ n \in Nat /\ HeaderChunks(file) \in Nat
         /\ todo # <<>> /\ x = c[n + 1] /\ Tail(todo) = After(c, n + 1) \o <<Blocks(1)>>
<1> PICK t, m : t = <<Blocks(1)>> /\ m = HeaderChunks(file)
  OBVIOUS
<1>1. BootStand(file, c)
  BY BootAre
<1>2. m \in Nat
  BY Sizes DEF HeaderChunks
<1>3. IsSeq(c) /\ IsSeq(t) /\ n \in Nat /\ n < Len(c)
  <2>1. IsSeq(c) /\ IsSeq(t) /\ Len(c) > 21 + m /\ n \in 0 .. 20 + m
    BY <1>1, SeqFacts DEF BootStand
  <2>2. Len(c) \in Nat
    BY <2>1, Fronts
  <2> QED
    BY <1>2, <2>1, <2>2
<1>4. After(c, n) \o t # <<>> /\ Head(After(c, n) \o t) = c[n + 1] /\ Tail(After(c, n) \o t) = After(c, n + 1) \o t
  BY ONLY <1>3, FrontStep
<1>5. todo = After(c, n) \o t
  BY DEF BootAt
<1> QED
  BY <1>1, <1>2, <1>3, <1>4, <1>5 DEF x

(* The card works on a key only when it is authenticated, and stays so. *)
LEMMA OnlyPaired ==
  ASSUME HInv, fn \in {"sign", "boot"}, NEW how \in {"done", "lost", "unheard", "garbled"}, Exchange(how),
         fn' # "failed", x.to = "card"
  PROVE  card.auth
<1>1. x.cmd \in CardKeyCmds /\ Device.ok
  BY FileExchangeOn
<1> PICK cmd, in, a : cmd = x.cmd /\ in = Sent /\ a = Device
  OBVIOUS
<1>2. cmd \in CardKeyCmds /\ a.ok /\ a = CardCrypto(card, cmd, in)
  BY <1>1 DEF Device, CardDoes, CardKeyCmds
<1>3. a.ok => card.auth
  BY <1>2 DEF CardCrypto
<1> QED
  BY <1>2, <1>3

(* An exchange with the card when a file boots on another card. *)
LEMMA BootCardExchange ==
  ASSUME HInv, OfStart, fn = "boot", signed.card # start,
         NEW how \in {"done", "lost", "unheard", "garbled"}, Exchange(how), fn' # "failed",
         NEW n \in 1 .. 16, BootAt(n), n <= 20 + HeaderChunks(file)
  PROVE  BootAt(n + 1)'
<1> PICK c : c = SecrCardBootHeader(file)
  OBVIOUS
<1>0. file \in Files /\ "Kbit1" \in DOMAIN loc
  BY HalvesAre DEF HInv, TypeInv, LocalNames
<1>1. /\ BootStand(file, c) /\ HeaderChunks(file) \in Nat
      /\ x = c[n + 1] /\ Tail(todo) = After(c, n + 1) \o <<Blocks(1)>>
  <2>1. HeaderChunks(file) \in Nat
    BY <1>0, Sizes DEF HeaderChunks
  <2>2. n \in 0 .. 20 + HeaderChunks(file)
    BY <2>1
  <2> QED
    BY <1>0, <2>1, <2>2, BootFront
<1>2. /\ todo' = Tail(todo) /\ loc' = Filled(how, TRUE) /\ file' = file /\ buf' = buf /\ start' = start
      /\ signed' = signed
  BY FileExchangeOn, ExchangeStep DEF fileVars
<1> PICK v, d : v = Bound("Kbit1", signed.card, file) /\ d = loc'["Kbit1"]
  OBVIOUS
<1>3. (todo = After(SecrCardBootHeader(file), n + 1) \o <<Blocks(1)>>)' /\ (DOMAIN buf = 1 .. file.units)'
  BY <1>1, <1>2 DEF BootAt, Blocks
<1>4. /\ \A u \in 6 .. 17 : c[u].to = "card" /\ \A j \in DOMAIN c[u].get : c[u].get[j] # "Kbit1"
      /\ c[2] = card_auth("40") /\ c[3] = card_auth_write("Kbit1", "41") /\ c[4] = card_auth("42")
      /\ c[5] = card_auth_read("Kbit1", "43")
  BY <1>1 DEF BootStand
<1>5. /\ n \in 1 .. 4 => loc["Kbit1"] = v
      /\ n = 3 /\ card.auth => card.val = v
      /\ n = 4 /\ card.auth => card.val = Noise
      /\ n >= 5 => loc["Kbit1"] = Noise
  BY DEF BootAt
<1>6. n # 4 => d = loc["Kbit1"]
  <2> SUFFICES ASSUME n # 4 PROVE \A j \in DOMAIN x.get : x.get[j] # "Kbit1"
    BY <1>0, <1>2, FilledAt
  <2>1. n = 1 \/ n = 2 \/ n = 3 \/ n + 1 \in 6 .. 17
    OBVIOUS
  <2>2. n = 1 \/ n = 2 \/ n = 3 => x.get = <<>>
    <3>1. \A s, w : card_auth(s).get = <<>> /\ card_auth_write(w, s).get = <<>>
      BY DEF card_auth, card_auth_write, ToCard, Exchanged
    <3>2. (n = 1 => x = c[2]) /\ (n = 2 => x = c[3]) /\ (n = 3 => x = c[4])
      BY <1>1
    <3> QED
      BY ONLY <1>4, <3>1, <3>2
  <2>3. n + 1 \in 6 .. 17 => \A j \in DOMAIN c[n + 1].get : c[n + 1].get[j] # "Kbit1"
    BY ONLY <1>4
  <2>4. x = c[n + 1]
    BY <1>1
  <2> QED
    BY ONLY <2>1, <2>2, <2>3, <2>4
<1>7. n = 2 => card'.val = v
  <2> SUFFICES ASSUME n = 2 PROVE card'.val = v
    OBVIOUS
  <2>1. x = card_auth_write("Kbit1", "41") /\ loc["Kbit1"] = v
    BY <1>1, <1>4, <1>5
  <2>2. card'.val = loc["Kbit1"]
    BY <2>1, CardOn
  <2> QED
    BY <2>1, <2>2
<1>8. n = 3 => card'.val = Noise
  <2> SUFFICES ASSUME n = 3 PROVE card'.val = Noise
    OBVIOUS
  <2>1. x = card_auth("42")
    BY <1>1, <1>4
  <2>2. card.auth
    <3>1. x.to = "card"
      BY <2>1 DEF card_auth, ToCard, Exchanged
    <3> QED
      BY <3>1, OnlyPaired
  <2>3. card.val = v /\ signed.card # card.id
    BY <1>5, <2>2 DEF OfStart
  <2>4. DecryptFor(card, v) = Noise
    <3>1. "Kbit1" \in ToSet(Halves)
      BY HalvesAre
    <3> QED
      BY <2>3, <3>1, Crypts DEF Bound
  <2> QED
    BY <2>1, <2>3, <2>4, CardOn
<1>9. n = 4 => d = Noise
  <2> SUFFICES ASSUME n = 4 PROVE d = Noise
    OBVIOUS
  <2>1. x = card_auth_read("Kbit1", "43")
    BY <1>1, <1>4
  <2>2. how = "done" /\ Device.out = <<card.val>> /\ card.auth
    BY <2>1, CardOn
  <2>3. x.get = <<"Kbit1">>
    BY <2>1 DEF card_auth_read, ToCard, Exchanged
  <2>4. d = card.val
    BY <1>0, <1>2, <2>2, <2>3, FilledAt
  <2> QED
    BY <1>5, <2>2, <2>4
<1>10. /\ n + 1 \in 1 .. 4 => d = v
       /\ n + 1 = 3 /\ card'.auth => card'.val = v
       /\ n + 1 = 4 /\ card'.auth => card'.val = Noise
       /\ n + 1 >= 5 => d = Noise
       /\ n + 1 # 0 /\ ~(n + 1 >= 19) /\ ~(n + 1 >= 20)
  <2>1. n = 1 \/ n = 2 \/ n = 3 \/ n = 4 \/ n \in 5 .. 16
    OBVIOUS
  <2>2. CASE n = 1
    BY <1>5, <1>6, <2>2
  <2>3. CASE n = 2
    BY <1>5, <1>6, <1>7, <2>3
  <2>4. CASE n = 3
    BY <1>5, <1>6, <1>8, <2>4
  <2>5. CASE n = 4
    BY <1>9, <2>5
  <2>6. CASE n \in 5 .. 16
    BY <1>5, <1>6, <2>6
  <2> QED
    BY <2>1, <2>2, <2>3, <2>4, <2>5, <2>6
<1>11. Bound("Kbit1", signed.card, file)' = v
  BY <1>2 DEF Bound
<1> QED
  BY <1>3, <1>10, <1>11 DEF BootAt

(* A chunk of the header is accepted: the last one makes the check of the header fail. *)
LEMMA BootChunk ==
  ASSUME HInv, fn = "boot", NEW how \in {"done", "lost", "unheard", "garbled"}, Exchange(how), fn' # "failed",
         NEW i \in Nat, NEW k, k = i + 1, k <= HeaderChunks(file), ChunksSent(i),
         x = write_data(Chunks(0, KELF_header_size(file))[k]),
         buf[KbitOffset(file) + 1] = Noise
  PROVE  ChunksSent(k)'
<1> PICK s, p, m, b, g, in, a : /\ s = KELF_header_size(file) /\ p = KbitOffset(file) + 1 /\ m = HeaderChunks(file)
                                /\ b = Len(mecha.got) /\ g = mecha.got /\ in = Sent /\ a = Device
  OBVIOUS
<1>0. file \in Files /\ IsMecha(mecha)
  BY DEF HInv, TypeInv
<1>1. s \in Nat /\ m = (s + 1) \div 2 /\ p \in Nat /\ p + 4 <= s /\ p >= 1
  <2>1. KbitOffset(file) \in Nat /\ KbitOffset(file) + 5 <= KELF_header_size(file) /\ KELF_header_size(file) \in Nat
    BY <1>0, Places
  <2> QED
    BY <2>1 DEF HeaderChunks
<1>2. k \in 1 .. (s + 1) \div 2
  <2>1. m \in Nat /\ k <= m
    BY <1>0, Sizes DEF HeaderChunks
  <2> QED
    BY <1>1, <2>1
<1>3. /\ x.to = "mecha" /\ x.cmd = "8D"
      /\ IsSeq(in)
      /\ 2 * k <= s => Len(in) = 2 /\ in[1] = buf[2 * k - 1] /\ in[2] = buf[2 * k]
      /\ ~(2 * k <= s) => Len(in) = 1 /\ s = 2 * k - 1
  BY <1>1, <1>2, ChunkSent
<1>4. /\ mecha.op = "header" /\ mecha.mode = 1 /\ mecha.left = s /\ IsSeq(g)
      /\ i < m => b = 2 * i
      /\ p <= b => g[p] = Noise
  BY DEF ChunksSent
<1>5. k \in Nat /\ k >= 1 /\ k <= m /\ m \in Nat /\ 2 * m <= s + 1 /\ 2 * m >= s
  <2>1. k = i + 1 /\ k <= m /\ i \in Nat
    BY <1>2
  <2> QED
    BY ONLY <1>1, <2>1
<1>6. b = 2 * k - 2 /\ b \in Nat
  <2>1. i < m /\ 2 * i = 2 * k - 2
    BY <1>5
  <2> QED
    BY <1>4, <2>1
<1>7. a.ok /\ a = MechaTakes(mecha, in) /\ mecha' = a.dev
  BY <1>3, MechaOn
<1> PICK all : all = g \o in
  OBVIOUS
<1>8. /\ mecha'.op = "header" /\ mecha'.mode = 1 /\ mecha'.left = s /\ mecha'.got = all
      /\ ~(Len(all) < s) => mecha'.calc = (IF HeaderGood(mecha, all) THEN "busy" ELSE "fails")
  <2>1. /\ a.ok /\ a = MechaTakes(mecha, in) /\ IsMecha(mecha) /\ mecha.got \o in = all
        /\ mecha.op = "header" /\ mecha.mode = 1 /\ mecha.left = s
    BY <1>0, <1>4, <1>7
  <2>2. /\ a.dev.op = "header" /\ a.dev.mode = 1 /\ a.dev.left = s /\ a.dev.got = all
        /\ ~(Len(all) < s) => a.dev.calc = (IF HeaderGood(mecha, all) THEN "busy" ELSE "fails")
    <3>1. /\ a.dev.op = mecha.op /\ a.dev.mode = mecha.mode /\ a.dev.left = mecha.left
          /\ a.dev.got = mecha.got \o in
          /\ a.dev.calc = (IF Len(mecha.got \o in) < mecha.left THEN mecha.calc
                           ELSE IF mecha.op = "header"
                                THEN IF HeaderGood(mecha, mecha.got \o in) THEN "busy" ELSE "fails"
                                ELSE IF BlockGood(mecha, mecha.got \o in) THEN "busy" ELSE "fails")
      BY ONLY <2>1, MechaTakesStep
    <3> QED
      BY ONLY <2>1, <3>1
  <2> QED
    BY ONLY <1>7, <2>2
<1>9. /\ IsSeq(all) /\ Len(all) = b + Len(in) /\ Len(in) \in Nat
      /\ \A l \in 1 .. b : all[l] = g[l]
      /\ \A l \in 1 .. Len(in) : all[b + l] = in[l]
  BY <1>3, <1>4, ConcatAt
<1>10. p <= Len(all) => all[p] = Noise
  <2> SUFFICES ASSUME p <= Len(all) PROVE all[p] = Noise
    OBVIOUS
  <2>1. CASE p <= b
    <3>1. p \in 1 .. b
      BY <1>1, <1>6, <2>1
    <3> QED
      BY <1>4, <1>9, <2>1, <3>1
  <2>2. CASE ~(p <= b)
    <3>1. 2 * k <= s
      <4> SUFFICES ASSUME ~(2 * k <= s) PROVE FALSE
        OBVIOUS
      <4>1. s = 2 * k - 1 /\ b = 2 * k - 2 /\ p + 4 <= s /\ ~(p <= b) /\ k \in Nat /\ p \in Nat /\ s \in Nat /\ b \in Nat
        BY <1>1, <1>3, <1>5, <1>6, <2>2
      <4> QED
        BY ONLY <4>1
    <3>2. Len(in) = 2 /\ in[1] = buf[2 * k - 1] /\ in[2] = buf[2 * k] /\ Len(all) = b + 2
      BY <1>3, <1>9, <3>1
    <3>3. k \in Nat /\ p \in Nat /\ b \in Nat /\ b = 2 * k - 2 /\ ~(p <= b) /\ p <= b + 2
      BY <1>1, <1>5, <1>6, <2>2, <3>2
    <3>4. \/ p = b + 1 /\ p = 2 * k - 1
          \/ p = b + 2 /\ p = 2 * k
      BY ONLY <3>3
    <3>5. all[b + 1] = in[1] /\ all[b + 2] = in[2]
      <4>1. 1 \in 1 .. Len(in) /\ 2 \in 1 .. Len(in)
        BY <3>2
      <4> QED
        BY <1>9, <4>1
    <3>6. buf[p] = Noise
      OBVIOUS
    <3> QED
      BY <3>2, <3>4, <3>5, <3>6
  <2> QED
    BY <2>1, <2>2
<1>11. Len(all) = s => mecha'.calc = "fails"
  <2> SUFFICES ASSUME Len(all) = s PROVE mecha'.calc = "fails"
    OBVIOUS
  <2>1. p <= Len(all) /\ ~(Len(all) < s)
    BY ONLY <1>1, Len(all) = s
  <2>2. all[p] = Noise
    BY <1>10, <2>1
  <2>3. ~HeaderGood(mecha, all)
    <3> SUFFICES ASSUME HeaderGood(mecha, all) PROVE FALSE
      OBVIOUS
    <3>1. \A j \in 1 .. 4 : all[KbitOffset(file) + j] = Half(Halves[j], mecha.peer, file.keys)
      BY <1>4 DEF HeaderGood
    <3> PICK v, h, j : v = all[p] /\ h = Half(Halves[j], mecha.peer, file.keys) /\ j = 1
      OBVIOUS
    <3>2. j \in 1 .. 4 /\ p = KbitOffset(file) + j
      OBVIOUS
    <3>3. all[KbitOffset(file) + j] = Half(Halves[j], mecha.peer, file.keys)
      BY ONLY <3>1, <3>2
    <3>4. v = h
      BY <3>2, <3>3
    <3>5. v.n = "noise"
      BY <2>2 DEF Noise
    <3>6. h.n = "Kbit1"
      BY DEF Half, Halves
    <3> QED
      BY <3>4, <3>5, <3>6
  <2> QED
    BY <1>8, <2>1, <2>3
<1>12. k < m => Len(all) = 2 * k
  <2> SUFFICES ASSUME k < m PROVE Len(all) = 2 * k
    OBVIOUS
  <2>1. k \in Nat /\ m \in Nat /\ s \in Nat /\ k < m /\ 2 * m <= s + 1
    BY <1>1, <1>5
  <2>2. 2 * k <= s
    BY ONLY <2>1
  <2>3. Len(all) = b + 2 /\ b = 2 * k - 2 /\ k \in Nat
    BY <1>3, <1>5, <1>6, <1>9, <2>2
  <2> QED
    BY ONLY <2>3
<1>13. file' = file
  BY ExchangeStep DEF fileVars
<1> QED
  BY <1>8, <1>9, <1>10, <1>11, <1>12, <1>13 DEF ChunksSent

(* An exchange with the MECHACON when a file boots on another card: the script never gets past the
   answer to the header. *)
LEMMA BootMechaExchange ==
  ASSUME HInv, fn = "boot", NEW how \in {"done", "lost", "unheard", "garbled"}, Exchange(how), fn' # "failed",
         NEW n \in 19 .. 20 + HeaderChunks(file), BootAt(n)
  PROVE  n + 1 \in 19 .. 20 + HeaderChunks(file) /\ BootAt(n + 1)'
<1> PICK c, m : c = SecrCardBootHeader(file) /\ m = HeaderChunks(file)
  OBVIOUS
<1>0. file \in Files /\ "Kbit1" \in DOMAIN loc
  BY HalvesAre DEF HInv, TypeInv, LocalNames
<1>1. /\ BootStand(file, c) /\ m \in Nat /\ n \in Nat /\ n >= 19 /\ n <= 20 + m
      /\ x = c[n + 1] /\ Tail(todo) = After(c, n + 1) \o <<Blocks(1)>>
  <2>1. m \in Nat
    BY <1>0, Sizes DEF HeaderChunks
  <2>2. n \in 0 .. 20 + HeaderChunks(file) /\ n >= 19 /\ n <= 20 + m
    BY <2>1
  <2> QED
    BY <1>0, <2>1, <2>2, BootFront
<1>2. /\ todo' = Tail(todo) /\ loc' = Filled(how, TRUE) /\ file' = file /\ buf' = buf /\ start' = start
      /\ signed' = signed
  BY FileExchangeOn, ExchangeStep DEF fileVars
<1>3. (todo = After(SecrCardBootHeader(file), n + 1) \o <<Blocks(1)>>)' /\ (DOMAIN buf = 1 .. file.units)'
  BY <1>1, <1>2 DEF BootAt, Blocks
<1>4. /\ c[20] = write_HD_start(1, file)
      /\ \A k \in 1 .. m : c[20 + k] = write_data(Chunks(0, KELF_header_size(file))[k])
      /\ c[21 + m] = pol_cal_cmplt
  BY <1>1 DEF BootStand
<1>5. /\ DOMAIN buf = 1 .. file.units /\ buf[KbitOffset(file) + 1] = Noise /\ loc["Kbit1"] = Noise
      /\ n >= 20 => \E k \in Nat : n = 20 + k /\ ChunksSent(k)
  BY <1>1 DEF BootAt
<1>14. x.get = <<>> => loc'["Kbit1"] = Noise
  <2> SUFFICES ASSUME x.get = <<>> PROVE loc'["Kbit1"] = loc["Kbit1"]
    BY <1>5
  <2>1. \A j \in DOMAIN x.get : x.get[j] # "Kbit1"
    OBVIOUS
  <2> QED
    BY <1>0, <1>2, <2>1, FilledAt
<1>6. CASE n = 19
  <2>1. x.to = "mecha" /\ x.cmd = "90" /\ x.arg[1] = 1 /\ x.arg[2] = KELF_header_size(file) /\ x.get = <<>>
    BY <1>1, <1>4, <1>6 DEF write_HD_start, Numbered, ToMecha, Exchanged
  <2>2. mecha'.op = "header" /\ mecha'.mode = 1 /\ mecha'.left = KELF_header_size(file) /\ mecha'.got = <<>>
    BY <2>1, MechaOn
  <2>3. KELF_header_size(file) >= 5 /\ KELF_header_size(file) \in Nat /\ KbitOffset(file) \in Nat
    BY <1>0, Places
  <2>4. IsSeq(mecha'.got) /\ Len(mecha'.got) = 0
    BY <2>2, SeqFacts
  <2>5. ChunksSent(0)'
    <3>1. Len(mecha'.got) # mecha'.left /\ ~(KbitOffset(file) + 1 <= Len(mecha'.got)) /\ 2 * 0 = 0
      BY <2>2, <2>3, <2>4
    <3> QED
      BY <1>2, <2>2, <2>4, <3>1 DEF ChunksSent
  <2>6. loc'["Kbit1"] = Noise
    BY <1>14, <2>1
  <2>7. n + 1 = 20 /\ 20 \in 19 .. 20 + m
    BY <1>1, <1>6
  <2> PICK r, z : r = 20 /\ z = 0
    OBVIOUS
  <2>8. r \in Nat /\ r >= 5 /\ z \in Nat /\ r = 20 + z /\ ChunksSent(z)' /\ n + 1 = r /\ r \in 19 .. 20 + m
    BY <2>5, <2>7
  <2>9. /\ (todo = After(SecrCardBootHeader(file), r) \o <<Blocks(1)>>)' /\ (DOMAIN buf = 1 .. file.units)'
        /\ (loc["Kbit1"] = Noise)' /\ (buf[KbitOffset(file) + 1] = Noise)'
    BY <1>2, <1>3, <1>5, <2>6, <2>8
  <2>10. BootAt(r)'
    BY <2>8, <2>9, BootLate
  <2> QED
    BY <2>8, <2>10
<1>7. CASE n >= 20 /\ n < 20 + m
  <2>1. PICK i \in Nat : n = 20 + i /\ ChunksSent(i)
    BY <1>5, <1>7
  <2> PICK k, r : k = i + 1 /\ r = n + 1
    OBVIOUS
  <2>2. k \in 1 .. m /\ k \in Nat /\ k <= m /\ r = 20 + k /\ r \in Nat /\ r >= 5 /\ r \in 19 .. 20 + m
    BY <1>1, <1>7, <2>1
  <2>3. x = write_data(Chunks(0, KELF_header_size(file))[k])
    BY <1>1, <1>4, <2>2
  <2>4. ChunksSent(k)'
    BY <1>5, <2>1, <2>2, <2>3, BootChunk
  <2>5. x.get = <<>>
    BY <2>3 DEF write_data, ToMecha, Exchanged
  <2>6. loc'["Kbit1"] = Noise
    BY <1>14, <2>5
  <2>7. /\ (todo = After(SecrCardBootHeader(file), r) \o <<Blocks(1)>>)' /\ (DOMAIN buf = 1 .. file.units)'
        /\ (loc["Kbit1"] = Noise)' /\ (buf[KbitOffset(file) + 1] = Noise)'
    BY <1>2, <1>3, <1>5, <2>6
  <2>8. BootAt(r)'
    BY <2>2, <2>4, <2>7, BootLate
  <2> QED
    BY <2>2, <2>8
<1>8. n # 20 + m
  <2> SUFFICES ASSUME n = 20 + m PROVE FALSE
    OBVIOUS
  <2>1. n + 1 = 21 + m /\ n >= 20
    BY <1>1
  <2>2. x = pol_cal_cmplt
    BY <1>1, <1>4, <2>1
  <2>3. x.to = "mecha" /\ x.cmd = "8F"
    BY <2>2 DEF pol_cal_cmplt, ToMecha, Exchanged
  <2>4. mecha.calc = "ok" /\ Len(mecha.got) = mecha.left
    BY <2>3, MechaOn
  <2>5. PICK k \in Nat : ChunksSent(k)
    BY <1>5, <2>1
  <2>6. mecha.calc = "fails"
    BY <2>4, <2>5 DEF ChunksSent
  <2> QED
    BY <2>4, <2>6
<1>9. n = 19 \/ (n >= 20 /\ n < 20 + m)
  BY <1>1, <1>8
<1> QED
  BY <1>6, <1>7, <1>9

(* Every exchange keeps it. *)
LEMMA BootExchangeKeeps ==
  ASSUME HInv, OfStart, BootInv, NEW how \in {"done", "lost", "unheard", "garbled"}, Exchange(how)
  PROVE  BootInv'
<1> SUFFICES ASSUME fn' = "boot" PROVE BootInv'
  BY DEF BootInv
<1>1. fn = "boot"
  BY DEF Exchange, Next_
<1>2. /\ UNCHANGED <<file, signed, start>> /\ x.to \in {"card", "mecha"} /\ fn' # "failed"
  BY ExchangeStep DEF fileVars
<1>3. file = signed.file /\ signed.card # "none" /\ file \in Files
  BY <1>1 DEF BootInv, HInv, TypeInv
<1>4. ASSUME signed.card # start PROVE \E j \in 0 .. 20 + HeaderChunks(file) : BootAt(j)'
  <2> PICK c, m : c = SecrCardBootHeader(file) /\ m = HeaderChunks(file)
    OBVIOUS
  <2>1. PICK n \in 0 .. 20 + m : BootAt(n)
    BY <1>1, <1>4 DEF BootInv
  <2>2. BootStand(file, c) /\ n \in Nat /\ m \in Nat /\ x = c[n + 1]
    BY <1>3, <2>1, BootFront
  <2>3. n \notin {0, 17, 18}
    BY <1>2, <1>3, <2>2, BootKinds
  <2>4. n \in 1 .. 16 \/ n \in 19 .. 20 + m
    BY <2>1, <2>2, <2>3
  <2>5. CASE n \in 1 .. 16
    <3>1. n <= 20 + m /\ n + 1 \in 0 .. 20 + m
      BY <2>2, <2>5
    <3>2. BootAt(n + 1)'
      BY <1>1, <1>2, <1>4, <2>1, <2>5, <3>1, BootCardExchange
    <3> QED
      BY <3>1, <3>2
  <2>6. CASE n \in 19 .. 20 + m
    <3>1. n + 1 \in 19 .. 20 + m /\ BootAt(n + 1)'
      BY <1>1, <1>2, <2>1, <2>6, BootMechaExchange
    <3>2. n + 1 \in 0 .. 20 + m
      BY <2>2, <3>1
    <3> QED
      BY <3>1, <3>2
  <2> QED
    BY <2>4, <2>5, <2>6
<1> QED
  BY <1>2, <1>3, <1>4 DEF BootInv, HeaderChunks

(* A step of a boot that reaches no device: the halves are taken from the buffer, or stored there. *)
LEMMA BootSelf ==
  ASSUME HInv, fn = "boot", SelfStep, NEW n \in 0 .. 20 + HeaderChunks(file), BootAt(n), fn' = "boot"
  PROVE  n + 1 \in 0 .. 20 + HeaderChunks(file) /\ BootAt(n + 1)'
<1> PICK c, m : c = SecrCardBootHeader(file) /\ m = HeaderChunks(file)
  OBVIOUS
<1>0. file \in Files /\ DOMAIN loc = LocalNames
  BY DEF HInv, TypeInv
<1>1. /\ BootStand(file, c) /\ m \in Nat /\ n \in Nat
      /\ x = c[n + 1] /\ Tail(todo) = After(c, n + 1) \o <<Blocks(1)>>
  BY <1>0, BootFront
<1>2. /\ todo' = Tail(todo) /\ UNCHANGED <<file, signed, start, card>> /\ x.to = "self"
  BY DEF SelfStep, Next_, devices
<1>3. /\ buf' = (CASE x.cmd = "store_kbit" -> store_kbit(buf)
                 [] x.cmd = "store_kc" -> store_kc(buf)
                 [] x.cmd = "store_icvps2" -> store_icvps2(buf)
                 [] OTHER -> buf)
      /\ loc' = (IF x.cmd = "get_keys"
               THEN [v \in DOMAIN loc |->
                       IF v \in ToSet(Halves)
                       THEN buf[KeyUnit(file, CHOOSE k \in 1..4 : Halves[k] = v)]
                       ELSE loc[v]]
               ELSE loc)
  BY DEF SelfStep
<1>4. n \in {0, 17, 18}
  <2>1. n \notin 1 .. 16 /\ ~(n >= 19)
    BY <1>0, <1>1, <1>2, BootKinds
  <2> QED
    BY <1>1, <2>1
<1>5. n + 1 \in 0 .. 20 + m
  BY <1>1, <1>4
<1>6. (todo = After(SecrCardBootHeader(file), n + 1) \o <<Blocks(1)>>)'
  BY <1>1, <1>2 DEF Blocks
<1> PICK p, l : p = KbitOffset(file) + 1 /\ l = file.units
  OBVIOUS
<1>7. DOMAIN buf = 1 .. l /\ KbitOffset(file) \in Nat /\ p \in 1 .. l /\ p \in Nat /\ KcOffset(file) = KbitOffset(file) + 2
  <2>1. DOMAIN buf = 1 .. l
    BY DEF BootAt
  <2>2. KbitOffset(file) \in Nat /\ KbitOffset(file) + 5 <= KELF_header_size(file) /\ KELF_header_size(file) \in Nat
        /\ KELF_header_size(file) <= l /\ l \in Nat /\ KcOffset(file) = KbitOffset(file) + 2
    BY <1>0, Places
  <2> QED
    BY <2>1, <2>2
<1>8. CASE n = 0
  <2>1. x.cmd = "get_keys"
    BY <1>1, <1>8 DEF BootStand, Self, Exchanged
  <2>2. buf' = buf /\ buf[p] = Bound("Kbit1", signed.card, file)
    BY <1>3, <1>8, <2>1 DEF BootAt
  <2>3. loc'["Kbit1"] = buf[p]
    <3>1. "Kbit1" \in DOMAIN loc /\ "Kbit1" \in ToSet(Halves)
      BY <1>0, HalvesAre DEF LocalNames
    <3>2. (CHOOSE k \in 1..4 : Halves[k] = "Kbit1") = 1
      BY DEF Halves
    <3>3. loc'["Kbit1"] = buf[KeyUnit(file, CHOOSE k \in 1..4 : Halves[k] = "Kbit1")]
      BY <1>3, <2>1, <3>1
    <3>4. KeyUnit(file, 1) = p
      BY <1>0, KeyUnits
    <3> QED
      BY <3>2, <3>3, <3>4
  <2>4. (loc["Kbit1"] = Bound("Kbit1", signed.card, file))'
    BY <1>2, <2>2, <2>3 DEF Bound
  <2>5. n + 1 = 1
    BY <1>8
  <2>6. (DOMAIN buf = 1 .. file.units)'
    BY <1>2, <1>7, <2>2
  <2>7. (todo = After(SecrCardBootHeader(file), 1) \o <<Blocks(1)>>)'
    BY <1>6, <2>5
  <2>8. BootAt(1)'
    BY <2>4, <2>6, <2>7 DEF BootAt
  <2> QED
    BY <1>5, <2>5, <2>8
<1>9. CASE n = 17
  <2>1. x.cmd = "store_kc"
    BY <1>1, <1>9 DEF BootStand, Self, Exchanged
  <2>2. DOMAIN buf' = 1 .. l /\ loc' = loc
    BY <1>3, <1>7, <2>1 DEF store_kc, Stored
  <2>3. loc["Kbit1"] = Noise
    BY <1>9 DEF BootAt
  <2>4. n + 1 = 18
    BY <1>9
  <2>5. (todo = After(SecrCardBootHeader(file), 18) \o <<Blocks(1)>>)'
    BY <1>6, <2>4
  <2> PICK r : r = 18
    OBVIOUS
  <2>8. r \in Nat /\ r >= 5 /\ ~(r >= 19) /\ ~(r >= 20) /\ n + 1 = r
    BY <2>4
  <2>6. /\ (todo = After(SecrCardBootHeader(file), r) \o <<Blocks(1)>>)' /\ (DOMAIN buf = 1 .. file.units)'
        /\ (loc["Kbit1"] = Noise)'
    BY <1>2, <2>2, <2>3, <2>5
  <2>7. BootAt(r)'
    BY <2>6, <2>8, BootLate
  <2> QED
    BY <1>5, <2>7, <2>8
<1>10. CASE n = 18
  <2>1. x.cmd = "store_kbit"
    BY <1>1, <1>10 DEF BootStand, Self, Exchanged
  <2>2. loc["Kbit1"] = Noise
    BY <1>10 DEF BootAt
  <2>3. DOMAIN buf' = 1 .. l /\ loc' = loc /\ buf'[p] = Noise
    <3>1. buf' = Stored(buf, KbitOffset(file), <<loc["Kbit1"], loc["Kbit2"]>>) /\ loc' = loc
      BY <1>3, <2>1, Copies DEF store_kbit
    <3> PICK two : two = <<loc["Kbit1"], loc["Kbit2"]>>
      OBVIOUS
    <3>2. p - KbitOffset(file) = 1
      BY <1>7
    <3>3. 1 \in DOMAIN two /\ two[1] = Noise
      BY <2>2
    <3> QED
      BY <1>7, <3>1, <3>2, <3>3 DEF Stored
  <2>4. n + 1 = 19
    BY <1>10
  <2>5. (todo = After(SecrCardBootHeader(file), 19) \o <<Blocks(1)>>)'
    BY <1>6, <2>4
  <2> PICK r : r = 19
    OBVIOUS
  <2>8. r \in Nat /\ r >= 5 /\ ~(r >= 20) /\ n + 1 = r
    BY <2>4
  <2>6. /\ (todo = After(SecrCardBootHeader(file), r) \o <<Blocks(1)>>)' /\ (DOMAIN buf = 1 .. file.units)'
        /\ (loc["Kbit1"] = Noise)' /\ (buf[KbitOffset(file) + 1] = Noise)'
    BY <1>2, <2>2, <2>3, <2>5
  <2>7. BootAt(r)'
    BY <2>6, <2>8, BootLate
  <2> QED
    BY <1>5, <2>7, <2>8
<1> QED
  BY <1>4, <1>8, <1>9, <1>10

(* So does every step inside secrman: the header has no call of secrsif and no loop. *)
LEMMA BootInnerKeeps ==
  ASSUME HInv, BootInv, (\E ok \in BOOLEAN : RpcStep(ok)) \/ SelfStep \/ NextBlock
  PROVE  BootInv'
<1> SUFFICES ASSUME fn' = "boot" PROVE BootInv'
  BY DEF BootInv
<1>1. /\ fn = "boot" /\ x.to \in {"rpc", "self"} /\ UNCHANGED <<file, signed, start>>
  <2>1. ASSUME NEW ok \in BOOLEAN, RpcStep(ok) PROVE fn = "boot" /\ x.to \in {"rpc", "self"} /\ UNCHANGED <<file, signed, start>>
    BY <2>1 DEF RpcStep, Next_, fileVars
  <2>2. CASE SelfStep
    BY <2>2 DEF SelfStep, Next_
  <2>3. CASE NextBlock
    BY <2>3 DEF NextBlock, fileVars
  <2> QED
    BY <2>1, <2>2, <2>3
<1>2. file = signed.file /\ signed.card # "none" /\ file \in Files
  BY <1>1 DEF BootInv, HInv, TypeInv
<1>3. ASSUME signed.card # start PROVE \E j \in 0 .. 20 + HeaderChunks(file) : BootAt(j)'
  <2>1. PICK n \in 0 .. 20 + HeaderChunks(file) : BootAt(n)
    BY <1>1, <1>3 DEF BootInv
  <2>2. SelfStep
    <3> PICK c, m : c = SecrCardBootHeader(file) /\ m = HeaderChunks(file)
      OBVIOUS
    <3>1. BootStand(file, c) /\ n \in Nat /\ m \in Nat /\ x = c[n + 1]
      BY <1>2, <2>1, BootFront
    <3>2. x.to # "rpc" /\ ~(x.to = "self" /\ x.cmd = "block")
      <4>1. n \in {0, 17, 18} \/ n \in 1 .. 16 \/ n >= 19
        BY <3>1
      <4>2. (x.to = "self" /\ x.cmd # "block") \/ x.to = "card" \/ x.to = "mecha"
        BY <1>2, <2>1, <3>1, <4>1, BootKinds
      <4> QED
        BY <4>2
    <3> QED
      BY <3>2 DEF RpcStep, NextBlock
  <2>3. n + 1 \in 0 .. 20 + HeaderChunks(file) /\ BootAt(n + 1)'
    BY <1>1, <2>1, <2>2, BootSelf
  <2> QED
    BY <2>3
<1> QED
  BY <1>1, <1>2, <1>3 DEF BootInv, HeaderChunks

(* A boot begins with the file that was signed last. *)
LEMMA BootStarts ==
  ASSUME HInv, KInv, BootSigned
  PROVE  BootInv'
<1> SUFFICES ASSUME fn' = "boot" PROVE BootInv'
  BY DEF BootInv
<1>1. /\ signed.card # "none" /\ UNCHANGED <<signed, card>> /\ todo' = SecrCardBootFile(signed.file)
      /\ file' = signed.file /\ buf' = signed.buf /\ signed.file \in Files
  <2>1. PICK must : Start("boot", SecrCardBootFile(signed.file), must)
    BY DEF BootSigned
  <2>2. signed' = signed /\ card' = card /\ todo' = SecrCardBootFile(signed.file)
    BY <2>1 DEF Start, devices
  <2> QED
    BY <2>2 DEF BootSigned, HInv, TypeInv
<1> PICK c, f : c = SecrCardBootHeader(file') /\ f = file'
  OBVIOUS
<1>2. f \in Files /\ BootStand(f, c)
  BY <1>1, BootAre
<1>3. After(c, 0) = c
  BY <1>2, Fronts DEF BootStand
<1>4. (todo = After(SecrCardBootHeader(file), 0) \o <<Blocks(1)>>)'
  BY <1>1, <1>3 DEF SecrCardBootFile, Blocks
<1>5. Kept(signed.buf, signed.file) /\ BoundAt(signed.buf, 1, signed.file, signed.card)
  <2>1. \A u \in 1 .. 4 : BoundAt(signed.buf, u, signed.file, signed.card)
    BY <1>1 DEF KInv, SignedInv
  <2> QED
    BY <1>1, <2>1 DEF KInv, SignedInv
<1>6. (DOMAIN buf = 1 .. file.units)'
  BY <1>1, <1>5 DEF Kept
<1>7. (buf[KbitOffset(file) + 1] = Bound("Kbit1", signed.card, file))'
  BY <1>1, <1>5 DEF BoundAt, Halves, Bound
<1>8. BootAt(0)'
  BY <1>4, <1>6, <1>7 DEF BootAt
<1>9. HeaderChunks(f) \in Nat
  BY <1>2, Sizes DEF HeaderChunks
<1>10. 0 \in 0 .. 20 + HeaderChunks(f)
  BY <1>9
<1> QED
  BY <1>1, <1>8, <1>10 DEF BootInv

(* What happens outside secrman: another card is not authenticated, and a check that failed does
   not come out well later. *)
LEMMA BootStays ==
  ASSUME BootInv, UNCHANGED <<fn, todo, loc, file, buf, start, signed>>,
         card' = card \/ ~card'.auth,
         mecha' = mecha \/ (IsMecha(mecha) /\ mecha.calc = "busy" /\ mecha' = [mecha EXCEPT !.calc = "ok"])
  PROVE  BootInv'
<1> SUFFICES ASSUME fn = "boot", signed.card # start, NEW n \in 0 .. 20 + HeaderChunks(file), BootAt(n)
             PROVE  BootAt(n)'
  <2>1. HeaderChunks(file)' = HeaderChunks(file)
    BY DEF HeaderChunks
  <2> QED
    BY <2>1 DEF BootInv
<1>1. ASSUME NEW k, ChunksSent(k) PROVE ChunksSent(k)'
  <2>1. CASE mecha' = mecha
    BY <1>1, <2>1 DEF ChunksSent
  <2>2. CASE IsMecha(mecha) /\ mecha.calc = "busy" /\ mecha' = [mecha EXCEPT !.calc = "ok"]
    <3>1. mecha'.op = mecha.op /\ mecha'.mode = mecha.mode /\ mecha'.left = mecha.left /\ mecha'.got = mecha.got
      BY <2>2 DEF IsMecha
    <3>2. Len(mecha.got) # mecha.left
      BY <1>1, <2>2 DEF ChunksSent
    <3> QED
      BY <1>1, <3>1, <3>2 DEF ChunksSent
  <2> QED
    BY <2>1, <2>2
<1>2. Bound("Kbit1", signed.card, file)' = Bound("Kbit1", signed.card, file)
  BY DEF Bound
<1>3. (n >= 20 => \E k \in Nat : n = 20 + k /\ ChunksSent(k))'
  BY <1>1 DEF BootAt
<1>4. (n = 3 /\ card.auth => card.val = Bound("Kbit1", signed.card, file))' /\ (n = 4 /\ card.auth => card.val = Noise)'
  BY <1>2 DEF BootAt
<1>5. /\ (todo = After(SecrCardBootHeader(file), n) \o <<Blocks(1)>>)'
      /\ (DOMAIN buf = 1 .. file.units)'
      /\ (n = 0 => buf[KbitOffset(file) + 1] = Bound("Kbit1", signed.card, file))'
      /\ (n \in 1 .. 4 => loc["Kbit1"] = Bound("Kbit1", signed.card, file))'
      /\ (n >= 5 => loc["Kbit1"] = Noise)'
      /\ (n >= 19 => buf[KbitOffset(file) + 1] = Noise)'
  BY <1>2 DEF BootAt
<1> QED
  BY <1>3, <1>4, <1>5 DEF BootAt

(* The invariant of a boot holds at the start, ... *)
LEMMA BInit == Init => BootInv
  BY DEF Init, BootInv

(* ... and every step keeps it. *)
LEMMA BStep == HInv /\ KInv /\ BootInv /\ [Next]_vars => BootInv'
<1> SUFFICES ASSUME HInv, KInv, BootInv, [Next]_vars PROVE BootInv'
  OBVIOUS
<1>0. IsMecha(mecha) /\ OfStart
  BY DEF HInv, TypeInv, KInv
<1>1. CASE SetMcHandlers \/ Calculated \/ UNCHANGED vars \/ \E id \in Cards : SwapCard(id)
  <2>1. UNCHANGED <<fn, todo, loc, file, buf, start, signed>>
    BY <1>1 DEF SetMcHandlers, Calculated, SwapCard, vars, authVars, fileVars
  <2>2. card' = card \/ ~card'.auth
    BY <1>1 DEF SetMcHandlers, Calculated, SwapCard, vars, authVars, devices, NewCard
  <2>3. mecha' = mecha \/ (mecha.calc = "busy" /\ mecha' = [mecha EXCEPT !.calc = "ok"])
    BY <1>1 DEF SetMcHandlers, Calculated, SwapCard, vars, authVars, devices
  <2> QED
    BY <1>0, <2>1, <2>2, <2>3, BootStays
<1>2. CASE \/ SecrAuthCard \/ SecrResetAuthCard
           \/ \E f \in Files : SignKELF(f)
           \/ \E p \in Twins : TwinSignKELF(p[1], p[2]) \/ TwinUnreadable(p[1], p[2])
  <2>1. fn' # "boot"
    <3>1. ASSUME NEW f \in {"auth", "reset", "sign", "failed"}, NEW script, NEW must, Start(f, script, must) PROVE fn' # "boot"
      BY <3>1 DEF Start
    <3>2. ASSUME NEW f \in Files, SignKELF(f) PROVE fn' # "boot"
      BY <3>1, <3>2 DEF SignKELF
    <3>3. ASSUME NEW f, NEW g, TwinSignKELF(f, g) \/ TwinUnreadable(f, g) PROVE fn' # "boot"
      BY <3>1, <3>3 DEF TwinSignKELF, TwinUnreadable
    <3>4. CASE SecrAuthCard \/ SecrResetAuthCard
      BY <3>1, <3>4 DEF SecrAuthCard, SecrResetAuthCard
    <3> QED
      BY <1>2, <3>2, <3>3, <3>4
  <2> QED
    BY <2>1 DEF BootInv
<1>3. CASE BootSigned
  BY <1>3, BootStarts
<1>4. CASE \E how \in {"done", "lost", "unheard", "garbled"} : Exchange(how)
  BY <1>0, <1>4, BootExchangeKeeps
<1>5. CASE (\E ok \in BOOLEAN : RpcStep(ok)) \/ SelfStep \/ NextBlock
  BY <1>5, BootInnerKeeps
<1>6. CASE Return
  BY <1>6 DEF Return, BootInv
<1> QED
  BY <1>1, <1>2, <1>3, <1>4, <1>5, <1>6 DEF Next, Step

(* A boot that returns success has been on the card of the signing (BootsOnlyOnItsCard): a card that
   was not signed for hands out noise, and the MECHACON refuses the header. *)
THEOREM NoBootElsewhere == Spec => BootsOnlyOnItsCard
<1>1. Init => HInv /\ KInv /\ BootInv
  BY HInit, KInit, BInit
<1>2. HInv /\ KInv /\ BootInv /\ [Next]_vars => HInv' /\ KInv' /\ BootInv'
  BY HStep, KStep, BStep
<1>3. HInv /\ BootInv /\ [Next]_vars => [fn = "boot" /\ fn' = "idle" /\ result' = 1 => signed.card = start]_vars
  <2> SUFFICES ASSUME HInv, BootInv, [Next]_vars, fn = "boot", fn' = "idle", signed.card # start PROVE FALSE
    OBVIOUS
  <2>1. Return
    BY OnlyReturn
  <2>2. todo = <<>>
    BY <2>1 DEF Return
  <2>3. PICK n \in 0 .. 20 + HeaderChunks(file) : BootAt(n)
    BY DEF BootInv
  <2>4. file \in Files
    BY DEF HInv, TypeInv
  <2> QED
    BY <2>2, <2>3, <2>4, BootFront
<1> QED
  BY <1>1, <1>2, <1>3, PTL DEF Spec, BootsOnlyOnItsCard

=============================================================================
