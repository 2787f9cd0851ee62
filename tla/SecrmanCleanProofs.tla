-------------------------- MODULE SecrmanCleanProofs --------------------------
(***************************************************************************)
(* An operation that has met no fault and no swap succeeds: for any cards, *)
(* files, sizes of a transfer and earlier tries.                           *)
(*                                                                         *)
(* CleanInv says where the script and both devices are while nothing has   *)
(* gone wrong: step by step through the handshake (AuthClean), a signing   *)
(* (SignClean) and a boot (BootClean).  In every such place each device    *)
(* answers the next exchange and every check of the IOP comes out right.   *)
(* IcvInv says that a signed file holds an ICVPS2 that passes at its boot. *)
(***************************************************************************)
EXTENDS SecrmanProofs, WellFoundedInduction

(* A set of natural numbers has a least one. *)
LEMMA LeastElement == ASSUME NEW S \in SUBSET Nat, S # {} PROVE \E n \in S : \A m \in S : n <= m
<1>1. PICK n \in S : \A m \in S : ~ (<<m, n>> \in OpToRel(<, Nat))
  BY NatLessThanWellFounded, WFMin
<1>2. \A m \in S : ~(m < n)
  BY <1>1 DEF OpToRel
<1>3. ASSUME NEW m \in S PROVE n <= m
  <2>1. n \in Nat /\ m \in Nat /\ ~(m < n)
    BY <1>2
  <2> QED
    BY <2>1
<1> QED
  BY <1>3

(* Induction, for a set instead of a predicate. *)
LEMMA Induction ==
  ASSUME NEW n \in Nat, NEW S, 0 \in S, \A k \in 0 .. n - 1 : k \in S => k + 1 \in S
  PROVE  \A k \in 0 .. n : k \in S
<1> DEFINE T == {k \in 0 .. n : k \notin S}
<1> SUFFICES ASSUME T # {} PROVE FALSE
  OBVIOUS
<1>1. \E e \in T : \A m \in T : e <= m
  <2>1. T \subseteq Nat
    OBVIOUS
  <2> HIDE DEF T
  <2> QED
    BY <2>1, LeastElement
<1>2. PICK e \in T : \A m \in T : e <= m
  BY <1>1
<1>3. e \in 0 .. n /\ e \notin S /\ e # 0
  OBVIOUS
<1>4. e - 1 \in 0 .. n - 1 /\ e - 1 \in 0 .. n /\ e - 1 < e /\ e - 1 + 1 = e
  BY <1>3
<1>5. e - 1 \in S
  BY <1>2, <1>4
<1> QED
  BY <1>3, <1>4, <1>5

(* The equation of the offsets of a file's blocks. *)
Offsets(g, f, n) ==
  g = [j \in 1 .. n + 1 |-> IF j = 1 THEN KELF_header_size(f) ELSE g[j - 1] + f.blocks[j - 1].size]

(* It has a solution. *)
LEMMA OffsetFunction ==
  ASSUME NEW f, NEW n \in Nat
  PROVE  \E g : Offsets(g, f, n)
<1> DEFINE S == {k \in 0 .. n : \E g : Offsets(g, f, k)}
<1>1. 0 \in S
  <2> DEFINE g == [j \in 1 .. 0 + 1 |-> KELF_header_size(f)]
  <2>1. Offsets(g, f, 0)
    BY DEF Offsets
  <2> HIDE DEF g
  <2> QED
    BY <2>1
<1>2. ASSUME NEW k \in 0 .. n - 1, k \in S PROVE k + 1 \in S
  <2>1. PICK g : Offsets(g, f, k)
    BY <1>2
  <2> DEFINE size == f.blocks[k + 1].size
             h == [j \in 1 .. k + 1 + 1 |-> IF j <= k + 1 THEN g[j] ELSE g[k + 1] + size]
  <2>2. \A j \in 1 .. k + 1 : h[j] = g[j]
    OBVIOUS
  <2>3. ASSUME NEW j \in 1 .. k + 1 + 1
        PROVE  h[j] = IF j = 1 THEN KELF_header_size(f) ELSE h[j - 1] + f.blocks[j - 1].size
    <3>1. CASE j = 1
      <4>1. j \in 1 .. k + 1
        BY <3>1
      <4>2. g[j] = KELF_header_size(f)
        BY <2>1, <3>1, <4>1 DEF Offsets
      <4> HIDE DEF h
      <4> QED
        BY <2>2, <3>1, <4>1, <4>2
    <3>2. CASE j \in 2 .. k + 1
      <4>1. j - 1 \in 1 .. k + 1 /\ j \in 1 .. k + 1 /\ j # 1
        BY <3>2
      <4>2. g[j] = g[j - 1] + f.blocks[j - 1].size
        BY <2>1, <4>1 DEF Offsets
      <4> HIDE DEF h
      <4> QED
        BY <2>2, <4>1, <4>2
    <3>3. CASE j = k + 2
      <4>1. j - 1 = k + 1 /\ j # 1 /\ ~(j <= k + 1) /\ k + 1 \in 1 .. k + 1
        BY <3>3
      <4>2. h[j] = g[k + 1] + size
        BY <4>1
      <4> HIDE DEF h
      <4> QED
        BY <2>2, <4>1, <4>2
    <3> QED
      BY <3>1, <3>2, <3>3
  <2>4. Offsets(h, f, k + 1)
    <3>1. h = [j \in 1 .. k + 1 + 1 |-> h[j]]
      OBVIOUS
    <3> HIDE DEF h
    <3> QED
      BY <2>3, <3>1 DEF Offsets
  <2> HIDE DEF h
  <2> QED
    BY <2>4
<1>3. n \in S
  <2> HIDE DEF S
  <2> QED
    BY <1>1, <1>2, Induction
<1> QED
  BY <1>3

(* Where a file's blocks lie. *)
LEMMA OffsetsAre ==
  ASSUME NEW f \in Files
  PROVE  /\ Len(f.blocks) \in Nat /\ DOMAIN f.blocks = 1 .. Len(f.blocks)
         /\ BlockOffset(f, 1) = KELF_header_size(f)
         /\ \A i \in 1 .. Len(f.blocks) : BlockOffset(f, i + 1) = BlockOffset(f, i) + f.blocks[i].size
<1> DEFINE n == Len(f.blocks)
           B == CHOOSE g : Offsets(g, f, n)
<1>1. n \in Nat /\ DOMAIN f.blocks = 1 .. n
  BY FilesAssumption
<1>2. \A i : BlockOffset(f, i) = B[i]
  BY DEF BlockOffset, Offsets
<1>3. Offsets(B, f, n)
  BY <1>1, OffsetFunction
<1> HIDE DEF B
<1>4. B[1] = KELF_header_size(f)
  <2>1. 1 \in 1 .. n + 1
    BY <1>1
  <2> QED
    BY <1>3, <2>1 DEF Offsets
<1>5. ASSUME NEW i \in 1 .. n PROVE B[i + 1] = B[i] + f.blocks[i].size
  <2>1. i + 1 \in 1 .. n + 1 /\ i + 1 # 1 /\ i + 1 - 1 = i
    BY <1>1
  <2> QED
    BY <1>3, <2>1 DEF Offsets
<1> QED
  BY <1>1, <1>2, <1>4, <1>5

(* They lie one behind the other, within the file. *)
LEMMA OffsetsWithin ==
  ASSUME NEW f \in Files, NEW i \in 1 .. Len(f.blocks)
  PROVE  /\ BlockOffset(f, i) \in Nat /\ BlockOffset(f, i + 1) \in Nat /\ f.blocks[i].size \in Nat \ {0}
         /\ KELF_header_size(f) <= BlockOffset(f, i) /\ BlockOffset(f, i + 1) <= f.units
<1> DEFINE n == Len(f.blocks)
           B(j) == BlockOffset(f, j)
           h == KELF_header_size(f)
<1>1. n \in Nat /\ h \in Nat /\ f.units \in Nat
  BY OffsetsAre, Places
<1>2. /\ B(1) = h /\ \A j \in 1 .. n : B(j + 1) = B(j) + f.blocks[j].size
  BY OffsetsAre
<1>3. \A j \in 1 .. n : f.blocks[j].size \in Nat \ {0}
  <2>1. f.blocks \in Seq([flags : 0 .. 3, size : Nat \ {0}])
    BY FilesAssumption
  <2>2. \A j \in 1 .. n : f.blocks[j] \in [flags : 0 .. 3, size : Nat \ {0}]
    BY <2>1, ElementOfSeq
  <2> QED
    BY ONLY <2>2
<1>4. B(n + 1) <= f.units
  BY FilesAssumption
<1> HIDE DEF B, h
<1> DEFINE S == {k \in 0 .. n : B(k + 1) \in Nat /\ h <= B(k + 1)}
<1>5. \A k \in 0 .. n : k \in S
  <2>1. 0 \in S
    BY <1>1, <1>2
  <2>2. ASSUME NEW k \in 0 .. n - 1, k \in S PROVE k + 1 \in S
    <3>1. k + 1 \in 1 .. n /\ k + 1 \in 0 .. n
      BY <1>1
    <3>2. B(k + 1 + 1) = B(k + 1) + f.blocks[k + 1].size
      BY <1>2, <3>1
    <3> QED
      BY <1>1, <1>3, <2>2, <3>1, <3>2
  <2> HIDE DEF S
  <2> QED
    BY <1>1, <2>1, <2>2, Induction
<1> DEFINE T == {k \in 0 .. n : B(n + 1 - k) <= f.units}
<1>6. \A k \in 0 .. n : k \in T
  <2>1. 0 \in T
    BY <1>1, <1>4
  <2>2. ASSUME NEW k \in 0 .. n - 1, k \in T PROVE k + 1 \in T
    <3>1. /\ n - k \in 1 .. n /\ k + 1 \in 0 .. n /\ n - k - 1 \in 0 .. n /\ n - k - 1 + 1 = n - k
          /\ n + 1 - k = n - k + 1 /\ n + 1 - (k + 1) = n - k
      <4> HIDE DEF n, T
      <4> QED
        BY ONLY <1>1, k \in 0 .. n - 1
    <3>2. B(n - k + 1) = B(n - k) + f.blocks[n - k].size /\ B(n - k) \in Nat
      BY <1>2, <1>5, <3>1
    <3>3. B(n - k + 1) <= f.units
      BY <2>2, <3>1
    <3>4. B(n - k) <= f.units
      <4> PICK b, size, e, u : b = B(n - k) /\ size = f.blocks[n - k].size /\ e = B(n - k + 1) /\ u = f.units
        OBVIOUS
      <4>1. size \in Nat
        BY <1>3, <3>1
      <4>2. b \in Nat /\ e = b + size /\ e <= u /\ u \in Nat
        BY <1>1, <3>2, <3>3
      <4>3. b <= u
        BY ONLY <4>1, <4>2
      <4> QED
        BY <4>3
    <3> QED
      BY <3>1, <3>4
  <2> HIDE DEF T
  <2> QED
    BY <1>1, <2>1, <2>2, Induction
<1>7. i - 1 \in 0 .. n /\ i \in 0 .. n /\ i - 1 + 1 = i /\ n - i \in 0 .. n /\ n + 1 - (n - i) = i + 1
  BY <1>1
<1>8. i - 1 \in S /\ i \in S /\ n - i \in T
  BY <1>5, <1>6, <1>7
<1>9. B(i) \in Nat /\ B(i + 1) \in Nat /\ h <= B(i) /\ B(i + 1) <= f.units
  BY <1>7, <1>8
<1> QED
  BY <1>3, <1>9 DEF B, h

(* The handshake from the card's first command on: what of it each device has done when m of its
   exchanges are, and by which of them each local is filled. *)
OpeningRest ==
    <<card_auth("00"), mechacon_auth_81,
      card_auth_read("CardIV", "01"), card_auth_read("CardMaterial", "02"), mechacon_auth_82,
      card_auth("03"), card_auth_read("CardNonce", "04"), mechacon_auth_83,
      card_auth("05"), pol_cal_cmplt>>
Turn(m) == IF m < 10 THEN OpeningRest[m + 1] ELSE IF m < 20 THEN MechaChallenges[m - 9] ELSE CardResponses[m - 19]
CardDone == <<0, 1, 1, 2, 3, 3, 4, 5, 5, 6, 6, 6, 6, 7, 8, 9, 10, 11, 12, 13, 14, 15, 16, 17, 18, 18, 19, 20, 20, 20, 21, 21>>
MechaDone == <<0, 0, 1, 1, 1, 2, 2, 2, 3, 3, 3, 4, 5, 5, 5, 5, 5, 5, 5, 5, 5, 5, 5, 5, 5, 6, 6, 6, 7, 7, 7, 8>>
FilledBy(v) ==
    CASE v = "CardIV" -> 3 [] v = "CardMaterial" -> 4 [] v = "CardNonce" -> 7
      [] v = "MechaChallenge1" -> 11 [] v = "MechaChallenge2lo" -> 11
      [] v = "MechaChallenge2hi" -> 12 [] v = "MechaChallenge3" -> 12
      [] v = "CardResponse1" -> 22 [] v = "CardResponse2" -> 24 [] v = "CardResponse3" -> 27

(* What is known of the exchange after m of them, when it is the card's, ... *)
Fills(m, e) == \A v \in Locals : (\E j \in DOMAIN e.get : e.get[j] = v) <=> FilledBy(v) = m + 1
CardTurn(m, e) ==
    /\ e.to = "card" /\ e.units = <<>> /\ m \notin {9, 28}
    /\ CardDone[m + 1] \in 0 .. 20 /\ CardOrder[CardDone[m + 1] + 1] = e.cmd
    /\ CardDone[m + 2] = CardDone[m + 1] + 1 /\ MechaDone[m + 2] = MechaDone[m + 1]
    /\ e.cmd = "00" <=> m = 0
    /\ e.cmd = "06" => m = 12 /\ e.put = <<"MechaChallenge3">>
    /\ e.cmd = "07" => m = 13 /\ e.put = <<"MechaChallenge2lo", "MechaChallenge2hi">>
    /\ e.cmd = "0B" => m = 17 /\ e.put = <<"MechaChallenge1">>
    /\ e.get = <<>> \/ \E v \in Locals : e.get = <<v>> /\ m > 0 /\ \A c : CardGives(c, e.cmd) = <<Value(v, c.s)>>

(* ... and when it is the MECHACON's: a question whether it is ready, or the next of its commands. *)
MechaTurn(m, e) ==
    /\ e.to = "mecha" /\ e.units = <<>> /\ CardDone[m + 2] = CardDone[m + 1] /\ m # 0
    /\ \/ m \in {9, 28} /\ e.cmd = "8F" /\ e.get = <<>> /\ MechaDone[m + 2] = MechaDone[m + 1]
       \/ /\ m \notin {8, 9, 28} /\ MechaDone[m + 1] \in 0 .. 7 /\ MechaOrder[MechaDone[m + 1] + 1] = e.cmd
          /\ MechaDone[m + 2] = MechaDone[m + 1] + 1
          /\ e.cmd = "82" => m = 4 /\ e.put = <<"CardIV", "CardMaterial">>
          /\ e.cmd = "83" <=> m = 7
          /\ e.cmd = "83" => e.put = <<"CardNonce">>
          /\ e.cmd = "86" => m = 24 /\ e.put = <<"CardResponse1", "CardResponse2">>
          /\ e.cmd = "87" <=> m = 27
          /\ e.cmd = "87" => e.put = <<"CardResponse3">>
          /\ \/ e.get = <<>>
             \/ /\ m >= 8 /\ \E v, w \in Locals : v # w /\ e.get = <<v, w>> /\ \A d : MechaGives(d, e.cmd) = <<Value(v, d.peer), Value(w, d.peer)>>

(* Every exchange is one or the other. *)
LEMMA TurnsAre ==
  ASSUME NEW m \in 0 .. 30, NEW e, e = Turn(m)
  PROVE  Fills(m, e) /\ (CardTurn(m, e) \/ MechaTurn(m, e))
<1>1. CASE m = 0
  <2>1. e = card_auth("00")
    BY <1>1 DEF Turn, OpeningRest
  <2>2. CardTurn(m, e)
    BY ONLY <1>1, <2>1 DEF CardTurn, CardDone, MechaDone, CardOrder, CardGives, Locals, card_auth, ToCard, Exchanged
  <2>3. Fills(m, e)
    BY ONLY <1>1, <2>1 DEF Fills, FilledBy, Locals, card_auth, ToCard, Exchanged
  <2> QED
    BY <2>2, <2>3
<1>2. CASE m = 1
  <2>1. e = mechacon_auth_81
    BY <1>2 DEF Turn, OpeningRest
  <2>2. MechaTurn(m, e)
    BY ONLY <1>2, <2>1 DEF MechaTurn, CardDone, MechaDone, MechaOrder, MechaGives, Locals, mechacon_auth_81, ToMecha, Exchanged
  <2>3. Fills(m, e)
    BY ONLY <1>2, <2>1 DEF Fills, FilledBy, Locals, mechacon_auth_81, ToMecha, Exchanged
  <2> QED
    BY <2>2, <2>3
<1>3. CASE m = 2
  <2>1. e = card_auth_read("CardIV", "01")
    BY <1>3 DEF Turn, OpeningRest
  <2>2. CardTurn(m, e)
    BY ONLY <1>3, <2>1 DEF CardTurn, CardDone, MechaDone, CardOrder, CardGives, Locals, card_auth_read, ToCard, Exchanged
  <2>3. Fills(m, e)
    BY ONLY <1>3, <2>1 DEF Fills, FilledBy, Locals, card_auth_read, ToCard, Exchanged
  <2> QED
    BY <2>2, <2>3
<1>4. CASE m = 3
  <2>1. e = card_auth_read("CardMaterial", "02")
    BY <1>4 DEF Turn, OpeningRest
  <2>2. CardTurn(m, e)
    BY ONLY <1>4, <2>1 DEF CardTurn, CardDone, MechaDone, CardOrder, CardGives, Locals, card_auth_read, ToCard, Exchanged
  <2>3. Fills(m, e)
    BY ONLY <1>4, <2>1 DEF Fills, FilledBy, Locals, card_auth_read, ToCard, Exchanged
  <2> QED
    BY <2>2, <2>3
<1>5. CASE m = 4
  <2>1. e = mechacon_auth_82
    BY <1>5 DEF Turn, OpeningRest
  <2>2. MechaTurn(m, e)
    BY ONLY <1>5, <2>1 DEF MechaTurn, CardDone, MechaDone, MechaOrder, MechaGives, Locals, mechacon_auth_82, ToMecha, Exchanged
  <2>3. Fills(m, e)
    BY ONLY <1>5, <2>1 DEF Fills, FilledBy, Locals, mechacon_auth_82, ToMecha, Exchanged
  <2> QED
    BY <2>2, <2>3
<1>6. CASE m = 5
  <2>1. e = card_auth("03")
    BY <1>6 DEF Turn, OpeningRest
  <2>2. CardTurn(m, e)
    BY ONLY <1>6, <2>1 DEF CardTurn, CardDone, MechaDone, CardOrder, CardGives, Locals, card_auth, ToCard, Exchanged
  <2>3. Fills(m, e)
    BY ONLY <1>6, <2>1 DEF Fills, FilledBy, Locals, card_auth, ToCard, Exchanged
  <2> QED
    BY <2>2, <2>3
<1>7. CASE m = 6
  <2>1. e = card_auth_read("CardNonce", "04")
    BY <1>7 DEF Turn, OpeningRest
  <2>2. CardTurn(m, e)
    BY ONLY <1>7, <2>1 DEF CardTurn, CardDone, MechaDone, CardOrder, CardGives, Locals, card_auth_read, ToCard, Exchanged
  <2>3. Fills(m, e)
    BY ONLY <1>7, <2>1 DEF Fills, FilledBy, Locals, card_auth_read, ToCard, Exchanged
  <2> QED
    BY <2>2, <2>3
<1>8. CASE m = 7
  <2>1. e = mechacon_auth_83
    BY <1>8 DEF Turn, OpeningRest
  <2>2. MechaTurn(m, e)
    BY ONLY <1>8, <2>1 DEF MechaTurn, CardDone, MechaDone, MechaOrder, MechaGives, Locals, mechacon_auth_83, ToMecha, Exchanged
  <2>3. Fills(m, e)
    BY ONLY <1>8, <2>1 DEF Fills, FilledBy, Locals, mechacon_auth_83, ToMecha, Exchanged
  <2> QED
    BY <2>2, <2>3
<1>9. CASE m = 8
  <2>1. e = card_auth("05")
    BY <1>9 DEF Turn, OpeningRest
  <2>2. CardTurn(m, e)
    BY ONLY <1>9, <2>1 DEF CardTurn, CardDone, MechaDone, CardOrder, CardGives, Locals, card_auth, ToCard, Exchanged
  <2>3. Fills(m, e)
    BY ONLY <1>9, <2>1 DEF Fills, FilledBy, Locals, card_auth, ToCard, Exchanged
  <2> QED
    BY <2>2, <2>3
<1>10. CASE m = 9
  <2>1. e = pol_cal_cmplt
    BY <1>10 DEF Turn, OpeningRest
  <2>2. MechaTurn(m, e)
    BY ONLY <1>10, <2>1 DEF MechaTurn, CardDone, MechaDone, MechaOrder, MechaGives, Locals, pol_cal_cmplt, ToMecha, Exchanged
  <2>3. Fills(m, e)
    BY ONLY <1>10, <2>1 DEF Fills, FilledBy, Locals, pol_cal_cmplt, ToMecha, Exchanged
  <2> QED
    BY <2>2, <2>3
<1>11. CASE m = 10
  <2>1. e = mechacon_auth_84
    BY <1>11 DEF Turn, MechaChallenges
  <2>2. MechaTurn(m, e)
    BY ONLY <1>11, <2>1 DEF MechaTurn, CardDone, MechaDone, MechaOrder, MechaGives, Locals, mechacon_auth_84, ToMecha, Exchanged
  <2>3. Fills(m, e)
    BY ONLY <1>11, <2>1 DEF Fills, FilledBy, Locals, mechacon_auth_84, ToMecha, Exchanged
  <2> QED
    BY <2>2, <2>3
<1>12. CASE m = 11
  <2>1. e = mechacon_auth_85
    BY <1>12 DEF Turn, MechaChallenges
  <2>2. MechaTurn(m, e)
    BY ONLY <1>12, <2>1 DEF MechaTurn, CardDone, MechaDone, MechaOrder, MechaGives, Locals, mechacon_auth_85, ToMecha, Exchanged
  <2>3. Fills(m, e)
    BY ONLY <1>12, <2>1 DEF Fills, FilledBy, Locals, mechacon_auth_85, ToMecha, Exchanged
  <2> QED
    BY <2>2, <2>3
<1>13. CASE m = 12
  <2>1. e = card_auth_write("MechaChallenge3", "06")
    BY <1>13 DEF Turn, MechaChallenges
  <2>2. CardTurn(m, e)
    BY ONLY <1>13, <2>1 DEF CardTurn, CardDone, MechaDone, CardOrder, CardGives, Locals, card_auth_write, ToCard, Exchanged
  <2>3. Fills(m, e)
    BY ONLY <1>13, <2>1 DEF Fills, FilledBy, Locals, card_auth_write, ToCard, Exchanged
  <2> QED
    BY <2>2, <2>3
<1>14. CASE m = 13
  <2>1. e = ToCard("07", <<"MechaChallenge2lo", "MechaChallenge2hi">>, <<>>)
    BY <1>14 DEF Turn, MechaChallenges
  <2>2. CardTurn(m, e)
    BY ONLY <1>14, <2>1 DEF CardTurn, CardDone, MechaDone, CardOrder, CardGives, Locals, ToCard, Exchanged
  <2>3. Fills(m, e)
    BY ONLY <1>14, <2>1 DEF Fills, FilledBy, Locals, ToCard, Exchanged
  <2> QED
    BY <2>2, <2>3
<1>15. CASE m = 14
  <2>1. e = card_auth("08")
    BY <1>15 DEF Turn, MechaChallenges
  <2>2. CardTurn(m, e)
    BY ONLY <1>15, <2>1 DEF CardTurn, CardDone, MechaDone, CardOrder, CardGives, Locals, card_auth, ToCard, Exchanged
  <2>3. Fills(m, e)
    BY ONLY <1>15, <2>1 DEF Fills, FilledBy, Locals, card_auth, ToCard, Exchanged
  <2> QED
    BY <2>2, <2>3
<1>16. CASE m = 15
  <2>1. e = card_auth2("09")
    BY <1>16 DEF Turn, MechaChallenges
  <2>2. CardTurn(m, e)
    BY ONLY <1>16, <2>1 DEF CardTurn, CardDone, MechaDone, CardOrder, CardGives, Locals, card_auth2, ToCard, Exchanged
  <2>3. Fills(m, e)
    BY ONLY <1>16, <2>1 DEF Fills, FilledBy, Locals, card_auth2, ToCard, Exchanged
  <2> QED
    BY <2>2, <2>3
<1>17. CASE m = 16
  <2>1. e = card_auth("0A")
    BY <1>17 DEF Turn, MechaChallenges
  <2>2. CardTurn(m, e)
    BY ONLY <1>17, <2>1 DEF CardTurn, CardDone, MechaDone, CardOrder, CardGives, Locals, card_auth, ToCard, Exchanged
  <2>3. Fills(m, e)
    BY ONLY <1>17, <2>1 DEF Fills, FilledBy, Locals, card_auth, ToCard, Exchanged
  <2> QED
    BY <2>2, <2>3
<1>18. CASE m = 17
  <2>1. e = card_auth_write("MechaChallenge1", "0B")
    BY <1>18 DEF Turn, MechaChallenges
  <2>2. CardTurn(m, e)
    BY ONLY <1>18, <2>1 DEF CardTurn, CardDone, MechaDone, CardOrder, CardGives, Locals, card_auth_write, ToCard, Exchanged
  <2>3. Fills(m, e)
    BY ONLY <1>18, <2>1 DEF Fills, FilledBy, Locals, card_auth_write, ToCard, Exchanged
  <2> QED
    BY <2>2, <2>3
<1>19. CASE m = 18
  <2>1. e = card_auth("0C")
    BY <1>19 DEF Turn, MechaChallenges
  <2>2. CardTurn(m, e)
    BY ONLY <1>19, <2>1 DEF CardTurn, CardDone, MechaDone, CardOrder, CardGives, Locals, card_auth, ToCard, Exchanged
  <2>3. Fills(m, e)
    BY ONLY <1>19, <2>1 DEF Fills, FilledBy, Locals, card_auth, ToCard, Exchanged
  <2> QED
    BY <2>2, <2>3
<1>20. CASE m = 19
  <2>1. e = card_auth2("0D")
    BY <1>20 DEF Turn, MechaChallenges
  <2>2. CardTurn(m, e)
    BY ONLY <1>20, <2>1 DEF CardTurn, CardDone, MechaDone, CardOrder, CardGives, Locals, card_auth2, ToCard, Exchanged
  <2>3. Fills(m, e)
    BY ONLY <1>20, <2>1 DEF Fills, FilledBy, Locals, card_auth2, ToCard, Exchanged
  <2> QED
    BY <2>2, <2>3
<1>21. CASE m = 20
  <2>1. e = card_auth("0E")
    BY <1>21 DEF Turn, CardResponses
  <2>2. CardTurn(m, e)
    BY ONLY <1>21, <2>1 DEF CardTurn, CardDone, MechaDone, CardOrder, CardGives, Locals, card_auth, ToCard, Exchanged
  <2>3. Fills(m, e)
    BY ONLY <1>21, <2>1 DEF Fills, FilledBy, Locals, card_auth, ToCard, Exchanged
  <2> QED
    BY <2>2, <2>3
<1>22. CASE m = 21
  <2>1. e = card_auth_read("CardResponse1", "0F")
    BY <1>22 DEF Turn, CardResponses
  <2>2. CardTurn(m, e)
    BY ONLY <1>22, <2>1 DEF CardTurn, CardDone, MechaDone, CardOrder, CardGives, Locals, card_auth_read, ToCard, Exchanged
  <2>3. Fills(m, e)
    BY ONLY <1>22, <2>1 DEF Fills, FilledBy, Locals, card_auth_read, ToCard, Exchanged
  <2> QED
    BY <2>2, <2>3
<1>23. CASE m = 22
  <2>1. e = card_auth("10")
    BY <1>23 DEF Turn, CardResponses
  <2>2. CardTurn(m, e)
    BY ONLY <1>23, <2>1 DEF CardTurn, CardDone, MechaDone, CardOrder, CardGives, Locals, card_auth, ToCard, Exchanged
  <2>3. Fills(m, e)
    BY ONLY <1>23, <2>1 DEF Fills, FilledBy, Locals, card_auth, ToCard, Exchanged
  <2> QED
    BY <2>2, <2>3
<1>24. CASE m = 23
  <2>1. e = card_auth_read("CardResponse2", "11")
    BY <1>24 DEF Turn, CardResponses
  <2>2. CardTurn(m, e)
    BY ONLY <1>24, <2>1 DEF CardTurn, CardDone, MechaDone, CardOrder, CardGives, Locals, card_auth_read, ToCard, Exchanged
  <2>3. Fills(m, e)
    BY ONLY <1>24, <2>1 DEF Fills, FilledBy, Locals, card_auth_read, ToCard, Exchanged
  <2> QED
    BY <2>2, <2>3
<1>25. CASE m = 24
  <2>1. e = mechacon_auth_86
    BY <1>25 DEF Turn, CardResponses
  <2>2. MechaTurn(m, e)
    BY ONLY <1>25, <2>1 DEF MechaTurn, CardDone, MechaDone, MechaOrder, MechaGives, Locals, mechacon_auth_86, ToMecha, Exchanged
  <2>3. Fills(m, e)
    BY ONLY <1>25, <2>1 DEF Fills, FilledBy, Locals, mechacon_auth_86, ToMecha, Exchanged
  <2> QED
    BY <2>2, <2>3
<1>26. CASE m = 25
  <2>1. e = card_auth("12")
    BY <1>26 DEF Turn, CardResponses
  <2>2. CardTurn(m, e)
    BY ONLY <1>26, <2>1 DEF CardTurn, CardDone, MechaDone, CardOrder, CardGives, Locals, card_auth, ToCard, Exchanged
  <2>3. Fills(m, e)
    BY ONLY <1>26, <2>1 DEF Fills, FilledBy, Locals, card_auth, ToCard, Exchanged
  <2> QED
    BY <2>2, <2>3
<1>27. CASE m = 26
  <2>1. e = card_auth_read("CardResponse3", "13")
    BY <1>27 DEF Turn, CardResponses
  <2>2. CardTurn(m, e)
    BY ONLY <1>27, <2>1 DEF CardTurn, CardDone, MechaDone, CardOrder, CardGives, Locals, card_auth_read, ToCard, Exchanged
  <2>3. Fills(m, e)
    BY ONLY <1>27, <2>1 DEF Fills, FilledBy, Locals, card_auth_read, ToCard, Exchanged
  <2> QED
    BY <2>2, <2>3
<1>28. CASE m = 27
  <2>1. e = mechacon_auth_87
    BY <1>28 DEF Turn, CardResponses
  <2>2. MechaTurn(m, e)
    BY ONLY <1>28, <2>1 DEF MechaTurn, CardDone, MechaDone, MechaOrder, MechaGives, Locals, mechacon_auth_87, ToMecha, Exchanged
  <2>3. Fills(m, e)
    BY ONLY <1>28, <2>1 DEF Fills, FilledBy, Locals, mechacon_auth_87, ToMecha, Exchanged
  <2> QED
    BY <2>2, <2>3
<1>29. CASE m = 28
  <2>1. e = pol_cal_cmplt
    BY <1>29 DEF Turn, CardResponses
  <2>2. MechaTurn(m, e)
    BY ONLY <1>29, <2>1 DEF MechaTurn, CardDone, MechaDone, MechaOrder, MechaGives, Locals, pol_cal_cmplt, ToMecha, Exchanged
  <2>3. Fills(m, e)
    BY ONLY <1>29, <2>1 DEF Fills, FilledBy, Locals, pol_cal_cmplt, ToMecha, Exchanged
  <2> QED
    BY <2>2, <2>3
<1>30. CASE m = 29
  <2>1. e = card_auth("14")
    BY <1>30 DEF Turn, CardResponses
  <2>2. CardTurn(m, e)
    BY ONLY <1>30, <2>1 DEF CardTurn, CardDone, MechaDone, CardOrder, CardGives, Locals, card_auth, ToCard, Exchanged
  <2>3. Fills(m, e)
    BY ONLY <1>30, <2>1 DEF Fills, FilledBy, Locals, card_auth, ToCard, Exchanged
  <2> QED
    BY <2>2, <2>3
<1>31. CASE m = 30
  <2>1. e = mechacon_auth_88
    BY <1>31 DEF Turn, CardResponses
  <2>2. MechaTurn(m, e)
    BY ONLY <1>31, <2>1 DEF MechaTurn, CardDone, MechaDone, MechaOrder, MechaGives, Locals, mechacon_auth_88, ToMecha, Exchanged
  <2>3. Fills(m, e)
    BY ONLY <1>31, <2>1 DEF Fills, FilledBy, Locals, mechacon_auth_88, ToMecha, Exchanged
  <2> QED
    BY <2>2, <2>3
<1> QED
  BY <1>1, <1>2, <1>3, <1>4, <1>5, <1>6, <1>7, <1>8, <1>9, <1>10, <1>11, <1>12, <1>13, <1>14, <1>15, <1>16, <1>17, <1>18, <1>19, <1>20, <1>21, <1>22, <1>23, <1>24, <1>25, <1>26, <1>27, <1>28, <1>29, <1>30, <1>31

(* How many exchanges come before the card's first command. *)
Lead == P - 10

(* Where each of them stands in the script. *)
LEMMA TurnAt ==
  /\ Lead \in 2 .. 3 /\ Len(Handshake) = Lead + 31
  /\ Lead = 3 => Handshake[3] = card_auth_key_change
  /\ \A m \in 0 .. 30 : Handshake[Lead + m + 1] = Turn(m)
<1> DEFINE s == Opening \o MechaChallenges
<1>1. Lead \in 2 .. 3 /\ P = Lead + 10 /\ Len(Handshake) = Lead + 31
  BY HandshakeAt DEF Lead, P
<1>2. /\ IsSeq(Opening) /\ IsSeq(MechaChallenges) /\ IsSeq(CardResponses)
      /\ Len(Opening) = Lead + 10 /\ Len(MechaChallenges) = 10 /\ Len(CardResponses) = 11
  <2>1. MechaChallenges \in Seq(HandshakeSteps) /\ CardResponses \in Seq(HandshakeSteps)
    BY DEF MechaChallenges, CardResponses, LateSteps, HandshakeSteps
  <2> QED
    BY <1>1, <2>1, OpeningAt, ChallengesAt, ResponsesAt DEF IsSeq
<1>3. /\ IsSeq(s) /\ Len(s) = Lead + 20
      /\ \A i \in 1 .. Lead + 10 : s[i] = Opening[i]
      /\ \A i \in 1 .. 10 : s[Lead + 10 + i] = MechaChallenges[i]
  <2> PICK o, c : o = Opening /\ c = MechaChallenges
    OBVIOUS
  <2>0. IsSeq(o) /\ IsSeq(c)
    BY <1>2
  <2>1. Len(o) = Lead + 10 /\ Len(c) = 10 /\ s = o \o c
    BY <1>2
  <2>2. /\ IsSeq(o \o c) /\ Len(o \o c) = Len(o) + Len(c)
        /\ \A i \in 1 .. Len(o) : (o \o c)[i] = o[i]
        /\ \A i \in 1 .. Len(c) : (o \o c)[Len(o) + i] = c[i]
    BY ONLY <2>0, ConcatAt
  <2>3. /\ IsSeq(s) /\ Len(s) = Lead + 10 + 10
        /\ \A i \in 1 .. Lead + 10 : s[i] = o[i]
        /\ \A i \in 1 .. 10 : s[Lead + 10 + i] = c[i]
    <3> HIDE DEF s
    <3> QED
      BY ONLY <2>0, <2>1, <2>2
  <2>4. Lead + 10 + 10 = Lead + 20
    BY ONLY <1>1
  <2> QED
    BY <2>3, <2>4
<1>4. Handshake = s \o CardResponses
  BY DEF Handshake
<1> HIDE DEF s
<1>5. /\ \A i \in 1 .. Lead + 20 : Handshake[i] = s[i]
      /\ \A i \in 1 .. 11 : Handshake[Lead + 20 + i] = CardResponses[i]
  <2> PICK c : c = CardResponses
    OBVIOUS
  <2>0. IsSeq(s) /\ IsSeq(c)
    BY <1>2, <1>3
  <2>1. Len(s) = Lead + 20 /\ Len(c) = 11 /\ Handshake = s \o c
    BY <1>2, <1>3, <1>4
  <2>2. /\ \A i \in 1 .. Len(s) : (s \o c)[i] = s[i]
        /\ \A i \in 1 .. Len(c) : (s \o c)[Len(s) + i] = c[i]
    BY ONLY <2>0, ConcatAt
  <2> QED
    BY <2>1, <2>2
<1>6. \A i \in 1 .. 10 : Opening[Lead + i] = OpeningRest[i]
  <2>9. IsSeq(OpeningRest) /\ Len(OpeningRest) = 10
    <3>1. OpeningRest \in Seq(EarlySteps)
      BY DEF OpeningRest, EarlySteps
    <3> QED
      BY <3>1 DEF IsSeq, OpeningRest
  <2>1. CASE isDEX
    <3>1. Lead = 2 /\ Opening = <<card_auth_60, mechacon_auth_80>> \o OpeningRest
      BY <2>1 DEF Lead, P, Opening, OpeningRest
    <3> PICK o, c : o = <<card_auth_60, mechacon_auth_80>> /\ c = OpeningRest
      OBVIOUS
    <3>2. IsSeq(o) /\ Len(o) = Lead
      <4>1. o \in Seq({card_auth_60, mechacon_auth_80})
        OBVIOUS
      <4> QED
        BY <3>1, <4>1 DEF IsSeq
    <3>3. Len(c) = 10 /\ Opening = o \o c
      BY <2>9, <3>1
    <3>0. IsSeq(o) /\ IsSeq(c)
      BY <2>9, <3>1, <3>2
    <3>4. \A i \in 1 .. Len(c) : (o \o c)[Len(o) + i] = c[i]
      BY ONLY <3>0, ConcatAt
    <3> QED
      BY <3>2, <3>3, <3>4
  <2>2. CASE ~isDEX
    <3>1. Lead = 3 /\ Opening = <<card_auth_60, mechacon_auth_80, card_auth_key_change>> \o OpeningRest
      BY <2>2 DEF Lead, P, Opening, OpeningRest
    <3> PICK o, c : o = <<card_auth_60, mechacon_auth_80, card_auth_key_change>> /\ c = OpeningRest
      OBVIOUS
    <3>2. IsSeq(o) /\ Len(o) = Lead
      <4>1. o \in Seq({card_auth_60, mechacon_auth_80, card_auth_key_change})
        OBVIOUS
      <4> QED
        BY <3>1, <4>1 DEF IsSeq
    <3>3. Len(c) = 10 /\ Opening = o \o c
      BY <2>9, <3>1
    <3>0. IsSeq(o) /\ IsSeq(c)
      BY <2>9, <3>1, <3>2
    <3>4. \A i \in 1 .. Len(c) : (o \o c)[Len(o) + i] = c[i]
      BY ONLY <3>0, ConcatAt
    <3> QED
      BY <3>2, <3>3, <3>4
  <2> QED
    BY <2>1, <2>2
<1>7. Lead = 3 => Handshake[3] = card_auth_key_change
  <2> SUFFICES ASSUME Lead = 3 PROVE Opening[3] = card_auth_key_change
    BY <1>1, <1>3, <1>5
  <2>1. ~isDEX
    BY DEF Lead, P
  <2>2. Opening = <<card_auth_60, mechacon_auth_80>> \o <<card_auth_key_change>> \o OpeningRest
    BY <2>1 DEF Opening, OpeningRest
  <2>3. Opening = <<card_auth_60, mechacon_auth_80, card_auth_key_change>> \o OpeningRest
    BY <2>2
  <2>4. \A r : r \in Seq(EarlySteps) => (<<card_auth_60, mechacon_auth_80, card_auth_key_change>> \o r)[3] = card_auth_key_change
    OBVIOUS
  <2>5. OpeningRest \in Seq(EarlySteps)
    BY DEF OpeningRest, EarlySteps
  <2> QED
    BY <2>3, <2>4, <2>5
<1>8. ASSUME NEW m \in 0 .. 30 PROVE Handshake[Lead + m + 1] = Turn(m)
  <2>1. CASE m < 10
    <3>1. m + 1 \in 1 .. 10 /\ Lead + m + 1 \in 1 .. Lead + 10 /\ Lead + m + 1 \in 1 .. Lead + 20
          /\ Lead + m + 1 = Lead + (m + 1)
      BY ONLY <1>1, <2>1, m \in 0 .. 30
    <3>2. /\ Handshake[Lead + m + 1] = s[Lead + m + 1] /\ s[Lead + m + 1] = Opening[Lead + m + 1]
          /\ Opening[Lead + (m + 1)] = OpeningRest[m + 1]
      BY ONLY <1>3, <1>5, <1>6, <3>1
    <3> QED
      BY <2>1, <3>1, <3>2 DEF Turn
  <2>2. CASE m \in 10 .. 19
    <3>1. m - 9 \in 1 .. 10 /\ Lead + m + 1 \in 1 .. Lead + 20 /\ Lead + m + 1 = Lead + 10 + (m - 9)
          /\ ~(m < 10) /\ m < 20
      BY ONLY <1>1, <2>2
    <3>2. Handshake[Lead + m + 1] = s[Lead + m + 1] /\ s[Lead + 10 + (m - 9)] = MechaChallenges[m - 9]
      BY ONLY <1>3, <1>5, <3>1
    <3> QED
      BY <3>1, <3>2 DEF Turn
  <2>3. CASE m \in 20 .. 30
    <3>1. m - 19 \in 1 .. 11 /\ Lead + m + 1 = Lead + 20 + (m - 19) /\ ~(m < 10) /\ ~(m < 20)
      BY ONLY <1>1, <2>3
    <3>2. Handshake[Lead + 20 + (m - 19)] = CardResponses[m - 19]
      BY ONLY <1>5, <3>1
    <3> QED
      BY <3>1, <3>2 DEF Turn
  <2> QED
    BY <2>1, <2>2, <2>3
<1> QED
  BY <1>1, <1>7, <1>8

(* An exchange that nothing happened to, and that the device took, goes on. *)
LEMMA TakenStep ==
  ASSUME Exchange("done"), Device.ok
  PROVE  /\ fn' = fn /\ todo' = Tail(todo) /\ loc' = Filled("done", TRUE)
         /\ card' = (IF x.to = "card" THEN Device.dev ELSE card)
         /\ mecha' = (IF x.to = "mecha" THEN Device.dev ELSE mecha)
<1>1. PICK ok \in BOOLEAN : Answered("done", ok)
  BY ExchangeStep
<1>2. ok
  BY <1>1 DEF Answered
<1>3. Next_(TRUE) /\ loc' = Filled("done", TRUE)
  BY <1>1, <1>2 DEF Answered, Next_
<1> QED
  BY <1>3, ExchangeStep DEF Next_

(* The card takes the next command of its order, when what it wants with it is there. *)
LEMMA CardTakes ==
  ASSUME NEW c, IsCard(c), NEW cmd, NEW in, NEW a, a = CardDoes(c, cmd, in),
         c.at \in 0 .. 20, CardOrder[c.at + 1] = cmd, CardWants(c, cmd, in)
  PROVE  /\ a.ok /\ a.dev.at = c.at + 1 /\ a.dev.s = (IF cmd = "00" THEN tries ELSE c.s)
         /\ a.out = CardGives(a.dev, cmd)
<1>1. Len(CardOrder) = 21 /\ \A i \in 0 .. 20 : CardOrder[i + 1] \notin CardKeyCmds \cup {"60", "F7"}
  BY DEF CardOrder, CardKeyCmds
<1>2. a = CardHandshake(c, cmd, in)
  BY <1>1 DEF CardDoes, CardProtocol, CardKeyCmds
<1> DEFINE d == [c EXCEPT !.at = @ + 1, !.s = IF cmd = "00" THEN tries ELSE @, !.auth = (cmd = "14")]
<1>3. a = [dev |-> d, ok |-> TRUE, out |-> CardGives(d, cmd)]
  BY <1>1, <1>2 DEF CardHandshake
<1>4. d.at = c.at + 1 /\ d.s = (IF cmd = "00" THEN tries ELSE c.s)
  BY DEF IsCard
<1> HIDE DEF d
<1> QED
  BY <1>3, <1>4

(* So does the MECHACON, which then calculates after 83 and 87. *)
LEMMA MechaTakesTurn ==
  ASSUME NEW m, IsMecha(m), NEW cmd, NEW arg, NEW in, NEW a, a = MechaDoes(m, cmd, arg, in),
         m.at \in 0 .. 7, MechaOrder[m.at + 1] = cmd, m.calc = "ok", MechaWants(m, cmd, in)
  PROVE  /\ a.ok /\ a.dev.at = m.at + 1 /\ a.dev.peer = (IF cmd = "83" THEN in[1].s ELSE m.peer)
         /\ a.dev.calc = (IF cmd \in {"83", "87"} THEN "busy" ELSE "ok")
         /\ a.dev.got = m.got /\ a.dev.left = m.left
         /\ a.out = MechaGives(a.dev, cmd)
<1>1. Len(MechaOrder) = 8 /\ \A i \in 0 .. 7 : MechaOrder[i + 1] \notin FileCommands \cup {"80", "8F"}
  BY DEF MechaOrder, FileCommands
<1>2. a = MechaHandshake(m, cmd, in)
  BY <1>1 DEF MechaDoes, MechaProtocol
<1> DEFINE n == [m EXCEPT !.at = @ + 1, !.auth = (cmd = "88"),
                          !.peer = IF cmd = "83" THEN in[1].s ELSE @,
                          !.calc = IF cmd \in {"83", "87"} THEN "busy" ELSE @]
<1>3. a = [dev |-> n, ok |-> TRUE, out |-> MechaGives(n, cmd)]
  BY <1>1, <1>2 DEF MechaHandshake
<1>4. /\ n.at = m.at + 1 /\ n.peer = (IF cmd = "83" THEN in[1].s ELSE m.peer)
      /\ n.calc = (IF cmd \in {"83", "87"} THEN "busy" ELSE "ok")
      /\ n.got = m.got /\ n.left = m.left
  BY DEF IsMecha
<1> HIDE DEF n
<1> QED
  BY <1>3, <1>4

(* What an exchange sends: nothing but locals, one or two. *)
LEMMA SentLocals ==
  ASSUME NEW g, NEW h, x.units = <<>>
  PROVE  /\ x.put = <<h>> => Sent = <<loc[h]>>
         /\ x.put = <<g, h>> => Sent = <<loc[g], loc[h]>>
<1> DEFINE u == [i \in DOMAIN x.units |-> IF x.units[i] = 0 THEN Noise ELSE buf[x.units[i]]]
           v == [i \in DOMAIN x.put |-> loc[x.put[i]]]
<1>1. Sent = u \o v
  BY DEF Sent
<1>2. u = <<>>
  OBVIOUS
<1>3. x.put = <<h>> => v = <<loc[h]>>
  OBVIOUS
<1>4. x.put = <<g, h>> => v = <<loc[g], loc[h]>>
  OBVIOUS
<1>5. \A a, b : <<>> \o <<a>> = <<a>> /\ <<>> \o <<a, b>> = <<a, b>>
  OBVIOUS
<1> HIDE DEF u, v
<1> QED
  BY <1>1, <1>2, <1>3, <1>4, <1>5

(* What an exchange stores under two names. *)
LEMMA FilledTwo ==
  ASSUME NEW g \in DOMAIN loc, NEW h \in DOMAIN loc, g # h, loc' = Filled("done", TRUE), x.get = <<g, h>>,
         {1, 2} \subseteq DOMAIN Device.out
  PROVE  loc'[g] = Device.out[1] /\ loc'[h] = Device.out[2]
<1>1. DOMAIN x.get = {1, 2} /\ x.get[1] = g /\ x.get[2] = h
  OBVIOUS
<1>2. (CHOOSE j \in DOMAIN x.get : x.get[j] = g) = 1 /\ (CHOOSE j \in DOMAIN x.get : x.get[j] = h) = 2
  BY <1>1
<1>3. loc'[g] = GotAt("done", 1) /\ loc'[h] = GotAt("done", 2)
  BY <1>1, <1>2 DEF Filled
<1> PICK out : out = Device.out
  OBVIOUS
<1>4. 1 \in DOMAIN out /\ 2 \in DOMAIN out
  OBVIOUS
<1> QED
  BY <1>3, <1>4 DEF GotAt

(* The devices and the locals when m of the turns are done and nothing has gone wrong. *)
Known(m) == \A v \in Locals : FilledBy(v) <= m => loc[v] = Value(v, tries)
Answering(m) ==
    /\ card.at = CardDone[m + 1] /\ (m > 0 => card.s = tries)
    /\ mecha.at = MechaDone[m + 1] /\ (m >= 8 => mecha.peer = tries)
    /\ mecha.got = <<>> /\ mecha.left = 0
    /\ mecha.calc = "ok" \/ (m \in {8, 9, 28} /\ mecha.calc = "busy")
    /\ Known(m)

LEMMA FilledIs ==
  /\ FilledBy("CardIV") = 3 /\ FilledBy("CardMaterial") = 4 /\ FilledBy("CardNonce") = 7
  /\ FilledBy("MechaChallenge1") = 11 /\ FilledBy("MechaChallenge2lo") = 11
  /\ FilledBy("MechaChallenge2hi") = 12 /\ FilledBy("MechaChallenge3") = 12
  /\ FilledBy("CardResponse1") = 22 /\ FilledBy("CardResponse2") = 24 /\ FilledBy("CardResponse3") = 27
  /\ \A v \in Locals : FilledBy(v) \in Nat
BY DEF FilledBy, Locals

(* What an exchange fills is known after it. *)
LEMMA KnownOn ==
  ASSUME TypeInv, NEW m \in 0 .. 30, Fills(m, x), Known(m), loc' = Filled("done", TRUE), tries' = tries,
         \A v \in Locals : (\E j \in DOMAIN x.get : x.get[j] = v) => loc'[v] = Value(v, tries)
  PROVE  Known(m + 1)'
<1> SUFFICES ASSUME NEW v \in Locals, FilledBy(v) <= m + 1 PROVE loc'[v] = Value(v, tries)
  BY DEF Known, FilledBy, Locals, Value
<1>1. CASE \E j \in DOMAIN x.get : x.get[j] = v
  BY <1>1
<1>2. CASE ~ \E j \in DOMAIN x.get : x.get[j] = v
  <2>1. FilledBy(v) # m + 1
    BY <1>2 DEF Fills
  <2>2. FilledBy(v) <= m
    BY <2>1, FilledIs
  <2>3. v \in LocalNames
    BY DEF LocalNames
  <2>4. Filled("done", TRUE)[v] = loc[v]
    BY <1>2, <2>3, Unfilled
  <2> QED
    BY <2>2, <2>4 DEF Known
<1> QED
  BY <1>1, <1>2

(* The card's turn. *)
LEMMA CardAnswers ==
  ASSUME HInv, Exchange("done"), NEW m \in 0 .. 30, Answering(m), CardTurn(m, x), Fills(m, x)
  PROVE  Device.ok /\ fn' = fn /\ todo' = Tail(todo) /\ Answering(m + 1)'
<1> PICK a, cmd, in : a = Device /\ cmd = x.cmd /\ in = Sent
  OBVIOUS
<1>1. TypeInv /\ IsCard(card) /\ tries' = tries
  BY ExchangeStep DEF HInv, TypeInv
<1>2. a = CardDoes(card, cmd, in)
  BY DEF CardTurn, Device
<1>3. CardWants(card, cmd, in)
  <2>1. CASE cmd = "06"
    <3>1. m = 12 /\ in = <<loc["MechaChallenge3"]>>
      BY <2>1, SentLocals DEF CardTurn
    <3>2. loc["MechaChallenge3"] = Value("MechaChallenge3", tries) /\ card.s = tries
      BY <3>1, FilledIs DEF Answering, Known, Locals
    <3> QED
      BY <2>1, <3>1, <3>2 DEF CardWants
  <2>2. CASE cmd = "07"
    <3>1. m = 13 /\ in = <<loc["MechaChallenge2lo"], loc["MechaChallenge2hi"]>>
      BY <2>2, SentLocals DEF CardTurn
    <3>2. /\ loc["MechaChallenge2lo"] = Value("MechaChallenge2lo", tries)
          /\ loc["MechaChallenge2hi"] = Value("MechaChallenge2hi", tries) /\ card.s = tries
      BY <3>1, FilledIs DEF Answering, Known, Locals
    <3> QED
      BY <2>2, <3>1, <3>2 DEF CardWants
  <2>3. CASE cmd = "0B"
    <3>1. m = 17 /\ in = <<loc["MechaChallenge1"]>>
      BY <2>3, SentLocals DEF CardTurn
    <3>2. loc["MechaChallenge1"] = Value("MechaChallenge1", tries) /\ card.s = tries
      BY <3>1, FilledIs DEF Answering, Known, Locals
    <3> QED
      BY <2>3, <3>1, <3>2 DEF CardWants
  <2> QED
    BY <2>1, <2>2, <2>3 DEF CardWants
<1>4. card.at \in 0 .. 20 /\ CardOrder[card.at + 1] = cmd
  BY DEF Answering, CardTurn
<1>5. /\ a.ok /\ a.dev.at = card.at + 1 /\ a.dev.s = (IF cmd = "00" THEN tries ELSE card.s)
      /\ a.out = CardGives(a.dev, cmd)
  BY <1>1, <1>2, <1>3, <1>4, CardTakes
<1>6. /\ fn' = fn /\ todo' = Tail(todo) /\ loc' = Filled("done", TRUE)
      /\ card' = a.dev /\ mecha' = mecha
  BY <1>5, TakenStep DEF CardTurn
<1>7. card'.at = CardDone[m + 2] /\ card'.s = tries
  BY <1>5, <1>6 DEF CardTurn, Answering
<1>8. Known(m + 1)'
  <2>1. ASSUME NEW v \in Locals, \E j \in DOMAIN x.get : x.get[j] = v PROVE loc'[v] = Value(v, tries)
    <3>1. PICK w \in Locals : x.get = <<w>> /\ \A c : CardGives(c, cmd) = <<Value(w, c.s)>>
      BY <2>1 DEF CardTurn
    <3>2. w = v
      BY <2>1, <3>1
    <3>3. Device.out = <<Value(v, tries)>>
      BY <1>5, <1>6, <1>7, <3>1, <3>2
    <3>4. v \in DOMAIN loc
      BY <1>1 DEF TypeInv, LocalNames
    <3> QED
      BY <1>6, <3>1, <3>2, <3>3, <3>4, FilledAt
  <2>2. Known(m)
    BY DEF Answering
  <2> QED
    BY <1>1, <1>6, <2>1, <2>2, KnownOn
<1>9. /\ mecha'.at = MechaDone[m + 2] /\ (m + 1 >= 8 => mecha'.peer = tries) /\ mecha'.got = <<>> /\ mecha'.left = 0
      /\ mecha'.calc = "ok" \/ (m + 1 \in {8, 9, 28} /\ mecha'.calc = "busy")
  <2>1. m \notin {9, 28} /\ MechaDone[m + 2] = MechaDone[m + 1] /\ m # 7
    <3>1. MechaDone[7 + 2] # MechaDone[7 + 1]
      BY DEF MechaDone
    <3> QED
      BY <3>1 DEF CardTurn
  <2> QED
    BY <1>6, <2>1 DEF Answering
<1>10. m + 1 + 1 = m + 2
  OBVIOUS
<1> QED
  <2>1. CardDone' = CardDone /\ MechaDone' = MechaDone
    BY DEF CardDone, MechaDone
  <2> QED
    BY <1>1, <1>5, <1>6, <1>7, <1>8, <1>9, <1>10 DEF Answering

(* The MECHACON's turn. *)
LEMMA MechaAnswers ==
  ASSUME HInv, Exchange("done"), NEW m \in 0 .. 30, Answering(m), MechaTurn(m, x), Fills(m, x)
  PROVE  Device.ok /\ fn' = fn /\ todo' = Tail(todo) /\ Answering(m + 1)'
<1> PICK a, cmd, in, arg : a = Device /\ cmd = x.cmd /\ in = Sent /\ arg = x.arg
  OBVIOUS
<1>1. TypeInv /\ IsMecha(mecha) /\ tries' = tries
  BY ExchangeStep DEF HInv, TypeInv
<1>2. a = MechaDoes(mecha, cmd, arg, in)
  BY DEF MechaTurn, Device
<1>3. m + 1 + 1 = m + 2 /\ m # 0 /\ CardDone[m + 2] = CardDone[m + 1]
  BY DEF MechaTurn
<1>4. CardDone' = CardDone /\ MechaDone' = MechaDone
  BY DEF CardDone, MechaDone
<1>5. ASSUME a.ok
      PROVE  /\ fn' = fn /\ todo' = Tail(todo) /\ loc' = Filled("done", TRUE)
             /\ card' = card /\ mecha' = a.dev
  BY <1>5, TakenStep DEF MechaTurn
<1>6. CASE m \in {9, 28}
  <2>1. cmd = "8F" /\ x.get = <<>> /\ MechaDone[m + 2] = MechaDone[m + 1]
    BY <1>6 DEF MechaTurn
  <2>2. mecha.calc # "busy"
    BY <2>1 DEF Exchange, PollsAgain
  <2>3. mecha.calc = "ok" /\ Len(mecha.got) = mecha.left
    BY <2>2 DEF Answering
  <2>4. a.ok /\ a.dev = mecha
    <3>1. a = MechaProtocol(mecha, cmd, in)
      BY ONLY <1>2, <2>1 DEF MechaDoes, FileCommands
    <3>2. a = [dev |-> mecha, ok |-> mecha.calc = "ok" /\ Len(mecha.got) = mecha.left, out |-> <<>>]
      BY ONLY <2>1, <3>1 DEF MechaProtocol
    <3> QED
      BY ONLY <2>3, <3>2
  <2>5. Known(m + 1)'
    <3>1. \A v \in Locals : ~ \E j \in DOMAIN x.get : x.get[j] = v
      BY <2>1
    <3> QED
      BY <1>1, <1>5, <2>4, <3>1, KnownOn DEF Answering
  <2> QED
    BY <1>1, <1>3, <1>4, <1>5, <1>6, <2>1, <2>3, <2>4, <2>5 DEF Answering
<1>7. CASE m \notin {9, 28}
  <2>1. /\ m # 8 /\ MechaDone[m + 1] \in 0 .. 7 /\ MechaOrder[MechaDone[m + 1] + 1] = cmd
        /\ MechaDone[m + 2] = MechaDone[m + 1] + 1
        /\ (cmd = "83" <=> m = 7) /\ (cmd = "87" <=> m = 27)
    BY <1>7 DEF MechaTurn
  <2>2. mecha.calc = "ok" /\ mecha.at = MechaDone[m + 1]
    BY <1>7, <2>1 DEF Answering
  <2>3. MechaWants(mecha, cmd, in) /\ (cmd = "83" => in[1].s = tries)
    <3>1. CASE cmd = "82"
      <4>1. m = 4 /\ in = <<loc["CardIV"], loc["CardMaterial"]>>
        BY <1>7, <3>1, SentLocals DEF MechaTurn
      <4>2. loc["CardIV"] = Value("CardIV", tries) /\ loc["CardMaterial"] = Value("CardMaterial", tries)
        BY <4>1, FilledIs DEF Answering, Known, Locals
      <4> QED
        BY <3>1, <4>1, <4>2 DEF MechaWants, Value
    <3>2. CASE cmd = "83"
      <4>1. m = 7 /\ in = <<loc["CardNonce"]>>
        BY <1>7, <3>2, SentLocals DEF MechaTurn
      <4>2. loc["CardNonce"] = Value("CardNonce", tries)
        BY <4>1, FilledIs DEF Answering, Known, Locals
      <4> QED
        BY <3>2, <4>1, <4>2 DEF MechaWants, Value
    <3>3. CASE cmd = "86"
      <4>1. m = 24 /\ in = <<loc["CardResponse1"], loc["CardResponse2"]>>
        BY <1>7, <3>3, SentLocals DEF MechaTurn
      <4>2. /\ loc["CardResponse1"] = Value("CardResponse1", tries)
            /\ loc["CardResponse2"] = Value("CardResponse2", tries) /\ mecha.peer = tries
        BY <4>1, FilledIs DEF Answering, Known, Locals
      <4> QED
        BY <3>3, <4>1, <4>2 DEF MechaWants
    <3>4. CASE cmd = "87"
      <4>1. m = 27 /\ in = <<loc["CardResponse3"]>>
        BY <1>7, <3>4, SentLocals DEF MechaTurn
      <4>2. loc["CardResponse3"] = Value("CardResponse3", tries) /\ mecha.peer = tries
        BY <4>1, FilledIs DEF Answering, Known, Locals
      <4> QED
        BY <3>4, <4>1, <4>2 DEF MechaWants
    <3> QED
      BY <3>1, <3>2, <3>3, <3>4 DEF MechaWants
  <2>4. /\ a.ok /\ a.dev.at = mecha.at + 1 /\ a.dev.peer = (IF cmd = "83" THEN in[1].s ELSE mecha.peer)
        /\ a.dev.calc = (IF cmd \in {"83", "87"} THEN "busy" ELSE "ok")
        /\ a.dev.got = mecha.got /\ a.dev.left = mecha.left
        /\ a.out = MechaGives(a.dev, cmd)
    BY <1>1, <1>2, <2>1, <2>2, <2>3, MechaTakesTurn
  <2>5. m + 1 >= 8 => mecha'.peer = tries
    <3>1. CASE cmd = "83"
      BY <1>5, <2>3, <2>4, <3>1
    <3>2. CASE cmd # "83"
      <4>1. m + 1 >= 8 => m >= 8
        BY <2>1, <3>2
      <4> QED
        BY <1>5, <2>4, <3>2, <4>1 DEF Answering
    <3> QED
      BY <3>1, <3>2
  <2>6. Known(m + 1)'
    <3>1. ASSUME NEW u \in Locals, \E j \in DOMAIN x.get : x.get[j] = u PROVE loc'[u] = Value(u, tries)
      <4>1. PICK v \in Locals, w \in Locals : /\ v # w /\ x.get = <<v, w>> /\ m >= 8
                           /\ \A d : MechaGives(d, cmd) = <<Value(v, d.peer), Value(w, d.peer)>>
        <5>1. x.get # <<>>
          BY <3>1
        <5> QED
          BY <1>7, <5>1 DEF MechaTurn
      <4>2. Device.out = <<Value(v, tries), Value(w, tries)>>
        <5>1. a.dev.peer = tries
          BY <1>5, <2>4, <2>5, <4>1
        <5> QED
          BY <2>4, <4>1, <5>1
      <4>3. v \in DOMAIN loc /\ w \in DOMAIN loc
        BY <1>1 DEF TypeInv, LocalNames
      <4>4. loc'[v] = Value(v, tries) /\ loc'[w] = Value(w, tries)
        <5>1. loc' = Filled("done", TRUE)
          BY <1>5, <2>4
        <5>2. v # w /\ x.get = <<v, w>>
          BY <4>1
        <5>3. {1, 2} \subseteq DOMAIN Device.out
          BY <4>2
        <5>4. loc'[v] = Device.out[1] /\ loc'[w] = Device.out[2]
          BY <4>3, <5>1, <5>2, <5>3, FilledTwo
        <5> QED
          BY <4>2, <5>4
      <4>5. u = v \/ u = w
        BY <3>1, <4>1
      <4> QED
        BY <4>4, <4>5
    <3>2. Known(m)
      BY DEF Answering
    <3> QED
      BY <1>1, <1>5, <2>4, <3>1, <3>2, KnownOn
  <2>7. mecha'.calc = "ok" \/ (m + 1 \in {8, 9, 28} /\ mecha'.calc = "busy")
    <3>1. cmd \in {"83", "87"} => m + 1 \in {8, 28}
      BY <2>1
    <3> QED
      BY <1>5, <2>4, <3>1
  <2>8. mecha'.at = MechaDone[m + 2] /\ mecha'.got = <<>> /\ mecha'.left = 0
    BY <1>5, <2>1, <2>2, <2>4 DEF Answering
  <2>9. card'.at = CardDone[m + 2] /\ card'.s = tries
    BY <1>3, <1>5, <2>4 DEF Answering
  <2> QED
    BY <1>1, <1>3, <1>4, <1>5, <2>4, <2>5, <2>6, <2>7, <2>8, <2>9 DEF Answering
<1> QED
  BY <1>6, <1>7

(* An authentication when n of its exchanges are done and nothing has gone wrong. *)
AuthClean(n) ==
    /\ todo = After(Handshake, n)
    /\ n = 1 => card.at = 0
    /\ n = 2 => Answering(0)
    /\ \A m \in 0 .. 31 : n = Lead + m => Answering(m)

(* What has to hold at the next exchange. *)
LEMMA AuthGoesOn ==
  ASSUME NEW n, todo' = After(Handshake', n), n = 1 => card'.at = 0, n = 2 => Answering(0)',
         \A m \in 0 .. 31 : n = Lead' + m => Answering(m)'
  PROVE  AuthClean(n)'
  BY DEF AuthClean

(* The exchanges before the card's first command. *)
LEMMA LeadAnswers ==
  ASSUME HInv, fn = "auth", Exchange("done"), NEW n \in 0 .. 2, n < Lead, AuthClean(n)
  PROVE  fn' = "auth" /\ AuthClean(n + 1)'
<1>1. /\ TypeInv /\ IsCard(card) /\ IsMecha(mecha) /\ tries' = tries /\ UNCHANGED isDEX /\ todo # <<>>
      /\ loc' \in {loc', Filled("done", TRUE)}
  BY ExchangeStep DEF HInv, TypeInv
<1>2. /\ P' = P /\ Handshake' = Handshake /\ Lead' = Lead /\ CardDone' = CardDone /\ MechaDone' = MechaDone
      /\ P = Lead + 10 /\ Lead \in 2 .. 3 /\ n \in Nat /\ n <= P + 21
  <2>1. P' = P /\ Handshake' = Handshake
    BY <1>1, SameHandshake
  <2>2. Lead \in 2 .. 3 /\ P \in Nat
    BY TurnAt, HandshakeAt
  <2> QED
    BY <2>1, <2>2 DEF Lead, CardDone, MechaDone
<1>3. x = Handshake[n + 1] /\ Tail(todo) = After(Handshake, n + 1)
  BY <1>1, <1>2, HandshakeStep DEF AuthClean
<1>4. \A v \in Locals : ~(FilledBy(v) <= 0)
  BY FilledIs DEF Locals
<1>5. CardDone[0 + 1] = 0 /\ MechaDone[0 + 1] = 0
  BY DEF CardDone, MechaDone
<1> PICK a, cmd, in, arg : a = Device /\ cmd = x.cmd /\ in = Sent /\ arg = x.arg
  OBVIOUS
<1>6. CASE n = 0
  <2>1. x.to = "card" /\ cmd = "60"
    BY <1>3, <1>6, HandshakeAt, EndsInCleanup
  <2>2. a = [dev |-> NewCard(card.id), ok |-> TRUE, out |-> <<>>]
    BY <2>1 DEF Device, CardDoes, CardProtocol
  <2>3. fn' = fn /\ todo' = Tail(todo) /\ card' = a.dev
    BY <2>1, <2>2, TakenStep
  <2>4. card'.at = 0
    BY <2>2, <2>3 DEF NewCard
  <2>5. \A m \in 0 .. 31 : n + 1 # Lead + m
    BY ONLY <1>2, <1>6
  <2>6. n + 1 = 1 /\ n + 1 # 2
    BY ONLY <1>6
  <2>7. todo' = After(Handshake', n + 1) /\ \A m \in 0 .. 31 : n + 1 # Lead' + m
    BY <1>2, <1>3, <2>3, <2>5
  <2>8. AuthClean(n + 1)'
    BY <2>4, <2>6, <2>7, AuthGoesOn
  <2> QED
    BY <2>3, <2>8
<1>7. CASE n = 1
  <2>1. x.to = "mecha" /\ cmd = "80"
    BY <1>3, <1>7, HandshakeAt, EndsInCleanup
  <2>2. a = [dev |-> ResetMecha, ok |-> TRUE, out |-> <<>>]
    BY <2>1 DEF Device, MechaDoes, MechaProtocol, FileCommands
  <2>3. fn' = fn /\ todo' = Tail(todo) /\ mecha' = a.dev /\ card' = card
    BY <2>1, <2>2, TakenStep
  <2>4. mecha'.at = 0 /\ mecha'.got = <<>> /\ mecha'.left = 0 /\ mecha'.calc = "ok"
    BY <2>2, <2>3 DEF ResetMecha
  <2>5. Known(0)'
    BY <1>4 DEF Known
  <2>6. Answering(0)'
    BY <1>2, <1>5, <1>7, <2>3, <2>4, <2>5 DEF Answering, AuthClean
  <2>7. \A m \in 0 .. 31 : n + 1 = Lead + m => m = 0
    BY ONLY <1>2, <1>7
  <2>8. n + 1 # 1
    BY ONLY <1>7
  <2>9. todo' = After(Handshake', n + 1) /\ \A m \in 0 .. 31 : n + 1 = Lead' + m => m = 0
    BY <1>2, <1>3, <2>3, <2>7
  <2>10. AuthClean(n + 1)'
    BY <2>6, <2>8, <2>9, AuthGoesOn
  <2> QED
    BY <2>3, <2>10
<1>8. CASE n = 2
  <2>1. Lead = 3 /\ x = card_auth_key_change
    BY <1>2, <1>3, <1>8, TurnAt
  <2>2. x.to = "card" /\ cmd = "F7"
    BY <2>1 DEF card_auth_key_change, ToCard, Exchanged
  <2>3. a = [dev |-> card, ok |-> TRUE, out |-> <<>>]
    BY <2>2 DEF Device, CardDoes, CardProtocol
  <2>4. fn' = fn /\ todo' = Tail(todo) /\ mecha' = mecha /\ card' = card
    BY <2>2, <2>3, TakenStep
  <2>5. Answering(0)
    BY <1>8, <2>1 DEF AuthClean
  <2>6. Known(0)'
    BY <1>4 DEF Known
  <2>7. Answering(0)'
    BY <1>2, <2>4, <2>5, <2>6 DEF Answering
  <2>8. \A m \in 0 .. 31 : n + 1 = Lead + m => m = 0
    BY ONLY <1>8, <2>1
  <2>9. n + 1 # 1
    BY ONLY <1>8
  <2>10. todo' = After(Handshake', n + 1) /\ \A m \in 0 .. 31 : n + 1 = Lead' + m => m = 0
    BY <1>2, <1>3, <2>4, <2>8
  <2>11. AuthClean(n + 1)'
    BY <2>7, <2>9, <2>10, AuthGoesOn
  <2> QED
    BY <2>4, <2>11
<1> QED
  BY <1>6, <1>7, <1>8

(* Every exchange is taken. *)
LEMMA AuthAnswers ==
  ASSUME HInv, fn = "auth", Exchange("done"), NEW n \in 0 .. P + 21, AuthClean(n)
  PROVE  fn' = "auth" /\ n + 1 \in 0 .. P' + 21 /\ AuthClean(n + 1)'
<1>1. tries' = tries /\ UNCHANGED isDEX /\ todo # <<>>
  BY ExchangeStep
<1>2. /\ P' = P /\ Handshake' = Handshake /\ Lead' = Lead
      /\ P = Lead + 10 /\ Lead \in 2 .. 3 /\ n \in Nat /\ n <= P + 21
  <2>1. P' = P /\ Handshake' = Handshake
    BY <1>1, SameHandshake
  <2>2. Lead \in 2 .. 3 /\ P \in Nat
    BY TurnAt, HandshakeAt
  <2> QED
    BY <2>1, <2>2 DEF Lead
<1>3. n < P + 21 /\ x = Handshake[n + 1] /\ Tail(todo) = After(Handshake, n + 1)
  BY <1>1, <1>2, HandshakeStep DEF AuthClean
<1>4. n + 1 \in 0 .. P' + 21
  BY <1>2, <1>3
<1>5. CASE n < Lead
  <2>1. n \in 0 .. 2
    BY <1>2, <1>5
  <2> QED
    BY <1>4, <1>5, <2>1, LeadAnswers
<1>6. CASE ~(n < Lead)
  <2> PICK m : m = n - Lead
    OBVIOUS
  <2>1. m \in 0 .. 30 /\ n = Lead + m /\ n + 1 = Lead + m + 1 /\ n + 1 # 1 /\ n + 1 # 2
    BY <1>2, <1>3, <1>6
  <2>2. x = Turn(m)
    BY <1>3, <2>1, TurnAt
  <2>3. Answering(m)
    BY <1>6, <2>1 DEF AuthClean
  <2>4. fn' = fn /\ todo' = Tail(todo) /\ Answering(m + 1)'
    <3>1. Fills(m, x) /\ (CardTurn(m, x) \/ MechaTurn(m, x))
      BY <2>1, <2>2, TurnsAre
    <3>2. CASE CardTurn(m, x)
      BY <2>1, <2>3, <3>1, <3>2, CardAnswers
    <3>3. CASE MechaTurn(m, x)
      BY <2>1, <2>3, <3>1, <3>3, MechaAnswers
    <3> QED
      BY <3>1, <3>2, <3>3
  <2>5. \A k \in 0 .. 31 : n + 1 = Lead + k => k = m + 1
    BY ONLY <1>2, <2>1
  <2>6. \A k \in 0 .. 31 : n + 1 = Lead' + k => Answering(k)'
    BY <1>2, <2>4, <2>5
  <2>7. todo' = After(Handshake, n + 1)'
    BY <1>2, <1>3, <2>4
  <2>8. AuthClean(n + 1)'
    BY <2>1, <2>6, <2>7 DEF AuthClean
  <2> QED
    BY <1>4, <2>4, <2>8
<1> QED
  BY <1>5, <1>6

(* When the MECHACON takes a command of a file that carries no data. *)
Obeys(m, cmd) ==
    \/ cmd = "90" /\ m.auth
    \/ cmd = "91" /\ m.op = "header" /\ m.calc = "ok"
    \/ cmd = "92" /\ m.op \in {"header", "block"}
    \/ cmd = "93" /\ m.op = "block"
    \/ cmd = "8E"
    \/ cmd \in {"94", "95", "96", "97"} /\ m.mode = 2 /\ m.calc = "ok"
    \/ cmd = "98" /\ m.mode = 2
    \/ cmd = "8F" /\ m.calc = "ok" /\ Len(m.got) = m.left

LEMMA MechaObeys ==
  ASSUME NEW m, NEW cmd, NEW arg, NEW in, NEW a, a = MechaDoes(m, cmd, arg, in), Obeys(m, cmd)
  PROVE  /\ a.ok /\ cmd \in FileCommands \cup {"8F"}
         /\ cmd = "98" => a.out = <<[n |-> "icvps2"]>>
<1>1. CASE cmd = "8F"
  <2>1. a = MechaProtocol(m, cmd, in)
    BY <1>1 DEF MechaDoes, FileCommands
  <2>2. a = [dev |-> m, ok |-> m.calc = "ok" /\ Len(m.got) = m.left, out |-> <<>>]
    BY <1>1, <2>1 DEF MechaProtocol
  <2>3. m.calc = "ok" /\ Len(m.got) = m.left
    BY <1>1 DEF Obeys
  <2> PICK q \in BOOLEAN : q = (m.calc = "ok" /\ Len(m.got) = m.left)
    OBVIOUS
  <2>4. a = [dev |-> m, ok |-> q, out |-> <<>>] /\ q
    BY ONLY <2>2, <2>3, q = (m.calc = "ok" /\ Len(m.got) = m.left)
  <2> QED
    BY <1>1, <2>4
<1>2. CASE cmd # "8F"
  <2>1. cmd \in FileCommands /\ MechaReady(m, cmd) /\ cmd # "8D"
    BY <1>2 DEF Obeys, FileCommands, MechaReady
  <2>2. a = CASE cmd = "90" -> MechaOpens([m EXCEPT !.nth = 0, !.calc = "ok"], "header", arg[1], arg[2])
              [] cmd = "92" -> MechaOpens(m, "block", m.mode, arg[1])
              [] cmd = "8D" -> MechaTakes(m, in)
              [] OTHER -> [dev |-> m, ok |-> TRUE, out |-> MechaGets(m, cmd)]
    BY <2>1 DEF MechaDoes
  <2>3. CASE cmd = "90"
    <3>1. a = MechaOpens([m EXCEPT !.nth = 0, !.calc = "ok"], "header", arg[1], arg[2])
      BY <2>2, <2>3
    <3> QED
      BY <2>1, <2>3, <3>1 DEF MechaOpens
  <2>4. CASE cmd = "92"
    <3>1. a = MechaOpens(m, "block", m.mode, arg[1])
      BY <2>2, <2>4
    <3> QED
      BY <2>1, <2>4, <3>1 DEF MechaOpens
  <2>5. CASE cmd \notin {"90", "92"}
    <3>1. a = [dev |-> m, ok |-> TRUE, out |-> MechaGets(m, cmd)]
      BY <2>1, <2>2, <2>5
    <3>2. cmd = "98" => MechaGets(m, cmd) = <<[n |-> "icvps2"]>>
      BY DEF MechaGets
    <3> QED
      BY <2>1, <3>1, <3>2
  <2> QED
    BY <2>3, <2>4, <2>5
<1> QED
  BY <1>1, <1>2

(* What every exchange leaves alone. *)
Alone == UNCHANGED <<isDEX, tries, file, buf, twin, start, due, signed>>

LEMMA ExchangeAlone ==
  ASSUME Exchange("done")
  PROVE  Alone /\ hit' = hit /\ faults' = faults /\ todo # <<>>
BY ExchangeStep DEF Alone, fileVars

(* A command that the MECHACON takes, nothing happening to it. *)
LEMMA MechaWorks ==
  ASSUME HInv, fn \in {"sign", "boot"}, Exchange("done"), x.to = "mecha", Obeys(mecha, x.cmd)
  PROVE  /\ fn' = fn /\ todo' = Tail(todo) /\ loc' = Filled("done", TRUE) /\ card' = card /\ Alone
         /\ (mecha'.auth <=> mecha.auth) /\ mecha'.peer = mecha.peer
         /\ x.cmd # "90" => mecha'.mode = mecha.mode
         /\ x.cmd = "90" => /\ mecha'.op = "header" /\ mecha'.mode = x.arg[1] /\ mecha'.left = x.arg[2]
                            /\ mecha'.got = <<>> /\ mecha'.nth = 0 /\ mecha'.calc = "ok"
         /\ x.cmd = "92" => /\ mecha'.op = "block" /\ mecha'.left = x.arg[1] /\ mecha'.got = <<>>
                            /\ mecha'.nth = mecha.nth /\ mecha'.calc = mecha.calc
         /\ x.cmd \in Reads => mecha' = mecha
         /\ x.cmd = "94" => Device.out = <<Half("Kbit1", mecha.peer, file.keys)>>
         /\ x.cmd = "95" => Device.out = <<Half("Kbit2", mecha.peer, file.keys)>>
         /\ x.cmd = "96" => Device.out = <<Half("Kc1", mecha.peer, file.keys)>>
         /\ x.cmd = "97" => Device.out = <<Half("Kc2", mecha.peer, file.keys)>>
         /\ x.cmd = "98" => Device.out = <<[n |-> "icvps2"]>>
<1> PICK a, cmd, in, arg : a = Device /\ cmd = x.cmd /\ in = Sent /\ arg = x.arg
  OBVIOUS
<1>1. a = MechaDoes(mecha, cmd, arg, in) /\ IsMecha(mecha) /\ Obeys(mecha, cmd)
  BY DEF Device, HInv, TypeInv
<1>2. a.ok /\ cmd \in FileCommands \cup {"8F"} /\ (cmd = "98" => a.out = <<[n |-> "icvps2"]>>)
  BY ONLY <1>1, MechaObeys
<1>3. fn' = fn /\ todo' = Tail(todo) /\ loc' = Filled("done", TRUE) /\ card' = card /\ mecha' = a.dev
  <2>1. Device.ok
    BY <1>2
  <2> QED
    BY <2>1, TakenStep
<1>4. /\ (a.dev.auth <=> mecha.auth) /\ a.dev.peer = mecha.peer
      /\ cmd # "90" => a.dev.mode = mecha.mode
      /\ cmd = "90" => /\ mecha.auth /\ a.dev.op = "header" /\ a.dev.mode = arg[1] /\ a.dev.left = arg[2]
                       /\ a.dev.got = <<>> /\ a.dev.nth = 0 /\ a.dev.calc = "ok"
      /\ cmd = "92" => /\ a.dev.op = "block" /\ a.dev.left = arg[1] /\ a.dev.got = <<>>
                       /\ a.dev.nth = mecha.nth /\ a.dev.calc = mecha.calc
      /\ cmd \in Reads => a.dev = mecha
      /\ cmd = "94" => mecha.mode = 2 /\ a.out = <<Half("Kbit1", mecha.peer, file.keys)>>
      /\ cmd = "95" => mecha.mode = 2 /\ a.out = <<Half("Kbit2", mecha.peer, file.keys)>>
      /\ cmd = "96" => mecha.mode = 2 /\ a.out = <<Half("Kc1", mecha.peer, file.keys)>>
      /\ cmd = "97" => mecha.mode = 2 /\ a.out = <<Half("Kc2", mecha.peer, file.keys)>>
  BY <1>1, <1>2, MechaFileStep
<1>5. Alone
  BY ExchangeAlone
<1> QED
  BY <1>2, <1>3, <1>4, <1>5

(* A command of the card that it takes. *)
StageOf(cmd) == CASE cmd \in {"40", "50"} -> 1 [] cmd \in {"41", "51"} -> 2 [] cmd \in {"42", "52"} -> 3 [] OTHER -> 0

LEMMA CardObeys ==
  ASSUME NEW c, IsCard(c), NEW cmd \in CardKeyCmds, NEW in, NEW a, a = CardDoes(c, cmd, in), c.auth,
         (c.stage + 1) % 4 = StageOf(cmd) \/ cmd \in {"40", "50"}
  PROVE  a.ok /\ a.dev.stage = StageOf(cmd)
<1>1. a = CardCrypto(c, cmd, in)
  BY DEF CardDoes, CardKeyCmds
<1>2. StageOf(cmd) = IF cmd \in {"40", "50"} THEN 1 ELSE IF cmd \in {"41", "51"} THEN 2
                     ELSE IF cmd \in {"42", "52"} THEN 3 ELSE 0
  BY DEF StageOf
<1>3. PICK v : a = [dev |-> [c EXCEPT !.stage = StageOf(cmd), !.val = v], ok |-> TRUE,
                    out |-> IF StageOf(cmd) = 0 THEN <<c.val>> ELSE <<>>]
  <2> PICK st : st = StageOf(cmd)
    OBVIOUS
  <2>1. c.auth /\ ((c.stage + 1) % 4 = st \/ cmd \in {"40", "50"})
    OBVIOUS
  <2>2. st = CASE cmd \in {"40", "50"} -> 1 [] cmd \in {"41", "51"} -> 2
                   [] cmd \in {"42", "52"} -> 3 [] OTHER -> 0
    BY DEF StageOf
  <2>3. \E v : a = [dev |-> [c EXCEPT !.stage = st, !.val = v], ok |-> TRUE,
                    out |-> IF st = 0 THEN <<c.val>> ELSE <<>>]
    BY ONLY <1>1, <2>1, <2>2 DEF CardCrypto
  <2> QED
    BY <2>3
<1>4. "stage" \in DOMAIN c
  BY DEF IsCard
<1> PICK st : st = StageOf(cmd)
  OBVIOUS
<1>5. a.ok /\ a.dev = [c EXCEPT !.stage = st, !.val = v]
  BY <1>3
<1>6. a.dev.stage = st
  <2> PICK d : d = a.dev
    OBVIOUS
  <2>1. d = [c EXCEPT !.stage = st, !.val = v]
    BY <1>5
  <2> QED
    BY ONLY <1>4, <2>1, d = a.dev
<1> QED
  BY <1>5, <1>6

LEMMA CardWorks ==
  ASSUME HInv, fn \in {"sign", "boot"}, Exchange("done"), x.to = "card", x.cmd \in CardKeyCmds, card.auth,
         card.stage + 1 = StageOf(x.cmd) \/ x.cmd \in {"40", "50"} \/ (x.cmd \in {"43", "53"} /\ card.stage = 3)
  PROVE  /\ fn' = fn /\ todo' = Tail(todo) /\ loc' = Filled("done", TRUE) /\ mecha' = mecha /\ Alone
         /\ card'.auth /\ card'.id = card.id /\ card'.s = card.s /\ card'.stage = StageOf(x.cmd)
         /\ x.cmd \in {"41", "51"} => card'.val = Sent[1]
         /\ x.cmd = "42" => card'.val = DecryptFor(card, card.val)
         /\ x.cmd = "52" => card'.val = EncryptFor(card, card.val)
         /\ x.cmd \in {"43", "53"} => Device.out = <<card.val>>
<1> PICK a, cmd, in : a = Device /\ cmd = x.cmd /\ in = Sent
  OBVIOUS
<1>1. a = CardDoes(card, cmd, in) /\ IsCard(card) /\ cmd \in CardKeyCmds
  BY DEF Device, HInv, TypeInv
<1>2. (card.stage + 1) % 4 = StageOf(cmd) \/ cmd \in {"40", "50"}
  <2>1. card.stage \in 0 .. 3
    BY <1>1 DEF IsCard
  <2>2. cmd \in {"43", "53"} => StageOf(cmd) = 0
    BY DEF StageOf
  <2>3. StageOf(cmd) \in 0 .. 3
    BY DEF StageOf
  <2> QED
    BY <2>1, <2>2, <2>3
<1>3. a.ok /\ a.dev.stage = StageOf(cmd)
  BY <1>1, <1>2, CardObeys
<1>4. fn' = fn /\ todo' = Tail(todo) /\ loc' = Filled("done", TRUE) /\ mecha' = mecha /\ card' = a.dev
  <2>1. Device.ok
    BY <1>3
  <2> QED
    BY <2>1, TakenStep
<1>5. /\ a.dev.id = card.id /\ a.dev.s = card.s /\ (a.dev.auth <=> card.auth)
      /\ cmd \in {"41", "51"} => a.dev.val = in[1]
      /\ cmd = "42" => a.dev.val = DecryptFor(card, card.val)
      /\ cmd = "52" => a.dev.val = EncryptFor(card, card.val)
      /\ cmd \in {"43", "53"} => a.out = <<card.val>>
  BY <1>1, <1>3, CryptoStep
<1>6. Alone
  BY ExchangeAlone
<1> QED
  BY <1>3, <1>4, <1>5, <1>6

(* The MECHACON when g units of the size announced are in, which lie in the buffer after from. *)
Pouring(op, from, size, g) ==
    /\ mecha.op = op /\ mecha.left = size /\ IsSeq(mecha.got) /\ Len(mecha.got) = g
    /\ \A u \in 1 .. g : mecha.got[u] = buf[from + u]
    /\ mecha.calc = "ok" \/ (g = size /\ mecha.calc = "busy")
Agrees(all, from, size) == IsSeq(all) /\ Len(all) = size /\ \A u \in 1 .. size : all[u] = buf[from + u]
Good(op, all) == IF op = "header" THEN HeaderGood(mecha, all) ELSE BlockGood(mecha, all)

(* A chunk that brings them from g to k of a header or a block that is good. *)
Chunk(op, from, size, g, k) ==
    /\ x.to = "mecha" /\ x.cmd = "8D" /\ op \in {"header", "block"} /\ {from, size, g, k} \subseteq Nat
    /\ Pouring(op, from, size, g)
    /\ IsSeq(Sent) /\ k = g + Len(Sent) /\ g < k /\ k <= size /\ \A j \in 1 .. k - g : Sent[j] = buf[from + g + j]
    /\ \A all : Agrees(all, from, size) => Good(op, all)

(* It is taken; with the last one the MECHACON has all, and finds it good. *)
LEMMA ChunkWorks ==
  ASSUME HInv, Exchange("done"), NEW op, NEW from, NEW size, NEW g, NEW k, Chunk(op, from, size, g, k)
  PROVE  /\ fn' = fn /\ todo' = Tail(todo) /\ loc' = Filled("done", TRUE) /\ card' = card /\ Alone
         /\ (mecha'.auth <=> mecha.auth) /\ mecha'.peer = mecha.peer /\ mecha'.mode = mecha.mode
         /\ Pouring(op, from, size, k)'
         /\ mecha'.nth = mecha.nth + (IF k = size /\ op = "block" THEN 1 ELSE 0)
<1> PICK l : l = Len(Sent)
  OBVIOUS
<1>a. /\ x.to = "mecha" /\ x.cmd = "8D" /\ op \in {"header", "block"} /\ {from, size, g, k} \subseteq Nat
      /\ Pouring(op, from, size, g)
      /\ IsSeq(Sent) /\ k = g + l /\ g < k /\ k <= size /\ \A j \in 1 .. k - g : Sent[j] = buf[from + g + j]
      /\ \A all : Agrees(all, from, size) => Good(op, all)
  BY DEF Chunk
<1>b. l \in Nat
  BY <1>a, ConcatAt
<1>c. /\ from \in Nat /\ size \in Nat /\ g \in Nat /\ k \in Nat /\ g < size /\ l \in Nat \ {0} /\ k - g = l
      /\ g + l <= size
  BY ONLY <1>a, <1>b
<1>d. \A j \in 1 .. l : Sent[j] = buf[from + g + j]
  BY <1>a, <1>c
<1> PICK a, cmd, in, arg, all, got : /\ a = Device /\ cmd = x.cmd /\ in = Sent /\ arg = x.arg
                                     /\ got = mecha.got /\ all = got \o in
  OBVIOUS
<1>1. a = MechaDoes(mecha, cmd, arg, in) /\ IsMecha(mecha) /\ cmd = "8D"
  BY <1>a DEF Device, HInv, TypeInv
<1>2. /\ mecha.op = op /\ mecha.left = size /\ IsSeq(got) /\ Len(got) = g
      /\ \A u \in 1 .. g : got[u] = buf[from + u]
      /\ mecha.calc = "ok"
  <2>1. g # size
    BY ONLY <1>c
  <2> QED
    BY ONLY <1>a, <2>1, got = mecha.got DEF Pouring
<1>3. /\ IsSeq(all) /\ Len(all) = k
      /\ \A j \in 1 .. g : all[j] = got[j]
      /\ \A j \in 1 .. l : all[g + j] = in[j]
  <2>1. IsSeq(got) /\ IsSeq(in)
    BY <1>2, <1>a
  <2>2. /\ IsSeq(got \o in) /\ Len(got \o in) = Len(got) + Len(in)
        /\ \A j \in 1 .. Len(got) : (got \o in)[j] = got[j]
        /\ \A j \in 1 .. Len(in) : (got \o in)[Len(got) + j] = in[j]
    BY ONLY <2>1, ConcatAt
  <2> QED
    BY <1>2, <1>a, <2>2
<1>4. \A u \in 1 .. k : all[u] = buf[from + u]
  <2> SUFFICES ASSUME NEW u \in 1 .. k PROVE all[u] = buf[from + u]
    OBVIOUS
  <2>1. CASE u <= g
    <3>1. u \in 1 .. g
      BY ONLY <1>c, <2>1, u \in 1 .. k
    <3> QED
      BY <1>2, <1>3, <3>1
  <2>2. CASE ~(u <= g)
    <3>1. PICK j \in 1 .. l : u = g + j /\ from + u = from + g + j
      <4>1. u - g \in 1 .. l /\ u = g + (u - g) /\ from + u = from + g + (u - g)
        BY ONLY <1>a, <1>c, <2>2, u \in 1 .. k
      <4> QED
        BY <4>1
    <3>2. all[u] = in[j] /\ in[j] = buf[from + g + j]
      BY <1>3, <1>d, <3>1
    <3> QED
      BY <3>1, <3>2
  <2> QED
    BY <2>1, <2>2
<1>5. a = MechaTakes(mecha, in)
  <2>1. cmd \in FileCommands /\ MechaReady(mecha, cmd)
    BY <1>1 DEF FileCommands, MechaReady
  <2> QED
    BY <1>1, <2>1 DEF MechaDoes
<1>6. a.ok
  <2>1. Len(mecha.got \o in) <= mecha.left /\ mecha.op \in {"header", "block"}
    BY <1>2, <1>3, <1>a
  <2>2. a.ok = TRUE
    BY <1>5, <2>1 DEF MechaTakes
  <2> QED
    BY <2>2
<1>7. /\ IsMecha(a.dev) /\ (a.dev.auth <=> mecha.auth) /\ a.dev.peer = mecha.peer /\ a.dev.op = op
      /\ a.dev.mode = mecha.mode /\ a.dev.left = size /\ a.dev.got = all
      /\ a.dev.nth = (IF k = size /\ op = "block" THEN mecha.nth + 1 ELSE mecha.nth)
      /\ a.dev.calc = (IF k < size THEN "ok" ELSE IF Good(op, all) THEN "busy" ELSE "fails")
  <2>1. /\ IsMecha(a.dev) /\ (a.dev.auth <=> mecha.auth) /\ a.dev.peer = mecha.peer /\ a.dev.op = mecha.op
        /\ a.dev.mode = mecha.mode /\ a.dev.left = mecha.left
        /\ a.dev.got = mecha.got \o in
        /\ a.dev.nth = (IF Len(mecha.got \o in) = mecha.left /\ mecha.op = "block" THEN mecha.nth + 1 ELSE mecha.nth)
        /\ a.dev.calc = (IF Len(mecha.got \o in) < mecha.left THEN mecha.calc
                         ELSE IF mecha.op = "header"
                              THEN IF HeaderGood(mecha, mecha.got \o in) THEN "busy" ELSE "fails"
                              ELSE IF BlockGood(mecha, mecha.got \o in) THEN "busy" ELSE "fails")
    BY ONLY <1>1, <1>5, <1>6, MechaTakesStep
  <2>2. mecha.got \o in = all
    OBVIOUS
  <2> QED
    BY <1>2, <1>3, <2>1, <2>2 DEF Good
<1>8. a.dev.calc = "ok" \/ (k = size /\ a.dev.calc = "busy")
  <2>1. CASE k < size
    BY <1>7, <2>1
  <2>2. CASE k = size
    <3>1. Agrees(all, from, size)
      BY <1>3, <1>4, <2>2 DEF Agrees
    <3>2. Good(op, all) /\ ~(k < size)
      BY <1>a, <2>2, <3>1
    <3> QED
      BY <1>7, <2>2, <3>2
  <2> QED
    BY <1>c, <1>a, <2>1, <2>2
<1>9. fn' = fn /\ todo' = Tail(todo) /\ loc' = Filled("done", TRUE) /\ card' = card /\ mecha' = a.dev
  <2>1. Device.ok
    BY <1>6
  <2> QED
    BY <1>a, <2>1, TakenStep
<1>10. Alone /\ buf' = buf
  BY ExchangeAlone DEF Alone
<1>11. Pouring(op, from, size, k)'
  <2> PICK d, e : d = mecha' /\ e = buf'
    OBVIOUS
  <2>1. /\ d.op = op /\ d.left = size /\ d.got = all /\ (d.calc = "ok" \/ (k = size /\ d.calc = "busy"))
        /\ e = buf
    BY <1>7, <1>8, <1>9, <1>10
  <2>2. /\ d.op = op /\ d.left = size /\ IsSeq(d.got) /\ Len(d.got) = k
        /\ \A u \in 1 .. k : d.got[u] = e[from + u]
        /\ d.calc = "ok" \/ (k = size /\ d.calc = "busy")
    BY ONLY <1>3, <1>4, <2>1
  <2> QED
    BY <2>2 DEF Pouring
<1>12. mecha.nth \in Nat
  BY <1>1 DEF IsMecha
<1>13. a.dev.nth = mecha.nth + (IF k = size /\ op = "block" THEN 1 ELSE 0)
  BY ONLY <1>7, <1>12
<1> QED
  BY ONLY <1>7, <1>9, <1>10, <1>11, <1>13

(* The ICVPS2 of a file: the MECHACON's, or the one it came with. *)
Icv(b, f) == f.icvps2 => \/ b[KELF_header_size(f)].n = "icvps2"
                         \/ b[KELF_header_size(f)] = Content(f)[KELF_header_size(f)]

(* The MECHACON finds a header good that is the file's, with the keys for its own session when it
   boots, ... *)
LEMMA HeaderFits ==
  ASSUME file \in Files, Kept(buf, file), Icv(buf, file),
         mecha.mode = 1 => \A u \in 1 .. 4 : buf[KbitOffset(file) + u] = Half(Halves[u], mecha.peer, file.keys),
         NEW all, Agrees(all, 0, KELF_header_size(file))
  PROVE  Good("header", all)
<1> PICK s, b, n : s = KELF_header_size(file) /\ b = KbitOffset(file) /\ n = file.units
  OBVIOUS
<1>1. b \in Nat /\ b + 5 <= s /\ s \in Nat /\ s <= n /\ n \in Nat
  BY Places
<1>2. DOMAIN all = 1 .. s /\ \A u \in 1 .. s : all[u] = buf[u]
  <2>1. IsSeq(all) /\ Len(all) = s /\ \A u \in 1 .. s : all[u] = buf[0 + u]
    BY DEF Agrees
  <2>2. DOMAIN all = 1 .. s
    BY <2>1, ConcatAt
  <2>3. \A u \in 1 .. s : 0 + u = u
    BY <1>1
  <2> QED
    BY <2>1, <2>2, <2>3
<1>3. ASSUME NEW u \in DOMAIN all \ KeyPlaces(file)
      PROVE  all[u].n = "icvps2" \/ all[u] = Content(file)[u]
  <2>1. u \in 1 .. n /\ u \in 1 .. s /\ u \notin KeyPlaces(file) /\ all[u] = buf[u]
    BY <1>1, <1>2
  <2>2. buf[u] = Content(file)[u] \/ (file.icvps2 /\ u = s)
    BY <2>1 DEF Kept
  <2> QED
    BY <2>1, <2>2 DEF Icv
<1>4. ASSUME mecha.mode = 1, NEW u \in 1 .. 4
      PROVE  all[KbitOffset(file) + u] = Half(Halves[u], mecha.peer, file.keys)
  <2>1. b + u \in 1 .. s
    BY <1>1
  <2>2. all[b + u] = buf[b + u]
    BY <1>2, <2>1
  <2> QED
    BY <1>4, <2>2
<1>5. HeaderGood(mecha, all)
  BY <1>3, <1>4 DEF HeaderGood
<1> QED
  BY <1>5 DEF Good

(* The marked blocks are counted in their order: no two have the same number. *)
LEMMA OneByOne ==
  ASSUME NEW n \in Nat, NEW S \in SUBSET (1 .. n), NEW i \in S, NEW j \in S, Before(S, i) = Before(S, j)
  PROVE  i = j
<1>0. IsFiniteSet(S)
  <2>1. IsFiniteSet(1 .. n)
    BY FS_Interval
  <2> QED
    BY <2>1, FS_Subset
<1>1. \A p, q \in S : p < q => Before(S, p) < Before(S, q)
  <2> SUFFICES ASSUME NEW p \in S, NEW q \in S, p < q PROVE Before(S, p) < Before(S, q)
    OBVIOUS
  <2> DEFINE T == {k \in S : k < p + 1}
             U == {k \in S : k < q}
  <2>0. p \in Nat /\ q \in Nat /\ \A k \in S : k \in Nat
    OBVIOUS
  <2>1. T \subseteq U /\ U \subseteq S
    <3>1. \A k \in S : k < p + 1 => k < q
      BY ONLY <2>0, p < q
    <3> QED
      BY <3>1
  <2>2. IsFiniteSet(U)
    BY <1>0, <2>1, FS_Subset
  <2>3. Cardinality(T) <= Cardinality(U) /\ Cardinality(T) \in Nat /\ Cardinality(U) \in Nat
    BY <2>1, <2>2, FS_Subset, FS_CardinalityType
  <2>4. Before(S, p + 1) = Cardinality(T) /\ Before(S, q) = Cardinality(U)
    BY DEF Before
  <2>5. Before(S, p + 1) = Before(S, p) + 1 /\ Before(S, p) \in Nat
    BY Counting
  <2> HIDE DEF T, U
  <2> QED
    BY <2>3, <2>4, <2>5
<1>2. i \in Nat /\ j \in Nat /\ Before(S, i) \in Nat
  <2>1. i \in 1 .. n /\ j \in 1 .. n
    OBVIOUS
  <2>2. \A k \in 1 .. n : Before(S, k) \in Nat
    BY ONLY n \in Nat, S \in SUBSET (1 .. n), Counting
  <2> QED
    BY ONLY n \in Nat, <2>1, <2>2
<1> QED
  BY <1>1, <1>2

(* The blocks that the MECHACON counts, in either mode. *)
Marked(mode) == IF mode = 2 THEN Signed(file) ELSE Booted(file)

LEMMA MarkedIn ==
  ASSUME file \in Files, NEW mode
  PROVE  Len(file.blocks) \in Nat /\ Marked(mode) \in SUBSET (1 .. Len(file.blocks))
<1>1. Len(file.blocks) \in Nat /\ DOMAIN file.blocks = 1 .. Len(file.blocks)
  BY OffsetsAre
<1> QED
  BY <1>1 DEF Marked, Signed, Booted

(* ... and a block that is the file's. *)
LEMMA BlockFits ==
  ASSUME file \in Files, Kept(buf, file), NEW i \in Marked(mecha.mode), mecha.nth = Before(Marked(mecha.mode), i),
         NEW all, Agrees(all, BlockOffset(file, i), file.blocks[i].size)
  PROVE  Good("block", all)
<1> PICK S, n : S = Marked(mecha.mode) /\ n = Len(file.blocks)
  OBVIOUS
<1>1. n \in Nat /\ S \in SUBSET (1 .. n) /\ i \in 1 .. n
  BY MarkedIn
<1>2. (CHOOSE j \in S : Before(S, j) = mecha.nth) = i
  <2>1. \A j \in S : Before(S, j) = mecha.nth => j = i
    BY <1>1, OneByOne
  <2> QED
    BY <2>1
<1> PICK from, to, size, b : from = BlockOffset(file, i) /\ to = BlockOffset(file, i + 1) /\ size = file.blocks[i].size /\ b = Content(file)
  OBVIOUS
<1>3. from \in Nat /\ to = from + size /\ size \in Nat /\ to <= file.units /\ KELF_header_size(file) <= from
  BY <1>1, OffsetsWithin, OffsetsAre
<1>4. \A u \in 1 .. size : buf[from + u] = b[from + u]
  <2> SUFFICES ASSUME NEW u \in 1 .. size PROVE buf[from + u] = b[from + u]
    OBVIOUS
  <2>1. KbitOffset(file) \in Nat /\ KbitOffset(file) + 5 <= KELF_header_size(file) /\ KELF_header_size(file) \in Nat /\ file.units \in Nat
    BY Places
  <2> PICK k, s, m : k = KbitOffset(file) /\ s = KELF_header_size(file) /\ m = file.units
    OBVIOUS
  <2>a. /\ k \in Nat /\ k + 5 <= s /\ s \in Nat /\ m \in Nat /\ from \in Nat /\ to = from + size /\ size \in Nat
        /\ to <= m /\ s <= from /\ u \in 1 .. size
    BY <1>3, <2>1
  <2>b. from + u \in 1 .. m /\ from + u # s /\ from + u \notin k + 1 .. k + 4
    BY ONLY <2>a
  <2>2. from + u \in 1 .. file.units /\ from + u # KELF_header_size(file) /\ from + u \notin KeyPlaces(file)
    BY <2>b DEF KeyPlaces
  <2> QED
    BY <2>2 DEF Kept
<1>5. IsSeq(all) /\ Len(all) = size /\ (\A u \in 1 .. size : all[u] = b[from + u]) /\ DOMAIN all = 1 .. size
  <2>1. IsSeq(all) /\ Len(all) = size /\ (\A u \in 1 .. size : all[u] = buf[from + u])
    BY DEF Agrees
  <2>2. DOMAIN all = 1 .. size
    BY <2>1, ConcatAt
  <2> QED
    BY <1>4, <2>1, <2>2
<1>6. all = SubSeq(b, from + 1, to)
  <2> PICK q, lo : q = SubSeq(b, lo, to) /\ lo = from + 1
    OBVIOUS
  <2> DEFINE A == {b[u] : u \in lo .. to}
  <2>1. lo \in Int /\ to \in Int /\ \A u \in lo .. to : b[u] \in A
    <3>1. lo = from + 1 /\ from \in Nat /\ to = from + size /\ size \in Nat
      BY <1>3
    <3>2. lo \in Int /\ to \in Int
      BY ONLY <3>1
    <3> QED
      BY ONLY <3>2
  <2> HIDE DEF A
  <2>2. /\ Len(SubSeq(b, lo, to)) = (IF lo <= to THEN to - lo + 1 ELSE 0)
        /\ SubSeq(b, lo, to) \in Seq(A)
        /\ \A u \in 1 .. to - lo + 1 : SubSeq(b, lo, to)[u] = b[lo + u - 1]
    BY ONLY <2>1, SubSeqProperties
  <2>3. lo = from + 1 /\ from \in Nat /\ to = from + size /\ size \in Nat
    BY <1>3
  <2>4. to - lo + 1 = size /\ (IF lo <= to THEN to - lo + 1 ELSE 0) = size /\ \A u \in 1 .. size : lo + u - 1 = from + u
    BY ONLY <2>3
  <2>5. q \in Seq(A) /\ Len(q) = size /\ \A u \in 1 .. size : q[u] = b[from + u]
    BY <2>2, <2>4
  <2>6. q = [u \in 1 .. size |-> q[u]]
    BY ONLY <2>5
  <2>7. all = [u \in 1 .. size |-> all[u]]
    <3>1. PICK B : all \in Seq(B)
      BY <1>5 DEF IsSeq
    <3> QED
      BY ONLY <1>5, <3>1
  <2>8. all = q
    BY ONLY <1>5, <2>5, <2>6, <2>7
  <2> QED
    BY <2>3, <2>8
<1>7. BlockGood(mecha, all)
  BY <1>2, <1>6 DEF BlockGood, Marked
<1> QED
  BY <1>7 DEF Good

(* Two units sent from the buffer. *)
LEMMA PairSent ==
  ASSUME NEW p \in Nat \ {0}, NEW q \in Nat \ {0}, x.units = <<p, q>>, x.put = <<>>
  PROVE  IsSeq(Sent) /\ Len(Sent) = 2 /\ Sent[1] = buf[p] /\ Sent[2] = buf[q]
<1> DEFINE u == [j \in DOMAIN x.units |-> IF x.units[j] = 0 THEN Noise ELSE buf[x.units[j]]]
<1>1. Sent = u \o <<>>
  <2>1. [j \in DOMAIN x.put |-> loc[x.put[j]]] = <<>>
    OBVIOUS
  <2> QED
    BY <2>1 DEF Sent
<1>2. u = <<buf[p], buf[q]>>
  OBVIOUS
<1> PICK v, w : v = buf[p] /\ w = buf[q]
  OBVIOUS
<1>3. Sent = <<v, w>>
  BY <1>1, <1>2
<1>4. IsSeq(<<v, w>>)
  <2>1. <<v, w>> \in Seq({v, w})
    OBVIOUS
  <2> QED
    BY <2>1 DEF IsSeq
<1> QED
  BY <1>3, <1>4

(* A file in the buffer whose header the MECHACON finds good. *)
Fine(mode) ==
    /\ Kept(buf, file) /\ Icv(buf, file)
    /\ mode = 1 => \A u \in 1 .. 4 : buf[KbitOffset(file) + u] = Half(Halves[u], mecha.peer, file.keys)

(* The exchange after k of those that hand over the header, and the MECHACON then. *)
HeaderPart(e, mode, k) ==
    /\ k = 0 => e = write_HD_start(mode, file)
    /\ k \in 1 .. HeaderChunks(file) => e = write_data(Chunks(0, KELF_header_size(file))[k])
    /\ k = HeaderChunks(file) + 1 => e = pol_cal_cmplt
    /\ k > HeaderChunks(file) + 1 => e.to = "mecha" /\ e.cmd \in {"91", "8E"} /\ e.get = <<>>
HeaderClean(mode, k) ==
    /\ k >= 1 => mecha.nth = 0 /\ mecha.mode = mode
    /\ k \in 1 .. HeaderChunks(file) => Pouring("header", 0, KELF_header_size(file), 2 * (k - 1))
    /\ k = HeaderChunks(file) + 1 => Pouring("header", 0, KELF_header_size(file), KELF_header_size(file))
    /\ k > HeaderChunks(file) + 1 => mecha.op = "header" /\ mecha.calc = "ok"

LEMMA HeaderWorks ==
  ASSUME HInv, fn \in {"sign", "boot"}, Exchange("done"), mecha.auth, NEW mode \in {1, 2}, NEW k \in Nat,
         HeaderPart(x, mode, k), HeaderClean(mode, k), Fine(mode)
  PROVE  /\ fn' = fn /\ todo' = Tail(todo) /\ card' = card /\ Alone /\ x.get = <<>> /\ loc' = Filled("done", TRUE)
         /\ mecha'.auth /\ mecha'.peer = mecha.peer
         /\ HeaderClean(mode, k + 1)'
<1> PICK s, c : s = KELF_header_size(file) /\ c = HeaderChunks(file)
  OBVIOUS
<1>0. file \in Files /\ s \in Nat /\ s >= 5 /\ c \in Nat /\ c = (s + 1) \div 2 /\ 2 * c <= s + 1 /\ s <= 2 * c /\ c >= 1
  <2>1. file \in Files
    BY DEF HInv, TypeInv
  <2>2. KbitOffset(file) \in Nat /\ KbitOffset(file) + 5 <= s /\ s \in Nat
    BY <2>1, Places
  <2>3. c = (s + 1) \div 2
    BY DEF HeaderChunks
  <2>4. s >= 5
    BY ONLY <2>2
  <2> QED
    BY ONLY <2>1, <2>2, <2>3, <2>4
<1>1. ASSUME Alone PROVE HeaderChunks(file)' = c /\ KELF_header_size(file)' = s
  BY <1>1 DEF Alone
<1>2. /\ k >= 1 => mecha.nth = 0 /\ mecha.mode = mode
      /\ k \in 1 .. c => Pouring("header", 0, s, 2 * (k - 1))
      /\ k = c + 1 => Pouring("header", 0, s, s)
      /\ k > c + 1 => mecha.op = "header" /\ mecha.calc = "ok"
  BY DEF HeaderClean
<1>3. CASE k = 0
  <2>1. x.to = "mecha" /\ x.cmd = "90" /\ x.arg = <<mode, s>> /\ x.get = <<>>
    BY <1>3 DEF HeaderPart, write_HD_start, Numbered, ToMecha, Exchanged
  <2>2. Obeys(mecha, x.cmd)
    BY <2>1 DEF Obeys
  <2>3. /\ fn' = fn /\ todo' = Tail(todo) /\ card' = card /\ Alone /\ loc' = Filled("done", TRUE)
        /\ mecha'.auth /\ mecha'.peer = mecha.peer
        /\ mecha'.op = "header" /\ mecha'.mode = x.arg[1] /\ mecha'.left = x.arg[2]
        /\ mecha'.got = <<>> /\ mecha'.nth = 0 /\ mecha'.calc = "ok"
    BY <2>1, <2>2, MechaWorks
  <2>4. Pouring("header", 0, s, 0)'
    <3>1. mecha'.left = s /\ mecha'.op = "header" /\ mecha'.got = <<>> /\ mecha'.calc = "ok" /\ Len(<<>>) = 0
      BY <2>1, <2>3
    <3>2. IsSeq(<<>>)
      BY SeqFacts
    <3> QED
      BY <3>1, <3>2 DEF Pouring
  <2>5. k + 1 = 1 /\ 2 * (k + 1 - 1) = 0 /\ k + 1 # c + 1 /\ ~(k + 1 > c + 1)
    BY <1>0, <1>3
  <2>6. HeaderClean(mode, k + 1)'
    BY <1>1, <2>1, <2>3, <2>4, <2>5 DEF HeaderClean
  <2> QED
    BY <2>1, <2>3, <2>6
<1>4. CASE k \in 1 .. c
  <2>1. x = write_data(Chunks(0, s)[k]) /\ k \in 1 .. (s + 1) \div 2
    BY <1>0, <1>4 DEF HeaderPart
  <2>2. /\ x.to = "mecha" /\ x.cmd = "8D" /\ x.get = <<>>
        /\ IsSeq(Sent)
        /\ 2 * k <= s => Len(Sent) = 2 /\ Sent[1] = buf[2 * k - 1] /\ Sent[2] = buf[2 * k]
        /\ ~(2 * k <= s) => Len(Sent) = 1 /\ s = 2 * k - 1
    BY <1>0, <2>1, ChunkSent
  <2>3. PICK g \in Nat : g = 2 * (k - 1) /\ g < s
    BY <1>0, <1>4
  <2>4. Pouring("header", 0, s, g)
    BY <1>2, <1>4, <2>3
  <2>5. ~(2 * k <= s) => Sent[1] = buf[s]
    <3> SUFFICES ASSUME ~(2 * k <= s) PROVE Sent[1] = buf[s]
      OBVIOUS
    <3>1. x.units = <<0 + s>> /\ x.put = <<>>
      BY <2>1 DEF write_data, ToMecha, Exchanged, Chunks
    <3>2. x.units = <<s>> /\ s # 0
      BY <1>0, <3>1
    <3> DEFINE u == [j \in DOMAIN x.units |-> IF x.units[j] = 0 THEN Noise ELSE buf[x.units[j]]]
    <3>3. Sent = u \o <<>>
      <4>1. [j \in DOMAIN x.put |-> loc[x.put[j]]] = <<>>
        BY <3>1
      <4> QED
        BY <4>1 DEF Sent
    <3>4. u = <<buf[s]>>
      BY <3>2
    <3> QED
      BY <3>3, <3>4
  <2>6. PICK l \in Nat \ {0} : l = Len(Sent) /\ l = IF 2 * k <= s THEN 2 ELSE 1
    <3>1. Len(Sent) = IF 2 * k <= s THEN 2 ELSE 1
      BY <2>2
    <3>2. (IF 2 * k <= s THEN 2 ELSE 1) \in Nat \ {0}
      OBVIOUS
    <3> QED
      BY ONLY <3>1, <3>2
  <2>7. \A j \in 1 .. l : Sent[j] = buf[0 + g + j]
    <3> SUFFICES ASSUME NEW j \in 1 .. l PROVE Sent[j] = buf[0 + g + j]
      OBVIOUS
    <3>1. CASE 2 * k <= s
      <4>1. (j = 1 /\ 0 + g + j = 2 * k - 1) \/ (j = 2 /\ 0 + g + j = 2 * k)
        BY ONLY k \in Nat, j \in 1 .. l, <2>3, <2>6, <3>1
      <4> QED
        BY <2>2, <3>1, <4>1
    <3>2. CASE ~(2 * k <= s)
      <4>1. j = 1 /\ 0 + g + j = s
        BY ONLY k \in Nat, j \in 1 .. l, <2>2, <2>3, <2>6, <3>2
      <4> QED
        BY <2>5, <3>2, <4>1
    <3> QED
      BY <3>1, <3>2
  <2>8. PICK h \in Nat : h = g + l /\ h <= s /\ (k = c => h = s) /\ (k < c => h = 2 * k)
    BY ONLY <1>0, <1>4, <2>2, <2>3, <2>6
  <2>9. \A all : Agrees(all, 0, s) => Good("header", all)
    <3> SUFFICES ASSUME NEW all, Agrees(all, 0, s) PROVE Good("header", all)
      OBVIOUS
    <3>1. mecha.mode = mode
      BY <1>2, <1>4
    <3> QED
      BY <1>0, <3>1, HeaderFits DEF Fine
  <2>10. /\ fn' = fn /\ todo' = Tail(todo) /\ loc' = Filled("done", TRUE) /\ card' = card /\ Alone
         /\ (mecha'.auth <=> mecha.auth) /\ mecha'.peer = mecha.peer /\ mecha'.mode = mecha.mode
         /\ Pouring("header", 0, s, h)'
         /\ mecha'.nth = mecha.nth
    <3>1. PICK op \in {"header", "block"}, from \in Nat : op = "header" /\ op # "block" /\ from = 0
      OBVIOUS
    <3>a. /\ Pouring(op, from, s, g) /\ (\A all : Agrees(all, from, s) => Good(op, all))
          /\ \A j \in 1 .. l : Sent[j] = buf[from + g + j]
      BY <2>4, <2>7, <2>9, <3>1
    <3>b. x.to = "mecha" /\ x.cmd = "8D" /\ IsSeq(Sent) /\ g + l <= s /\ l = Len(Sent) /\ g < s /\ h = g + l /\ h <= s
      BY <2>2, <2>3, <2>6, <2>8
    <3>2. /\ fn' = fn /\ todo' = Tail(todo) /\ loc' = Filled("done", TRUE) /\ card' = card /\ Alone
          /\ (mecha'.auth <=> mecha.auth) /\ mecha'.peer = mecha.peer /\ mecha'.mode = mecha.mode
          /\ Pouring(op, from, s, h)'
          /\ mecha'.nth = mecha.nth + (IF h = s /\ op = "block" THEN 1 ELSE 0)
      <4>1. Chunk(op, from, s, g, h)
        <5>1. h - g = l /\ g < h /\ {from, s, g, h} \subseteq Nat
          BY ONLY <1>0, <3>b, l \in Nat \ {0}, g \in Nat, from \in Nat, h \in Nat
        <5> QED
          BY ONLY <3>1, <3>a, <3>b, <5>1 DEF Chunk
      <4> QED
        BY ONLY HInv, Exchange("done"), <4>1, ChunkWorks
    <3>3. mecha.nth \in Nat
      BY DEF HInv, TypeInv, IsMecha
    <3> QED
      BY <3>1, <3>2, <3>3
  <2>11. /\ k + 1 >= 1 /\ ~(k + 1 > c + 1)
         /\ k + 1 \in 1 .. c => h = 2 * (k + 1 - 1)
         /\ k + 1 = c + 1 => h = s
    BY ONLY <1>0, <1>4, <2>8
  <2>12. HeaderClean(mode, k + 1)'
    <3>1. mecha'.nth = 0 /\ mecha'.mode = mode
      BY <1>2, <1>4, <2>10
    <3>2. k + 1 \in 1 .. c => Pouring("header", 0, s, 2 * (k + 1 - 1))'
      BY <2>10, <2>11
    <3>3. k + 1 = c + 1 => Pouring("header", 0, s, s)'
      BY <2>10, <2>11
    <3>4. HeaderChunks(file)' = c /\ KELF_header_size(file)' = s
      BY <1>1, <2>10
    <3> QED
      BY <2>11, <3>1, <3>2, <3>3, <3>4 DEF HeaderClean
  <2> QED
    BY <2>2, <2>10, <2>12
<1>5. CASE k = c + 1
  <2>1. x.to = "mecha" /\ x.cmd = "8F" /\ x.get = <<>>
    BY <1>5 DEF HeaderPart, pol_cal_cmplt, ToMecha, Exchanged
  <2>2. mecha.op = "header" /\ mecha.left = s /\ Len(mecha.got) = s /\ (mecha.calc = "ok" \/ mecha.calc = "busy")
    BY <1>2, <1>5 DEF Pouring
  <2>3. mecha.calc # "busy"
    BY <2>1 DEF Exchange, PollsAgain
  <2>4. Obeys(mecha, x.cmd) /\ x.cmd \in Reads /\ x.cmd # "90"
    BY <2>1, <2>2, <2>3 DEF Obeys, Reads
  <2>5. /\ fn' = fn /\ todo' = Tail(todo) /\ card' = card /\ Alone /\ loc' = Filled("done", TRUE)
        /\ mecha' = mecha
    BY <2>1, <2>4, MechaWorks
  <2>6. HeaderClean(mode, k + 1)'
    <3>1. k + 1 > c + 1 /\ k >= 1 /\ k + 1 \notin 1 .. c /\ k + 1 # c + 1
      BY <1>0, <1>5
    <3> QED
      BY <1>1, <1>2, <2>2, <2>3, <2>5, <3>1 DEF HeaderClean
  <2> QED
    BY <2>1, <2>5, <2>6
<1>6. CASE k > c + 1
  <2>1. x.to = "mecha" /\ x.cmd \in {"91", "8E"} /\ x.get = <<>>
    BY <1>6 DEF HeaderPart
  <2>2. mecha.op = "header" /\ mecha.calc = "ok"
    BY <1>2, <1>6
  <2>4. Obeys(mecha, x.cmd) /\ x.cmd \in Reads /\ x.cmd # "90"
    BY <2>1, <2>2 DEF Obeys, Reads
  <2>5. /\ fn' = fn /\ todo' = Tail(todo) /\ card' = card /\ Alone /\ loc' = Filled("done", TRUE)
        /\ mecha' = mecha
    BY <2>1, <2>4, MechaWorks
  <2>6. HeaderClean(mode, k + 1)'
    <3>1. k + 1 > c + 1 /\ k >= 1 /\ k + 1 \notin 1 .. c /\ k + 1 # c + 1
      BY <1>0, <1>6
    <3> QED
      BY <1>1, <1>2, <2>2, <2>5, <3>1 DEF HeaderClean
  <2> QED
    BY <2>1, <2>5, <2>6
<1>7. k = 0 \/ k \in 1 .. c \/ k = c + 1 \/ k > c + 1
  BY <1>0
<1> QED
  BY <1>3, <1>4, <1>5, <1>6, <1>7

(* The exchange after k of those that hand over a block, and the MECHACON then: before it n blocks
   have been counted. *)
BlockPart(e, from, size, k) ==
    /\ e.to = "mecha" /\ e.get = <<>>
    /\ k = 0 => e.cmd = "92" /\ e.arg = <<size>>
    /\ k \in 1 .. size \div 2 => e.cmd = "8D" /\ e.units = <<from + 2 * k - 1, from + 2 * k>> /\ e.put = <<>>
    /\ k = size \div 2 + 1 => e.cmd = "8F"
    /\ k > size \div 2 + 1 => e.cmd \in {"93", "8E"}
BlockClean(mode, from, size, n, k) ==
    /\ mecha.mode = mode
    /\ k = 0 => mecha.op \in {"header", "block"} /\ mecha.calc = "ok" /\ mecha.nth = n
    /\ k \in 1 .. size \div 2 => Pouring("block", from, size, 2 * (k - 1)) /\ mecha.nth = n
    /\ k = size \div 2 + 1 => Pouring("block", from, size, size) /\ mecha.nth = n + 1
    /\ k > size \div 2 + 1 => mecha.op = "block" /\ mecha.calc = "ok" /\ mecha.nth = n + 1

LEMMA BlockWorks ==
  ASSUME HInv, fn \in {"sign", "boot"}, Exchange("done"), NEW mode \in {1, 2}, NEW k \in Nat, Kept(buf, file),
         NEW i \in Marked(mode), NEW from, from = BlockOffset(file, i), NEW size, size = file.blocks[i].size, size % 2 = 0,
         NEW n, n = Before(Marked(mode), i), BlockPart(x, from, size, k), BlockClean(mode, from, size, n, k)
  PROVE  /\ fn' = fn /\ todo' = Tail(todo) /\ card' = card /\ Alone /\ x.get = <<>> /\ loc' = Filled("done", TRUE)
         /\ (mecha'.auth <=> mecha.auth) /\ mecha'.peer = mecha.peer
         /\ BlockClean(mode, from, size, n, k + 1)'
<1>0. file \in Files /\ i \in 1 .. Len(file.blocks) /\ from \in Nat /\ size \in Nat /\ size # 0
  <2>1. file \in Files
    BY DEF HInv, TypeInv
  <2>2. i \in 1 .. Len(file.blocks)
    BY <2>1, MarkedIn
  <2> QED
    BY <2>1, <2>2, OffsetsWithin
<1> PICK c : c = size \div 2
  OBVIOUS
<1>1. c \in Nat /\ size = 2 * c /\ c >= 1
  BY ONLY <1>0, c = size \div 2, size % 2 = 0
<1>2. /\ x.to = "mecha" /\ x.get = <<>>
      /\ k = 0 => x.cmd = "92" /\ x.arg = <<size>>
      /\ k \in 1 .. c => x.cmd = "8D" /\ x.units = <<from + 2 * k - 1, from + 2 * k>> /\ x.put = <<>>
      /\ k = c + 1 => x.cmd = "8F"
      /\ k > c + 1 => x.cmd \in {"93", "8E"}
  BY DEF BlockPart
<1>3. /\ mecha.mode = mode
      /\ k = 0 => mecha.op \in {"header", "block"} /\ mecha.calc = "ok" /\ mecha.nth = n
      /\ k \in 1 .. c => Pouring("block", from, size, 2 * (k - 1)) /\ mecha.nth = n
      /\ k = c + 1 => Pouring("block", from, size, size) /\ mecha.nth = n + 1
      /\ k > c + 1 => mecha.op = "block" /\ mecha.calc = "ok" /\ mecha.nth = n + 1
  BY DEF BlockClean
<1>4. CASE k = 0
  <2>1. Obeys(mecha, x.cmd) /\ x.cmd = "92"
    BY <1>2, <1>3, <1>4 DEF Obeys
  <2>2. /\ fn' = fn /\ todo' = Tail(todo) /\ card' = card /\ Alone /\ loc' = Filled("done", TRUE)
        /\ (mecha'.auth <=> mecha.auth) /\ mecha'.peer = mecha.peer /\ mecha'.mode = mecha.mode
        /\ mecha'.op = "block" /\ mecha'.left = x.arg[1]
        /\ mecha'.got = <<>> /\ mecha'.nth = mecha.nth /\ mecha'.calc = mecha.calc
    BY <1>2, <2>1, MechaWorks
  <2>3. Pouring("block", from, size, 0)'
    <3>1. mecha'.left = size /\ mecha'.op = "block" /\ mecha'.got = <<>> /\ mecha'.calc = "ok" /\ Len(<<>>) = 0
      BY <1>2, <1>3, <1>4, <2>2
    <3>2. IsSeq(<<>>)
      BY SeqFacts
    <3> QED
      BY <3>1, <3>2 DEF Pouring
  <2>4. k + 1 = 1 /\ 2 * (k + 1 - 1) = 0 /\ k + 1 # c + 1 /\ ~(k + 1 > c + 1) /\ k + 1 # 0
    BY <1>1, <1>4
  <2>5. BlockClean(mode, from, size, n, k + 1)'
    BY <1>3, <1>4, <2>2, <2>3, <2>4 DEF BlockClean
  <2> QED
    BY <1>2, <2>2, <2>5
<1>5. CASE k \in 1 .. c
  <2>1. PICK p \in Nat \ {0}, q \in Nat \ {0} : p = from + 2 * k - 1 /\ q = from + 2 * k
    BY <1>0, <1>5
  <2>2. IsSeq(Sent) /\ Len(Sent) = 2 /\ Sent[1] = buf[p] /\ Sent[2] = buf[q]
    BY <1>2, <1>5, <2>1, PairSent
  <2>3. PICK g \in Nat, l \in Nat \ {0} : g = 2 * (k - 1) /\ g < size /\ l = 2
    BY ONLY <1>1, <1>5
  <2>4. Pouring("block", from, size, g)
    BY <1>3, <1>5, <2>3
  <2>5. \A j \in 1 .. l : Sent[j] = buf[from + g + j]
    <3> SUFFICES ASSUME NEW j \in 1 .. l PROVE Sent[j] = buf[from + g + j]
      OBVIOUS
    <3>1. (j = 1 /\ from + g + j = p) \/ (j = 2 /\ from + g + j = q)
      BY ONLY <1>0, k \in Nat, j \in 1 .. l, <2>1, <2>3
    <3> QED
      BY <2>2, <3>1
  <2>6. PICK h \in Nat : h = g + l /\ h <= size /\ h = 2 * k
    BY ONLY <1>1, <1>5, <2>3
  <2>7. \A all : Agrees(all, from, size) => Good("block", all)
    <3> SUFFICES ASSUME NEW all, Agrees(all, from, size) PROVE Good("block", all)
      OBVIOUS
    <3>1. i \in Marked(mecha.mode) /\ mecha.nth = Before(Marked(mecha.mode), i)
      BY <1>3, <1>5
    <3> QED
      BY <1>0, <3>1, BlockFits
  <2>8. /\ fn' = fn /\ todo' = Tail(todo) /\ loc' = Filled("done", TRUE) /\ card' = card /\ Alone
        /\ (mecha'.auth <=> mecha.auth) /\ mecha'.peer = mecha.peer /\ mecha'.mode = mecha.mode
        /\ Pouring("block", from, size, h)'
        /\ mecha'.nth = mecha.nth + (IF h = size THEN 1 ELSE 0)
    <3>1. PICK op \in {"header", "block"} : op = "block"
      OBVIOUS
    <3>a. Pouring(op, from, size, g) /\ \A all : Agrees(all, from, size) => Good(op, all)
      BY <2>4, <2>7, <3>1
    <3>b. x.to = "mecha" /\ x.cmd = "8D" /\ IsSeq(Sent) /\ g + l <= size /\ l = Len(Sent) /\ g < size /\ h = g + l /\ h <= size
      BY <1>2, <1>5, <2>2, <2>3, <2>6
    <3>2. /\ fn' = fn /\ todo' = Tail(todo) /\ loc' = Filled("done", TRUE) /\ card' = card /\ Alone
          /\ (mecha'.auth <=> mecha.auth) /\ mecha'.peer = mecha.peer /\ mecha'.mode = mecha.mode
          /\ Pouring(op, from, size, h)'
          /\ mecha'.nth = mecha.nth + (IF h = size /\ op = "block" THEN 1 ELSE 0)
      <4>1. Chunk(op, from, size, g, h)
        <5>1. h - g = l /\ g < h /\ {from, size, g, h} \subseteq Nat
          BY ONLY <1>0, <3>b, l \in Nat \ {0}, g \in Nat, h \in Nat
        <5> QED
          BY ONLY <2>5, <3>1, <3>a, <3>b, <5>1 DEF Chunk
      <4> QED
        BY ONLY HInv, Exchange("done"), <4>1, ChunkWorks
    <3> QED
      BY <3>1, <3>2
  <2>9. /\ k + 1 # 0 /\ ~(k + 1 > c + 1)
        /\ k + 1 \in 1 .. c => h = 2 * (k + 1 - 1) /\ h # size
        /\ k + 1 = c + 1 => h = size
    BY ONLY <1>1, <1>5, <2>6
  <2>10. n \in Nat /\ mecha.nth = n
    <3>1. mecha.nth \in Nat
      BY DEF HInv, TypeInv, IsMecha
    <3> QED
      BY <1>3, <1>5, <3>1
  <2>11. BlockClean(mode, from, size, n, k + 1)'
    <3>1. k + 1 \in 1 .. c => Pouring("block", from, size, 2 * (k + 1 - 1))' /\ mecha'.nth = n
      BY <2>8, <2>9, <2>10
    <3>2. k + 1 = c + 1 => Pouring("block", from, size, size)' /\ mecha'.nth = n + 1
      BY <2>8, <2>9, <2>10
    <3> QED
      BY <1>3, <2>8, <2>9, <3>1, <3>2 DEF BlockClean
  <2> QED
    BY <1>2, <2>8, <2>11
<1>6. CASE k = c + 1
  <2>1. x.cmd = "8F"
    BY <1>2, <1>6
  <2>2. mecha.op = "block" /\ mecha.left = size /\ Len(mecha.got) = size /\ (mecha.calc = "ok" \/ mecha.calc = "busy")
    BY <1>3, <1>6 DEF Pouring
  <2>3. mecha.calc # "busy"
    BY <2>1 DEF Exchange, PollsAgain
  <2>4. Obeys(mecha, x.cmd) /\ x.cmd \in Reads
    BY <2>1, <2>2, <2>3 DEF Obeys, Reads
  <2>5. /\ fn' = fn /\ todo' = Tail(todo) /\ card' = card /\ Alone /\ loc' = Filled("done", TRUE)
        /\ mecha' = mecha
    BY <1>2, <2>4, MechaWorks
  <2>6. k + 1 > c + 1 /\ k + 1 # 0 /\ k + 1 \notin 1 .. c /\ k + 1 # c + 1
    BY ONLY <1>1, <1>6
  <2>7. BlockClean(mode, from, size, n, k + 1)'
    BY <1>3, <1>6, <2>2, <2>3, <2>5, <2>6 DEF BlockClean
  <2> QED
    BY <1>2, <2>5, <2>7
<1>7. CASE k > c + 1
  <2>1. x.cmd \in {"93", "8E"}
    BY <1>2, <1>7
  <2>2. mecha.op = "block" /\ mecha.calc = "ok" /\ mecha.nth = n + 1
    BY <1>3, <1>7
  <2>4. Obeys(mecha, x.cmd) /\ x.cmd \in Reads
    BY <2>1, <2>2 DEF Obeys, Reads
  <2>5. /\ fn' = fn /\ todo' = Tail(todo) /\ card' = card /\ Alone /\ loc' = Filled("done", TRUE)
        /\ mecha' = mecha
    BY <1>2, <2>4, MechaWorks
  <2>6. k + 1 > c + 1 /\ k + 1 # 0 /\ k + 1 \notin 1 .. c /\ k + 1 # c + 1
    BY <1>1, <1>7
  <2>7. BlockClean(mode, from, size, n, k + 1)'
    BY <1>3, <2>2, <2>5, <2>6 DEF BlockClean
  <2> QED
    BY <1>2, <2>5, <2>7
<1>8. k = 0 \/ k \in 1 .. c \/ k = c + 1 \/ k > c + 1
  BY <1>1
<1> QED
  BY <1>4, <1>5, <1>6, <1>7, <1>8

(* Where each exchange that hands over the header stands, ... *)
LEMMA HeaderPartsAt ==
  ASSUME file \in Files, NEW mode, NEW r, r = secr_set_header(mode, file) \o Read_BIT(file)
  PROVE  /\ IsSeq(r) /\ Len(r) \in Nat /\ Len(r) > HeaderChunks(file) + 2 /\ HeaderChunks(file) \in Nat
         /\ \A k \in 0 .. Len(r) - 1 : HeaderPart(r[k + 1], mode, k)
<1> PICK a, b, c : a = secr_set_header(mode, file) /\ b = Read_BIT(file) /\ c = HeaderChunks(file)
  OBVIOUS
<1>1. /\ IsSeq(a) /\ c \in Nat /\ Len(a) = c + 2 /\ a[1] = write_HD_start(mode, file) /\ a[c + 2] = pol_cal_cmplt
      /\ \A k \in 1 .. c : a[1 + k] = write_data(Chunks(0, KELF_header_size(file))[k])
  BY SetHeaderAt
<1>2. /\ IsSeq(b) /\ Len(b) \in Nat /\ Len(b) > 0
      /\ \A k \in 1 .. Len(b) : b[k].to = "mecha" /\ b[k].cmd \in {"91", "8E"} /\ b[k].get = <<>>
  BY ReadBitAt
<1>3. /\ IsSeq(r) /\ Len(r) = Len(a) + Len(b)
      /\ \A i \in 1 .. Len(a) : r[i] = a[i]
      /\ \A i \in 1 .. Len(b) : r[Len(a) + i] = b[i]
  <2>1. IsSeq(a) /\ IsSeq(b)
    BY <1>1, <1>2
  <2> QED
    BY <2>1, ConcatAt
<1> PICK n, l : n = Len(b) /\ l = Len(r)
  OBVIOUS
<1>4. c \in Nat /\ n \in Nat /\ n > 0 /\ l = c + 2 + n
  BY <1>1, <1>2, <1>3
<1>5. ASSUME NEW k \in 0 .. l - 1 PROVE HeaderPart(r[k + 1], mode, k)
  <2>1. k = 0 => r[k + 1] = write_HD_start(mode, file)
    <3>1. k = 0 => k + 1 = 1 /\ k + 1 \in 1 .. Len(a)
      BY <1>1
    <3> QED
      BY <1>1, <1>3, <3>1
  <2>2. k \in 1 .. c => r[k + 1] = write_data(Chunks(0, KELF_header_size(file))[k])
    <3>1. k \in 1 .. c => k + 1 = 1 + k /\ k + 1 \in 1 .. Len(a)
      BY <1>1
    <3> QED
      BY <1>1, <1>3, <3>1
  <2>3. k = c + 1 => r[k + 1] = pol_cal_cmplt
    <3>1. k = c + 1 => k + 1 = c + 2 /\ k + 1 \in 1 .. Len(a)
      BY <1>1
    <3> QED
      BY <1>1, <1>3, <3>1
  <2>4. k > c + 1 => r[k + 1].to = "mecha" /\ r[k + 1].cmd \in {"91", "8E"} /\ r[k + 1].get = <<>>
    <3> SUFFICES ASSUME k > c + 1 PROVE r[k + 1].to = "mecha" /\ r[k + 1].cmd \in {"91", "8E"} /\ r[k + 1].get = <<>>
      OBVIOUS
    <3>1. PICK i \in 1 .. n : k + 1 = c + 2 + i
      <4>1. k + 1 - (c + 2) \in 1 .. n /\ k + 1 = c + 2 + (k + 1 - (c + 2))
        BY ONLY <1>4, k > c + 1, k \in 0 .. l - 1
      <4> QED
        BY <4>1
    <3>2. r[k + 1] = b[i]
      <4>1. Len(a) = c + 2 /\ i \in 1 .. Len(b)
        BY <1>1, <3>1
      <4>2. r[Len(a) + i] = b[i]
        BY ONLY <1>3, <4>1
      <4> QED
        BY ONLY <3>1, <4>1, <4>2
    <3> QED
      BY <1>2, <3>2
  <2> QED
    BY <2>1, <2>2, <2>3, <2>4 DEF HeaderPart
<1> QED
  BY <1>3, <1>4, <1>5

(* ... before it the call of secrsif, when a file is signed, ... *)
LEMMA SignHeaderPartsAt ==
  ASSUME file \in Files, NEW h, h = SecrDownloadHeader(file)
  PROVE  /\ IsSeq(h) /\ Len(h) \in Nat /\ Len(h) > HeaderChunks(file) + 3 /\ HeaderChunks(file) \in Nat
         /\ h[1] = Rpc("header")
         /\ \A k \in Nat : k + 1 < Len(h) => HeaderPart(h[k + 2], 2, k)
<1> PICK s, b, r, a : /\ s = secr_set_header(2, file) /\ b = Read_BIT(file) /\ r = s \o b /\ a = <<Rpc("header")>>
  OBVIOUS
<1>1. /\ IsSeq(r) /\ Len(r) \in Nat /\ Len(r) > HeaderChunks(file) + 2 /\ HeaderChunks(file) \in Nat
      /\ \A k \in 0 .. Len(r) - 1 : HeaderPart(r[k + 1], 2, k)
  BY HeaderPartsAt
<1>2. IsSeq(s) /\ IsSeq(b) /\ IsSeq(a) /\ Len(a) = 1 /\ a[1] = Rpc("header")
  BY SetHeaderAt, ReadBitAt, SeqFacts
<1>3. h = a \o r
  <2>1. h = (a \o s) \o b
    BY DEF SecrDownloadHeader
  <2>2. (a \o s) \o b = a \o (s \o b)
    BY <1>2, ConcatThrice
  <2> QED
    BY <2>1, <2>2
<1>4. /\ IsSeq(h) /\ Len(h) = Len(a) + Len(r)
      /\ \A i \in 1 .. Len(a) : h[i] = a[i]
      /\ \A i \in 1 .. Len(r) : h[Len(a) + i] = r[i]
  <2>1. IsSeq(a) /\ IsSeq(r)
    BY <1>1, <1>2
  <2> QED
    BY <1>3, <2>1, ConcatAt
<1>5. ASSUME NEW k \in Nat, k + 1 < Len(h) PROVE HeaderPart(h[k + 2], 2, k)
  <2>1. k \in 0 .. Len(r) - 1 /\ k + 1 \in 1 .. Len(r) /\ k + 2 = Len(a) + (k + 1)
    BY <1>1, <1>2, <1>4, <1>5
  <2>2. h[k + 2] = r[k + 1]
    BY <1>4, <2>1
  <2> QED
    BY <1>1, <2>1, <2>2
<1>6. Len(h) = Len(r) + 1 /\ h[1] = Rpc("header")
  BY <1>1, <1>2, <1>4
<1> QED
  BY <1>1, <1>4, <1>5, <1>6

(* An exchange with all its fields. *)
Entire(e) == e = [to |-> e.to, cmd |-> e.cmd, put |-> e.put, get |-> e.get, units |-> e.units, arg |-> e.arg]

(* Where each exchange that hands over a block of an even size stands, ... *)
LEMMA BlockPartsAt ==
  ASSUME NEW from \in Nat, NEW size \in Nat, size % 2 = 0, NEW b, b = func_00000b5c(from, size)
  PROVE  /\ IsSeq(b) /\ Len(b) = size \div 2 + 2 /\ size \div 2 \in Nat
         /\ \A k \in 0 .. Len(b) - 1 : BlockPart(b[k + 1], from, size, k) /\ Entire(b[k + 1])
<1>1. PICK c \in Nat : c = size \div 2 /\ (size + 1) \div 2 = c /\ size = 2 * c /\ size % 2 # 1
  OBVIOUS
<1> DEFINE part(k) == write_data(<<from + 2 * k - 1, from + 2 * k>>)
<1> PICK s : s = [k \in 1 .. c |-> part(k)]
  OBVIOUS
<1>2. IsSeq(s) /\ Len(s) = c /\ \A k \in 1 .. c : s[k] = part(k)
  <2> HIDE DEF part
  <2> DEFINE S == {part(k) : k \in 1 .. c}
  <2>1. s \in [1 .. c -> S] /\ Len(s) = c /\ \A k \in 1 .. c : s[k] = part(k)
    BY <1>1
  <2> HIDE DEF S
  <2>2. s \in Seq(S)
    BY <2>1
  <2> QED
    BY <2>1, <2>2 DEF IsSeq
<1> PICK a, z : a = <<mechacon_set_block_size(size)>> /\ z = <<pol_cal_cmplt>>
  OBVIOUS
<1>3. IsSeq(a) /\ IsSeq(z) /\ Len(a) = 1 /\ Len(z) = 1 /\ a[1] = mechacon_set_block_size(size) /\ z[1] = pol_cal_cmplt
  BY SeqFacts
<1>4. b = (a \o s) \o z
  <2>1. [k \in 1 .. c |-> write_data(<<from + 2 * k - 1, IF 2 * k <= size THEN from + 2 * k ELSE 0>>)] = s
    <3>1. \A k \in 1 .. c : 2 * k <= size
      BY <1>1
    <3>2. \A k \in 1 .. c : write_data(<<from + 2 * k - 1, IF 2 * k <= size THEN from + 2 * k ELSE 0>>) = part(k)
      BY <3>1
    <3> QED
      BY <3>2
  <2>2. b = ((a \o s) \o <<>>) \o z
    BY <1>1, <2>1 DEF func_00000b5c
  <2>3. IsSeq(a \o s)
    BY <1>2, <1>3, SeqFacts
  <2>4. (a \o s) \o <<>> = a \o s
    <3>1. PICK S : a \o s \in Seq(S)
      BY <2>3 DEF IsSeq
    <3> QED
      BY <3>1
  <2> QED
    BY <2>2, <2>4
<1> HIDE DEF part
<1> PICK d : d = a \o s
  OBVIOUS
<1>5. /\ IsSeq(d) /\ Len(d) = 1 + c /\ d[1] = a[1] /\ \A k \in 1 .. c : d[1 + k] = s[k]
  <2>1. IsSeq(a) /\ IsSeq(s)
    BY <1>2, <1>3
  <2>2. /\ IsSeq(a \o s) /\ Len(a \o s) = Len(a) + Len(s)
        /\ \A j \in 1 .. Len(a) : (a \o s)[j] = a[j]
        /\ \A j \in 1 .. Len(s) : (a \o s)[Len(a) + j] = s[j]
    BY ONLY <2>1, ConcatAt
  <2> QED
    BY <1>1, <1>2, <1>3, <2>2
<1>6. /\ IsSeq(b) /\ Len(b) = c + 2 /\ (\A j \in 1 .. c + 1 : b[j] = d[j]) /\ b[c + 2] = z[1]
  <2>1. IsSeq(d) /\ IsSeq(z)
    BY <1>3, <1>5
  <2>2. /\ IsSeq(d \o z) /\ Len(d \o z) = Len(d) + Len(z)
        /\ \A j \in 1 .. Len(d) : (d \o z)[j] = d[j]
        /\ \A j \in 1 .. Len(z) : (d \o z)[Len(d) + j] = z[j]
    BY ONLY <2>1, ConcatAt
  <2>3. Len(d) = c + 1 /\ Len(z) = 1 /\ 1 \in 1 .. Len(z) /\ (c + 1) + 1 = c + 2
    BY <1>1, <1>3, <1>5
  <2>4. b = d \o z
    BY <1>4
  <2> QED
    BY <2>2, <2>3, <2>4
<1>7. ASSUME NEW k \in 0 .. c + 1 PROVE BlockPart(b[k + 1], from, size, k) /\ Entire(b[k + 1])
  <2> PICK e : e = b[k + 1]
    OBVIOUS
  <2>1. CASE k = 0
    <3>1. e = mechacon_set_block_size(size)
      BY <1>1, <1>3, <1>5, <1>6, <2>1
    <3>2. e.to = "mecha" /\ e.get = <<>> /\ e.cmd = "92" /\ e.arg = <<size>> /\ Entire(e)
      BY <3>1 DEF Entire, mechacon_set_block_size, Numbered, ToMecha, Exchanged
    <3> QED
      BY <1>1, <2>1, <3>2 DEF BlockPart
  <2>2. CASE k \in 1 .. c
    <3>1. e = part(k)
      <4>1. k + 1 = 1 + k /\ k + 1 \in 1 .. c + 1
        BY <1>1, <2>2
      <4> QED
        BY <1>2, <1>5, <1>6, <2>2, <4>1
    <3>2. e.to = "mecha" /\ e.get = <<>> /\ e.cmd = "8D" /\ e.units = <<from + 2 * k - 1, from + 2 * k>> /\ e.put = <<>> /\ Entire(e)
      BY <3>1 DEF Entire, part, write_data, ToMecha, Exchanged
    <3>3. k # 0 /\ k # c + 1 /\ ~(k > c + 1)
      BY ONLY <1>1, <2>2
    <3> QED
      BY <1>1, <2>2, <3>2, <3>3 DEF BlockPart
  <2>3. CASE k = c + 1
    <3>1. e = pol_cal_cmplt
      <4>1. k + 1 = c + 2
        BY <1>1, <2>3
      <4> QED
        BY <1>3, <1>6, <4>1
    <3>2. e.to = "mecha" /\ e.get = <<>> /\ e.cmd = "8F" /\ Entire(e)
      BY <3>1 DEF Entire, pol_cal_cmplt, ToMecha, Exchanged
    <3>3. k # 0 /\ k \notin 1 .. c /\ ~(k > c + 1)
      BY ONLY <1>1, <2>3
    <3> QED
      BY <1>1, <2>3, <3>2, <3>3 DEF BlockPart
  <2> QED
    BY <1>1, <2>1, <2>2, <2>3
<1>8. Len(b) - 1 = c + 1
  BY ONLY <1>1, <1>6
<1>9. \A k \in 0 .. Len(b) - 1 : BlockPart(b[k + 1], from, size, k) /\ Entire(b[k + 1])
  BY ONLY <1>7, <1>8
<1> QED
  BY <1>1, <1>6, <1>9

(* ... cut to the buffer of secrsif, which holds it all, when a file is signed, ... *)
LEMMA SignBlockPartsAt ==
  ASSUME file \in Files, Signable(file), NEW i \in Signed(file), NEW from, from = BlockOffset(file, i),
         NEW size, size = file.blocks[i].size, NEW b, b = SecrDownloadBlock(file, i)
  PROVE  /\ IsSeq(b) /\ Len(b) = size \div 2 + 3 /\ size \div 2 \in Nat /\ size % 2 = 0
         /\ b[1] = Rpc("block")
         /\ \A k \in Nat : k + 1 < Len(b) => BlockPart(b[k + 2], from, size, k)
<1>1. /\ from \in Nat /\ size \in Nat /\ size <= RpcUnits /\ size % 2 = 0 /\ RpcUnits \in Nat
  <2>1. i \in 1 .. Len(file.blocks)
    BY OffsetsAre DEF Signed
  <2> QED
    BY <2>1, OffsetsWithin, RpcUnitsAssumption DEF Signable
<1> PICK s, c : s = func_00000b5c(from, size) /\ c = size \div 2
  OBVIOUS
<1>2. /\ IsSeq(s) /\ Len(s) = c + 2 /\ c \in Nat
      /\ \A l \in 0 .. Len(s) - 1 : BlockPart(s[l + 1], from, size, l) /\ Entire(s[l + 1])
  BY ONLY <1>1, s = func_00000b5c(from, size), c = size \div 2, BlockPartsAt
<1> DEFINE carry(e) == [e EXCEPT !.units = [j \in DOMAIN @ |->
                          IF @[j] > BlockOffset(file, i) + RpcUnits THEN 0 ELSE @[j]]]
<1> DEFINE t == [k \in DOMAIN s |-> carry(s[k])]
<1>3. DOMAIN s = 1 .. c + 2
  BY <1>2, ConcatAt
<1>5. IsSeq(t) /\ Len(t) = c + 2 /\ \A k \in 1 .. c + 2 : t[k] = carry(s[k])
  <2> HIDE DEF carry
  <2> DEFINE S == {carry(s[k]) : k \in 1 .. c + 2}
  <2>0. c + 2 \in Nat
    BY <1>2
  <2>1. t \in [1 .. c + 2 -> S] /\ Len(t) = c + 2 /\ \A k \in 1 .. c + 2 : t[k] = carry(s[k])
    BY <1>3, <2>0
  <2> HIDE DEF S, t
  <2>2. t \in Seq(S)
    BY <2>0, <2>1
  <2>3. IsSeq(t)
    BY <2>2 DEF IsSeq
  <2> QED
    BY <2>1, <2>3
<1>6. b = <<Rpc("block")>> \o t
  BY DEF SecrDownloadBlock
<1>7. ASSUME NEW k \in 0 .. c + 1 PROVE BlockPart(carry(s[k + 1]), from, size, k)
  <2> PICK e, d : e = s[k + 1] /\ d = carry(e)
    OBVIOUS
  <2>1. k \in 0 .. Len(s) - 1
    BY <1>2
  <2>2. BlockPart(e, from, size, k) /\ Entire(e)
    <3>2. BlockPart(s[k + 1], from, size, k) /\ Entire(s[k + 1])
      BY ONLY <1>2, <2>1
    <3> QED
      BY <3>2
  <2>3. /\ d.to = e.to /\ d.cmd = e.cmd /\ d.arg = e.arg /\ d.put = e.put /\ d.get = e.get
        /\ d.units = [j \in DOMAIN e.units |-> IF e.units[j] > BlockOffset(file, i) + RpcUnits THEN 0 ELSE e.units[j]]
    BY ONLY <2>2, d = carry(e) DEF Entire
  <2>4. k \in 1 .. c => d.units = <<from + 2 * k - 1, from + 2 * k>>
    <3> SUFFICES ASSUME k \in 1 .. c PROVE d.units = <<from + 2 * k - 1, from + 2 * k>>
      OBVIOUS
    <3> PICK p, q, to : p = from + 2 * k - 1 /\ q = from + 2 * k /\ to = from + RpcUnits
      OBVIOUS
    <3>1. e.units = <<p, q>>
      BY <2>2 DEF BlockPart
    <3>2. ~(p > to) /\ ~(q > to)
      <4>1. size = 2 * c /\ c \in Nat
        BY ONLY <1>1, c = size \div 2
      <4> QED
        BY ONLY <1>1, <4>1, k \in 1 .. c, p = from + 2 * k - 1, q = from + 2 * k, to = from + RpcUnits
    <3>3. d.units = [j \in 1 .. 2 |-> <<p, q>>[j]]
      <4>1. d.units = [j \in 1 .. 2 |-> IF <<p, q>>[j] > to THEN 0 ELSE <<p, q>>[j]]
        <5>1. DOMAIN <<p, q>> = 1 .. 2
          OBVIOUS
        <5> QED
          BY ONLY <2>3, <3>1, <5>1, from = BlockOffset(file, i), to = from + RpcUnits
      <4>2. \A j \in 1 .. 2 : (IF <<p, q>>[j] > to THEN 0 ELSE <<p, q>>[j]) = <<p, q>>[j]
        BY ONLY <3>2
      <4> QED
        BY ONLY <4>1, <4>2
    <3>4. <<p, q>> = [j \in 1 .. 2 |-> <<p, q>>[j]]
      BY ONLY TRUE
    <3> QED
      BY <3>3, <3>4
  <2> QED
    BY <2>2, <2>3, <2>4 DEF BlockPart
<1> HIDE DEF carry, t
<1>8. /\ IsSeq(b) /\ Len(b) = 1 + (c + 2) /\ b[1] = Rpc("block") /\ \A k \in 1 .. c + 2 : b[1 + k] = t[k]
  <2> PICK a : a = <<Rpc("block")>>
    OBVIOUS
  <2>1. IsSeq(a) /\ Len(a) = 1 /\ a[1] = Rpc("block")
    BY SeqFacts
  <2>2. IsSeq(a) /\ IsSeq(t)
    BY <1>5, <2>1
  <2>3. /\ IsSeq(a \o t) /\ Len(a \o t) = Len(a) + Len(t)
        /\ \A j \in 1 .. Len(a) : (a \o t)[j] = a[j]
        /\ \A j \in 1 .. Len(t) : (a \o t)[Len(a) + j] = t[j]
    BY ONLY <2>2, ConcatAt
  <2>4. b = a \o t
    BY <1>6
  <2> QED
    BY <1>5, <2>1, <2>3, <2>4
<1>9. ASSUME NEW k \in Nat, k + 1 < Len(b) PROVE BlockPart(b[k + 2], from, size, k)
  <2>1. k \in 0 .. c + 1 /\ k + 1 \in 1 .. c + 2 /\ 1 + (k + 1) = k + 2
    BY <1>2, <1>8, <1>9
  <2>2. b[k + 2] = carry(s[k + 1])
    BY <1>5, <1>8, <2>1
  <2> QED
    BY <1>7, <2>1, <2>2
<1>10. Len(b) = c + 3
  BY <1>2, <1>8
<1> QED
  BY <1>1, <1>2, <1>8, <1>9, <1>10

(* Signing when nothing has happened to it: the MECHACON is ready for the next block, ... *)
Prepared(mode) == mecha.mode = mode /\ mecha.op \in {"header", "block"} /\ mecha.calc = "ok"
SignHeaderClean(n) ==
    /\ todo = After(SecrDownloadHeader(file), n) \o Loop(1)
    /\ buf = Content(file)
    /\ \A k \in Nat : n = k + 1 => HeaderClean(2, k)
SignLoopClean(i) ==
    /\ todo = Loop(i)
    /\ buf = Content(file)
    /\ Prepared(2) /\ mecha.nth = Before(Signed(file), i)
SignBlockClean(i, n) ==
    /\ todo = After(SecrDownloadBlock(file, i), n) \o Loop(i + 1)
    /\ buf = Content(file)
    /\ n = 0 => BlockClean(2, BlockOffset(file, i), file.blocks[i].size, Before(Signed(file), i), 0)
    /\ \A k \in Nat : n = k + 1 => BlockClean(2, BlockOffset(file, i), file.blocks[i].size, Before(Signed(file), i), k)
(* ... and the card where the commands for a key half have left it. *)
KeysClean(n) ==
    /\ todo = After(SecrDownloadKeys(file), n)
    /\ mecha.mode = 2 /\ mecha.calc = "ok"
    /\ n \in {4, 8, 15, 19} => card.stage = 1
    /\ n \in {5, 9, 16, 20} => card.stage = 2
    /\ n \in {6, 10, 17, 21} => card.stage = 3
SignClean ==
    \/ \E n \in Nat : n < Len(SecrDownloadHeader(file)) /\ SignHeaderClean(n)
    \/ \E i \in 1 .. Len(file.blocks) + 1 : SignLoopClean(i)
    \/ \E i \in Signed(file) : \E n \in Nat : n < Len(SecrDownloadBlock(file, i)) /\ SignBlockClean(i, n)
    \/ \E n \in 0 .. KeyCount(file) : KeysClean(n)

(* Such a step of signing. *)
SignGoesOn == fn' = "sign" /\ UNCHANGED <<file, due>> /\ card'.auth /\ mecha'.auth /\ SignClean'

(* The file in the buffer is good. *)
LEMMA ContentFine ==
  ASSUME file \in Files, buf = Content(file)
  PROVE  Fine(2) /\ Kept(buf, file)
<1>1. DOMAIN Content(file) = 1 .. file.units
  BY DEF Content
<1>2. Kept(buf, file)
  BY <1>1 DEF Kept
<1>3. Icv(buf, file)
  BY DEF Icv
<1> QED
  BY <1>2, <1>3 DEF Fine

LEMMA SignHeaderGoes ==
  ASSUME HInv, fn = "sign", Exchange("done"), card.auth, mecha.auth,
         NEW n \in Nat, n < Len(SecrDownloadHeader(file)), SignHeaderClean(n)
  PROVE  SignGoesOn
<1> PICK h, c : h = SecrDownloadHeader(file) /\ c = HeaderChunks(file)
  OBVIOUS
<1>0. file \in Files /\ x.to \in {"card", "mecha"}
  BY ExchangeStep DEF HInv, TypeInv
<1>1. /\ IsSeq(h) /\ Len(h) \in Nat /\ Len(h) > c + 3 /\ c \in Nat
      /\ h[1] = Rpc("header")
      /\ \A k \in Nat : k + 1 < Len(h) => HeaderPart(h[k + 2], 2, k)
  BY <1>0, SignHeaderPartsAt
<1>2. /\ todo = After(h, n) \o Loop(1) /\ x = h[n + 1] /\ Tail(todo) = After(h, n + 1) \o Loop(1)
      /\ n + 1 = Len(h) => Tail(todo) = Loop(1)
  <2> PICK t : t = Loop(1)
    OBVIOUS
  <2>1. IsSeq(h) /\ IsSeq(t) /\ n \in Nat /\ n < Len(h)
    BY <1>1, LoopIs
  <2>2. /\ Head(After(h, n) \o t) = h[n + 1] /\ Tail(After(h, n) \o t) = After(h, n + 1) \o t
        /\ n + 1 = Len(h) => Tail(After(h, n) \o t) = t
    BY ONLY <2>1, FrontStep
  <2> QED
    BY <2>2 DEF SignHeaderClean, x
<1>3. n # 0
  <2> SUFFICES ASSUME n = 0 PROVE FALSE
    OBVIOUS
  <2>1. x = Rpc("header")
    BY <1>1, <1>2
  <2> QED
    BY <1>0, <2>1 DEF Rpc, Exchanged
<1>4. PICK k \in Nat : n = k + 1 /\ n + 1 = k + 2 /\ k + 1 < Len(h)
  <2>1. n - 1 \in Nat /\ n = (n - 1) + 1 /\ n + 1 = (n - 1) + 2 /\ (n - 1) + 1 < Len(h)
    BY ONLY <1>1, <1>3, n \in Nat, n < Len(SecrDownloadHeader(file)), h = SecrDownloadHeader(file)
  <2> QED
    BY <2>1
<1>5. HeaderPart(x, 2, k) /\ HeaderClean(2, k) /\ Fine(2)
  <2>1. HeaderPart(x, 2, k)
    BY <1>1, <1>2, <1>4
  <2>2. HeaderClean(2, k)
    BY <1>4 DEF SignHeaderClean
  <2> QED
    BY <1>0, <2>1, <2>2, ContentFine DEF SignHeaderClean
<1>6. /\ fn' = fn /\ todo' = Tail(todo) /\ card' = card /\ Alone /\ mecha'.auth /\ HeaderClean(2, k + 1)'
  <2> PICK mode \in {1, 2} : mode = 2
    OBVIOUS
  <2>1. HeaderPart(x, mode, k) /\ HeaderClean(mode, k) /\ Fine(mode)
    BY <1>5
  <2>2. /\ fn' = fn /\ todo' = Tail(todo) /\ card' = card /\ Alone /\ mecha'.auth /\ HeaderClean(mode, k + 1)'
    BY <2>1, HeaderWorks
  <2> QED
    BY <2>2
<1>7. file' = file /\ buf' = buf /\ due' = due /\ Loop(1)' = Loop(1)
  BY <1>6 DEF Alone, Loop
<1>8. buf' = Content(file')
  BY <1>7 DEF SignHeaderClean
<1>9. CASE n + 1 < Len(h)
  <2>1. \A j \in Nat : n + 1 = j + 1 => j = k + 1
    BY ONLY <1>4, n \in Nat
  <2>2. \A j \in Nat : n + 1 = j + 1 => HeaderClean(2, j)'
    BY <1>6, <2>1
  <2>3. SignHeaderClean(n + 1)'
    BY <1>2, <1>6, <1>7, <1>8, <2>2 DEF SignHeaderClean
  <2>4. n + 1 \in Nat /\ n + 1 < Len(SecrDownloadHeader(file'))
    BY <1>7, <1>9
  <2>5. SignClean'
    BY <2>3, <2>4 DEF SignClean
  <2> QED
    BY <1>6, <1>7, <2>5 DEF SignGoesOn
<1>10. CASE ~(n + 1 < Len(h))
  <2>1. n + 1 = Len(h) /\ k + 1 > c + 1 /\ k + 1 >= 1
    BY <1>1, <1>4, <1>10
  <2>2. Before(Signed(file), 1) = 0 /\ 1 \in 1 .. Len(file.blocks) + 1
    <3> PICK m, S : m = Len(file.blocks) /\ S = Signed(file)
      OBVIOUS
    <3>3. m \in Nat /\ S \in SUBSET (1 .. m)
      <4>1. Len(file.blocks) \in Nat /\ Marked(2) \in SUBSET (1 .. Len(file.blocks))
        BY <1>0, MarkedIn
      <4> QED
        BY <4>1 DEF Marked
    <3>4. Before(S, 1) = 0
      BY ONLY <3>3, Counting
    <3> QED
      BY <3>3, <3>4
  <2>3. mecha'.nth = 0 /\ mecha'.mode = 2 /\ mecha'.op = "header" /\ mecha'.calc = "ok"
    <3>1. HeaderChunks(file') = c
      BY <1>7
    <3> QED
      BY <1>6, <2>1, <3>1 DEF HeaderClean
  <2>4. SignLoopClean(1)'
    BY <1>2, <1>6, <1>7, <1>8, <2>1, <2>2, <2>3 DEF SignLoopClean, Prepared
  <2>5. SignClean'
    BY <1>7, <2>2, <2>4 DEF SignClean
  <2> QED
    BY <1>6, <1>7, <2>5 DEF SignGoesOn
<1> QED
  BY <1>9, <1>10

LEMMA SignBlockGoes ==
  ASSUME HInv, fn = "sign", Exchange("done"), card.auth, mecha.auth, Signable(file),
         NEW i \in Signed(file), NEW n \in Nat, n < Len(SecrDownloadBlock(file, i)), SignBlockClean(i, n)
  PROVE  SignGoesOn
<1> PICK b, t, from, size, nth, c : /\ b = SecrDownloadBlock(file, i) /\ t = Loop(i + 1) /\ from = BlockOffset(file, i)
                                 /\ size = file.blocks[i].size /\ nth = Before(Signed(file), i) /\ c = size \div 2
  OBVIOUS
<1>0. file \in Files /\ x.to \in {"card", "mecha"}
  BY ExchangeStep DEF HInv, TypeInv
<1>1. /\ IsSeq(b) /\ Len(b) = c + 3 /\ c \in Nat /\ size % 2 = 0
      /\ b[1] = Rpc("block")
      /\ \A k \in Nat : k + 1 < Len(b) => BlockPart(b[k + 2], from, size, k)
  BY <1>0, SignBlockPartsAt
<1>2. /\ x = b[n + 1] /\ Tail(todo) = After(b, n + 1) \o t
      /\ n + 1 = Len(b) => Tail(todo) = t
  BY BlockFront DEF SignBlockClean
<1>3. n # 0
  <2> SUFFICES ASSUME n = 0 PROVE FALSE
    OBVIOUS
  <2>1. x = Rpc("block")
    BY <1>1, <1>2
  <2> QED
    BY <1>0, <2>1 DEF Rpc, Exchanged
<1>4. PICK k \in Nat : n = k + 1 /\ n + 1 = k + 2 /\ k + 1 < Len(b)
  <2>1. n < Len(b)
    OBVIOUS
  <2>2. n - 1 \in Nat /\ n = (n - 1) + 1 /\ n + 1 = (n - 1) + 2 /\ (n - 1) + 1 < Len(b)
    BY ONLY <1>1, <1>3, <2>1, n \in Nat
  <2> QED
    BY <2>2
<1>5. BlockPart(x, from, size, k) /\ BlockClean(2, from, size, nth, k) /\ Kept(buf, file)
  <2>1. BlockPart(x, from, size, k)
    BY <1>1, <1>2, <1>4
  <2>2. BlockClean(2, from, size, nth, k)
    BY <1>4 DEF SignBlockClean
  <2> QED
    BY <1>0, <2>1, <2>2, ContentFine DEF SignBlockClean
<1>6. /\ fn' = fn /\ todo' = Tail(todo) /\ card' = card /\ Alone /\ mecha'.auth /\ BlockClean(2, from, size, nth, k + 1)'
  <2> PICK mode \in {1, 2} : mode = 2
    OBVIOUS
  <2>1. i \in Marked(mode) /\ nth = Before(Marked(mode), i) /\ BlockClean(mode, from, size, nth, k)
    BY <1>5 DEF Marked
  <2>2. /\ fn' = fn /\ todo' = Tail(todo) /\ card' = card /\ Alone /\ (mecha'.auth <=> mecha.auth) /\ BlockClean(mode, from, size, nth, k + 1)'
    BY <1>1, <1>5, <2>1, BlockWorks
  <2> QED
    BY <2>2
<1>7. file' = file /\ buf' = buf /\ due' = due /\ t = Loop(i + 1)'
  BY <1>6 DEF Alone, Loop
<1>8. buf' = Content(file')
  BY <1>7 DEF SignBlockClean
<1>9. CASE n + 1 < Len(b)
  <2>1. \A j \in Nat : n + 1 = j + 1 => j = k + 1
    BY ONLY <1>4, n \in Nat
  <2>2. \A j \in Nat : n + 1 = j + 1 => BlockClean(2, from, size, nth, j)'
    BY <1>6, <2>1
  <2>3. n + 1 # 0
    OBVIOUS
  <2>a. /\ from = BlockOffset(file, i)' /\ size = (file.blocks[i].size)' /\ nth = Before(Signed(file), i)'
        /\ b = SecrDownloadBlock(file, i)'
    BY <1>7
  <2>b. todo' = After(b, n + 1) \o t
    BY <1>2, <1>6
  <2>c. \A j \in Nat : n + 1 = j + 1 => BlockClean(2, BlockOffset(file, i), file.blocks[i].size, Before(Signed(file), i), j)'
    BY <2>2, <2>a
  <2>4. SignBlockClean(i, n + 1)'
    BY <1>7, <1>8, <2>3, <2>a, <2>b, <2>c DEF SignBlockClean
  <2>5. n + 1 \in Nat /\ n + 1 < Len(SecrDownloadBlock(file, i)') /\ i \in Signed(file)'
    BY <1>7, <1>9
  <2>6. SignClean'
    BY <2>4, <2>5 DEF SignClean
  <2> QED
    BY <1>6, <1>7, <2>6 DEF SignGoesOn
<1>10. CASE ~(n + 1 < Len(b))
  <2>1. n + 1 = Len(b) /\ k + 1 > c + 1 /\ k + 1 # 0
    BY ONLY <1>1, <1>4, <1>10, n \in Nat
  <2>2. mecha'.mode = 2 /\ mecha'.op = "block" /\ mecha'.calc = "ok" /\ mecha'.nth = nth + 1
    BY <1>6, <2>1 DEF BlockClean
  <2>3. Before(Signed(file), i + 1) = nth + 1 /\ i + 1 \in 1 .. Len(file.blocks) + 1
    <3> PICK m, S : m = Len(file.blocks) /\ S = Signed(file)
      OBVIOUS
    <3>3. m \in Nat /\ S \in SUBSET (1 .. m) /\ i \in S
      <4>1. Len(file.blocks) \in Nat /\ Marked(2) \in SUBSET (1 .. Len(file.blocks))
        BY <1>0, MarkedIn
      <4> QED
        BY <4>1 DEF Marked
    <3>4. Before(S, i + 1) = Before(S, i) + 1
      BY ONLY <3>3, Counting
    <3>5. i + 1 \in 1 .. m + 1
      BY ONLY <3>3
    <3> QED
      BY <3>4, <3>5
  <2>4. SignLoopClean(i + 1)'
    <3>1. todo' = Loop(i + 1)'
      BY <1>2, <1>6, <1>7, <2>1
    <3>2. mecha'.nth = Before(Signed(file), i + 1)'
      BY <1>7, <2>2, <2>3
    <3> QED
      BY <1>8, <2>2, <3>1, <3>2 DEF SignLoopClean, Prepared
  <2>5. SignClean'
    BY <1>7, <2>3, <2>4 DEF SignClean
  <2> QED
    BY <1>6, <1>7, <2>5 DEF SignGoesOn
<1> QED
  BY <1>9, <1>10

(* Which of the exchanges for the keys is which command. *)
KeyTurn(m, e) ==
    \/ m \in {2, 3, 13, 14, 26} /\ e.to = "mecha" /\ e.cmd \in {"94", "95", "96", "97", "98"}
    \/ m \in {4, 8, 15, 19} /\ e.to = "card" /\ e.cmd = "50"
    \/ m \in {5, 9, 16, 20} /\ e.to = "card" /\ e.cmd = "51"
    \/ m \in {6, 10, 17, 21} /\ e.to = "card" /\ e.cmd = "52"
    \/ m \in {7, 11, 18, 22} /\ e.to = "card" /\ e.cmd = "53"

LEMMA KeyTurns ==
  ASSUME NEW f, NEW k, k = SecrDownloadKeys(f), NEW m \in 1 .. Len(k), k[m].to \in {"card", "mecha"}
  PROVE  KeyTurn(m, k[m])
<1>0. KeysStand(f, k)
  BY KeysAre
<1>1. /\ kbit1.to = "mecha" /\ kbit1.cmd = "94"
      /\ kbit2.to = "mecha" /\ kbit2.cmd = "95"
      /\ kc1.to = "mecha" /\ kc1.cmd = "96"
      /\ kc2.to = "mecha" /\ kc2.cmd = "97"
      /\ get_icvps2.to = "mecha" /\ get_icvps2.cmd = "98"
  BY DEF kbit1, kbit2, kc1, kc2, get_icvps2, ToMecha, Exchanged
<1>2. \A c, h : /\ card_auth(c).to = "card" /\ card_auth(c).cmd = c
                /\ card_auth_write(h, c).to = "card" /\ card_auth_write(h, c).cmd = c
                /\ card_auth_read(h, c).to = "card" /\ card_auth_read(h, c).cmd = c
  BY DEF card_auth, card_auth_write, card_auth_read, ToCard, Exchanged
<1>3. m \notin {1, 12, 23, 24, 25, 27}
  BY KeyGets
<1>4. m \in 1 .. 27 /\ (m \in 1 .. 24 \/ f.icvps2)
  <2>1. Len(k) = 24 \/ (Len(k) = 27 /\ f.icvps2)
    BY ONLY <1>0 DEF KeysStand
  <2>2. m \in 1 .. Len(k)
    OBVIOUS
  <2>3. CASE Len(k) = 24
    BY ONLY <2>2, <2>3
  <2>4. CASE Len(k) = 27 /\ f.icvps2
    BY ONLY <2>2, <2>4
  <2> QED
    BY ONLY <2>1, <2>3, <2>4
<1>5. CASE m \in {2, 3, 13, 14}
  <2>1. k[2] = kbit1 /\ k[3] = kbit2 /\ k[13] = kc1 /\ k[14] = kc2
    BY ONLY <1>0 DEF KeysStand
  <2>2. k[m].to = "mecha" /\ k[m].cmd \in {"94", "95", "96", "97", "98"}
    BY ONLY <1>1, <1>5, <2>1
  <2> QED
    BY ONLY <1>5, <2>2 DEF KeyTurn
<1>6. CASE m = 26
  <2>1. k[26] = get_icvps2
    <3>1. f.icvps2
      BY ONLY <1>4, <1>6
    <3> QED
      BY ONLY <1>0, <3>1 DEF KeysStand
  <2> QED
    BY ONLY <1>1, <1>6, <2>1 DEF KeyTurn
<1>7. CASE m \in {4, 8, 15, 19}
  <2>1. k[4] = card_auth("50") /\ k[8] = card_auth("50") /\ k[15] = card_auth("50") /\ k[19] = card_auth("50")
    BY ONLY <1>0 DEF KeysStand
  <2>2. k[m].to = "card" /\ k[m].cmd = "50"
    BY ONLY <1>2, <1>7, <2>1
  <2> QED
    BY ONLY <1>7, <2>2 DEF KeyTurn
<1>8. CASE m \in {5, 9, 16, 20}
  <2>1. /\ k[5] = card_auth_write("Kbit1", "51") /\ k[9] = card_auth_write("Kbit2", "51")
        /\ k[16] = card_auth_write("Kc1", "51") /\ k[20] = card_auth_write("Kc2", "51")
    BY ONLY <1>0 DEF KeysStand
  <2>2. k[m].to = "card" /\ k[m].cmd = "51"
    BY ONLY <1>2, <1>8, <2>1
  <2> QED
    BY ONLY <1>8, <2>2 DEF KeyTurn
<1>9. CASE m \in {6, 10, 17, 21}
  <2>1. k[6] = card_auth("52") /\ k[10] = card_auth("52") /\ k[17] = card_auth("52") /\ k[21] = card_auth("52")
    BY ONLY <1>0 DEF KeysStand
  <2>2. k[m].to = "card" /\ k[m].cmd = "52"
    BY ONLY <1>2, <1>9, <2>1
  <2> QED
    BY ONLY <1>9, <2>2 DEF KeyTurn
<1>10. CASE m \in {7, 11, 18, 22}
  <2>1. /\ k[7] = card_auth_read("Kbit1", "53") /\ k[11] = card_auth_read("Kbit2", "53")
        /\ k[18] = card_auth_read("Kc1", "53") /\ k[22] = card_auth_read("Kc2", "53")
    BY ONLY <1>0 DEF KeysStand
  <2>2. k[m].to = "card" /\ k[m].cmd = "53"
    BY ONLY <1>2, <1>10, <2>1
  <2> QED
    BY ONLY <1>10, <2>2 DEF KeyTurn
<1>11. \/ m \in {2, 3, 13, 14} \/ m = 26 \/ m \in {4, 8, 15, 19} \/ m \in {5, 9, 16, 20}
       \/ m \in {6, 10, 17, 21} \/ m \in {7, 11, 18, 22}
  BY ONLY <1>3, <1>4
<1> QED
  BY ONLY <1>5, <1>6, <1>7, <1>8, <1>9, <1>10, <1>11

(* The key commands are answered too. *)
LEMMA KeysGo ==
  ASSUME HInv, fn = "sign", Exchange("done"), card.auth, mecha.auth, NEW n \in 0 .. KeyCount(file), KeysClean(n)
  PROVE  SignGoesOn
<1> PICK k : k = SecrDownloadKeys(file)
  OBVIOUS
<1>1. todo # <<>> /\ x.to \in {"card", "mecha"}
  BY ExchangeStep
<1>2. /\ Len(k) = KeyCount(file) /\ n \in Nat /\ KeyCount(file) \in Nat
      /\ n < Len(k) /\ n + 1 \in 1 .. Len(k) /\ x = k[n + 1] /\ Tail(todo) = After(k, n + 1)
  <2>1. todo = After(k, n)
    BY DEF KeysClean
  <2> QED
    BY <1>1, <2>1, KeyFront
<1>3. KeyTurn(n + 1, x)
  <2> PICK m : m = n + 1
    OBVIOUS
  <2>1. m \in 1 .. Len(k) /\ k[m].to \in {"card", "mecha"}
    BY <1>1, <1>2
  <2>2. KeyTurn(m, k[m])
    BY <2>1, KeyTurns
  <2> QED
    BY <1>2, <2>2
<1>4. mecha.mode = 2 /\ mecha.calc = "ok"
  BY DEF KeysClean
<1>5. ASSUME /\ fn' = fn /\ todo' = Tail(todo) /\ Alone /\ card'.auth /\ mecha'.auth
             /\ mecha'.mode = 2 /\ mecha'.calc = "ok"
             /\ n + 1 \in {4, 8, 15, 19} => card'.stage = 1
             /\ n + 1 \in {5, 9, 16, 20} => card'.stage = 2
             /\ n + 1 \in {6, 10, 17, 21} => card'.stage = 3
      PROVE  SignGoesOn
  <2>1. UNCHANGED <<file, due>>
    BY <1>5 DEF Alone
  <2>2. KeysClean(n + 1)'
    BY <1>2, <1>5, <2>1 DEF KeysClean
  <2>3. n + 1 \in 0 .. KeyCount(file)'
    BY <1>2, <2>1
  <2> QED
    BY <1>5, <2>1, <2>2, <2>3 DEF SignGoesOn, SignClean
<1>6. CASE x.to = "mecha"
  <2>1. x.cmd \in {"94", "95", "96", "97", "98"} /\ n + 1 \in {2, 3, 13, 14, 26}
    BY <1>3, <1>6 DEF KeyTurn
  <2>2. Obeys(mecha, x.cmd) /\ x.cmd \in Reads
    BY <1>4, <2>1 DEF Obeys, Reads
  <2>3. fn' = fn /\ todo' = Tail(todo) /\ Alone /\ card' = card /\ mecha' = mecha
    BY <1>6, <2>2, MechaWorks
  <2>4. n + 1 \notin {4, 8, 15, 19, 5, 9, 16, 20, 6, 10, 17, 21}
    BY <2>1
  <2> QED
    BY <1>4, <1>5, <2>3, <2>4
<1>7. CASE x.to = "card"
  <2>1. \/ n \in {3, 7, 14, 18} /\ x.cmd = "50"
        \/ n \in {4, 8, 15, 19} /\ x.cmd = "51"
        \/ n \in {5, 9, 16, 20} /\ x.cmd = "52"
        \/ n \in {6, 10, 17, 21} /\ x.cmd = "53"
    <3>1. \/ n + 1 \in {4, 8, 15, 19} /\ x.cmd = "50"
          \/ n + 1 \in {5, 9, 16, 20} /\ x.cmd = "51"
          \/ n + 1 \in {6, 10, 17, 21} /\ x.cmd = "52"
          \/ n + 1 \in {7, 11, 18, 22} /\ x.cmd = "53"
      BY <1>3, <1>7 DEF KeyTurn
    <3>2. /\ n + 1 \in {4, 8, 15, 19} => n \in {3, 7, 14, 18}
          /\ n + 1 \in {5, 9, 16, 20} => n \in {4, 8, 15, 19}
          /\ n + 1 \in {6, 10, 17, 21} => n \in {5, 9, 16, 20}
          /\ n + 1 \in {7, 11, 18, 22} => n \in {6, 10, 17, 21}
      BY ONLY <1>2
    <3> QED
      BY ONLY <3>1, <3>2
  <2>2. x.cmd \in CardKeyCmds /\ (card.stage + 1 = StageOf(x.cmd) \/ x.cmd \in {"40", "50"} \/ (x.cmd \in {"43", "53"} /\ card.stage = 3))
    BY <2>1 DEF CardKeyCmds, StageOf, KeysClean
  <2>3. fn' = fn /\ todo' = Tail(todo) /\ Alone /\ mecha' = mecha /\ card'.auth /\ card'.stage = StageOf(x.cmd)
    BY <1>7, <2>2, CardWorks
  <2>4. /\ n + 1 \in {4, 8, 15, 19} => StageOf(x.cmd) = 1
        /\ n + 1 \in {5, 9, 16, 20} => StageOf(x.cmd) = 2
        /\ n + 1 \in {6, 10, 17, 21} => StageOf(x.cmd) = 3
    <3> PICK m : m = n + 1
      OBVIOUS
    <3>1. \/ m \in {4, 8, 15, 19} /\ x.cmd = "50"
          \/ m \in {5, 9, 16, 20} /\ x.cmd = "51"
          \/ m \in {6, 10, 17, 21} /\ x.cmd = "52"
          \/ m \in {7, 11, 18, 22} /\ x.cmd = "53"
      BY <1>3, <1>7 DEF KeyTurn
    <3> QED
      BY <3>1 DEF StageOf
  <2> QED
    BY <1>4, <1>5, <2>3, <2>4
<1> QED
  BY <1>1, <1>6, <1>7

(* What the iop does by itself, and the calls of secrsif that come through. *)
LEMMA SignInnerGoes ==
  ASSUME HInv, fn = "sign", card.auth, mecha.auth, Signable(file), SignClean, RpcStep(TRUE) \/ SelfStep
  PROVE  SignGoesOn
<1>1. /\ todo # <<>> /\ x.to \in {"rpc", "self"} /\ UNCHANGED <<card, mecha, file, due>> /\ file \in Files
      /\ RpcStep(TRUE) => buf' = buf /\ x.to = "rpc"
      /\ SelfStep => x.to = "self" /\ x.cmd # "block" /\ (x.cmd \notin {"store_kbit", "store_kc", "store_icvps2"} => buf' = buf)
  BY DEF RpcStep, SelfStep, devices, fileVars, HInv, TypeInv
<1>2. ASSUME x.cmd # "toolong" \/ x.to # "self" PROVE fn' = fn /\ todo' = Tail(todo)
  BY <1>1, <1>2 DEF RpcStep, SelfStep, Next_
<1>a. x.to = "rpc" => fn' = fn /\ todo' = Tail(todo) /\ buf' = buf
  BY <1>1, <1>2
<1>b. \A i : Loop(i)' = Loop(i)
  BY <1>1 DEF Loop
<1>3. ASSUME NEW n \in Nat, n < Len(SecrDownloadHeader(file)), SignHeaderClean(n) PROVE SignGoesOn
  <2> PICK h, t, c : h = SecrDownloadHeader(file) /\ t = Loop(1) /\ c = HeaderChunks(file)
    OBVIOUS
  <2>1. /\ IsSeq(h) /\ Len(h) \in Nat /\ Len(h) > c + 3 /\ c \in Nat
        /\ h[1] = Rpc("header")
        /\ \A k \in Nat : k + 1 < Len(h) => HeaderPart(h[k + 2], 2, k)
    BY <1>1, SignHeaderPartsAt
  <2>2. IsSeq(h) /\ IsSeq(t) /\ n \in Nat /\ n < Len(h)
    BY <1>3, <2>1, LoopIs
  <2>3. Head(After(h, n) \o t) = h[n + 1] /\ Tail(After(h, n) \o t) = After(h, n + 1) \o t
    BY ONLY <2>2, FrontStep
  <2>4. x = h[n + 1] /\ Tail(todo) = After(h, n + 1) \o t
    BY <1>3, <2>3 DEF SignHeaderClean, x
  <2>5. n = 0
    <3> SUFFICES ASSUME n # 0 PROVE FALSE
      OBVIOUS
    <3>1. PICK k \in Nat : n + 1 = k + 2 /\ k + 1 < Len(h)
      <4>1. n - 1 \in Nat /\ n + 1 = (n - 1) + 2 /\ (n - 1) + 1 < Len(h)
        BY ONLY <2>1, <2>2, n # 0
      <4> QED
        BY <4>1
    <3>2. HeaderPart(x, 2, k)
      BY <2>1, <2>4, <3>1
    <3>3. x.to = "mecha"
      <4>1. k = 0 \/ k \in 1 .. c \/ k = c + 1 \/ k > c + 1
        BY ONLY <2>1, k \in Nat
      <4> QED
        BY <3>2, <4>1 DEF HeaderPart, write_HD_start, write_data, pol_cal_cmplt, Numbered, ToMecha, Exchanged
    <3> QED
      BY <1>1, <3>3
  <2>6. x.to = "rpc"
    BY <2>1, <2>4, <2>5 DEF Rpc, Exchanged
  <2>7. fn' = fn /\ todo' = After(h, 1) \o t /\ buf' = buf /\ t = Loop(1)'
    <3>1. fn' = fn /\ todo' = Tail(todo) /\ buf' = buf
      BY <1>a, <2>6
    <3>2. n + 1 = 1
      BY <2>5
    <3> QED
      BY <1>b, <2>4, <3>1, <3>2
  <2>8. \A k \in Nat : 1 = k + 1 => k = 0
    OBVIOUS
  <2>9. HeaderClean(2, 0)'
    <3>1. HeaderChunks(file)' = c
      BY <1>1
    <3> QED
      BY <2>1, <3>1 DEF HeaderClean
  <2>10. SignHeaderClean(1)'
    <3>1. \A k \in Nat : 1 = k + 1 => HeaderClean(2, k)'
      BY <2>8, <2>9
    <3> QED
      BY <1>1, <1>3, <2>7, <3>1 DEF SignHeaderClean
  <2>11. 1 < Len(SecrDownloadHeader(file)')
    BY <1>1, <2>1
  <2> QED
    BY <1>1, <2>7, <2>10, <2>11 DEF SignGoesOn, SignClean
<1>4. ASSUME NEW i \in 1 .. Len(file.blocks) + 1, SignLoopClean(i) PROVE FALSE
  <2>1. x = Blocks(i)
    BY <1>4, LoopIs DEF SignLoopClean, x
  <2> QED
    BY <1>1, <2>1 DEF Blocks, Self, Exchanged
<1>5. ASSUME NEW i \in Signed(file), NEW n \in Nat, n < Len(SecrDownloadBlock(file, i)), SignBlockClean(i, n) PROVE SignGoesOn
  <2> PICK b, t, from, size, nth, c : /\ b = SecrDownloadBlock(file, i) /\ t = Loop(i + 1) /\ from = BlockOffset(file, i)
                                   /\ size = file.blocks[i].size /\ nth = Before(Signed(file), i) /\ c = size \div 2
    OBVIOUS
  <2>1. /\ IsSeq(b) /\ Len(b) = c + 3 /\ c \in Nat
        /\ b[1] = Rpc("block")
        /\ \A k \in Nat : k + 1 < Len(b) => BlockPart(b[k + 2], from, size, k)
    BY <1>1, SignBlockPartsAt
  <2>2. x = b[n + 1] /\ Tail(todo) = After(b, n + 1) \o t
    BY <1>5, BlockFront DEF SignBlockClean
  <2>3. n = 0
    <3> SUFFICES ASSUME n # 0 PROVE FALSE
      OBVIOUS
    <3>1. PICK k \in Nat : n + 1 = k + 2 /\ k + 1 < Len(b)
      <4>0. n \in Nat /\ n < Len(b)
        BY <1>5
      <4>1. n - 1 \in Nat /\ n + 1 = (n - 1) + 2 /\ (n - 1) + 1 < Len(b)
        BY ONLY <2>1, <4>0, n # 0
      <4> QED
        BY <4>1
    <3>2. BlockPart(x, from, size, k)
      BY <2>1, <2>2, <3>1
    <3> QED
      BY <1>1, <3>2 DEF BlockPart
  <2>4. x.to = "rpc"
    BY <2>1, <2>2, <2>3 DEF Rpc, Exchanged
  <2>5. fn' = fn /\ todo' = After(b, 1) \o t /\ buf' = buf /\ t = Loop(i + 1)'
    <3>1. fn' = fn /\ todo' = Tail(todo) /\ buf' = buf
      BY <1>a, <2>4
    <3>2. n + 1 = 1
      BY <2>3
    <3> QED
      BY <1>b, <2>2, <3>1, <3>2
  <2>6. \A k \in Nat : 1 = k + 1 => k = 0
    OBVIOUS
  <2>7. BlockClean(2, from, size, nth, 0)'
    <3>1. BlockClean(2, from, size, nth, 0)
      BY <1>5, <2>3 DEF SignBlockClean
    <3>2. 0 \notin 1 .. size \div 2 /\ 0 # size \div 2 + 1 /\ ~(0 > size \div 2 + 1)
      BY ONLY <2>1, c = size \div 2
    <3> QED
      BY <1>1, <3>1, <3>2 DEF BlockClean
  <2>8. SignBlockClean(i, 1)'
    <3>1. /\ from = BlockOffset(file, i)' /\ size = (file.blocks[i].size)' /\ nth = Before(Signed(file), i)'
          /\ b = SecrDownloadBlock(file, i)'
      BY <1>1
    <3>2. \A k \in Nat : 1 = k + 1 => BlockClean(2, BlockOffset(file, i), file.blocks[i].size, Before(Signed(file), i), k)'
      BY <2>6, <2>7, <3>1
    <3>3. (buf = Content(file))'
      BY <1>1, <1>5, <2>5 DEF SignBlockClean
    <3>4. todo' = After(SecrDownloadBlock(file, i)', 1) \o Loop(i + 1)'
      BY <2>5, <3>1
    <3>5. 1 # 0
      OBVIOUS
    <3> QED
      BY ONLY <3>2, <3>3, <3>4, <3>5 DEF SignBlockClean
  <2>9. 1 < Len(SecrDownloadBlock(file, i)') /\ i \in Signed(file)'
    <3>1. 1 < Len(b)
      BY <2>1
    <3> QED
      BY <1>1, <3>1
  <2> QED
    BY <1>1, <2>5, <2>8, <2>9 DEF SignGoesOn, SignClean
<1>6. ASSUME NEW n \in 0 .. KeyCount(file), KeysClean(n) PROVE SignGoesOn
  <2> PICK k, m : k = SecrDownloadKeys(file) /\ m = n + 1
    OBVIOUS
  <2>1. /\ Len(k) = KeyCount(file) /\ n \in Nat /\ KeyCount(file) \in Nat
        /\ n < Len(k) /\ n + 1 \in 1 .. Len(k) /\ x = k[n + 1] /\ Tail(todo) = After(k, n + 1)
    <3>1. todo = After(k, n)
      BY <1>6 DEF KeysClean
    <3> QED
      BY <1>1, <3>1, KeyFront
  <2>2. m \in 1 .. Len(k) /\ k[m].to \in {"rpc", "self"}
    BY <1>1, <2>1
  <2>3. \/ m \in {1, 12, 25} /\ k[m].to = "rpc"
        \/ m = 23 /\ k[m] = Self("store_kbit")
        \/ m = 24 /\ k[m] = Self("store_kc")
        \/ m = 27 /\ file.icvps2 /\ k[m] = Self("store_icvps2")
    BY <2>2, KeyInner
  <2>4. x.cmd # "toolong" \/ x.to # "self"
    BY <2>1, <2>3 DEF Self, Exchanged
  <2>5. fn' = fn /\ todo' = After(k, n + 1)
    BY <1>2, <2>1, <2>4
  <2>6. n + 1 \notin {4, 8, 15, 19, 5, 9, 16, 20, 6, 10, 17, 21}
    BY <2>3
  <2>7. KeysClean(n + 1)'
    <3>1. mecha'.mode = 2 /\ mecha'.calc = "ok"
      BY <1>1, <1>6 DEF KeysClean
    <3> QED
      BY <1>1, <2>5, <2>6, <3>1 DEF KeysClean
  <2>8. n + 1 \in 0 .. KeyCount(file)'
    BY <1>1, <2>1
  <2> QED
    BY <1>1, <2>5, <2>7, <2>8 DEF SignGoesOn, SignClean
<1> QED
  BY <1>3, <1>4, <1>5, <1>6 DEF SignClean

(* The loop comes to the next block, or to the keys. *)
LEMMA SignLoopGoes ==
  ASSUME HInv, fn = "sign", card.auth, mecha.auth, Signable(file), SignClean, NextBlock
  PROVE  SignGoesOn
<1>1. /\ todo # <<>> /\ x.to = "self" /\ x.cmd = "block" /\ UNCHANGED <<card, mecha, file, buf, fn, due>>
      /\ file \in Files
  BY DEF NextBlock, devices, fileVars, HInv, TypeInv
<1> PICK k, m, S : k = SecrDownloadKeys(file) /\ m = Len(file.blocks) /\ S = Signed(file)
  OBVIOUS
<1>2. PICK i \in 1 .. Len(file.blocks) + 1 : SignLoopClean(i) /\ x = Blocks(i)
  <2>1. ASSUME NEW n \in Nat, n < Len(SecrDownloadHeader(file)), SignHeaderClean(n) PROVE FALSE
    <3> PICK h, t : h = SecrDownloadHeader(file) /\ t = Loop(1)
      OBVIOUS
    <3>1. /\ IsSeq(h) /\ Len(h) \in Nat /\ Len(h) > 2
          /\ h[1] = Rpc("header") /\ h[2] = write_HD_start(2, file)
          /\ \A j \in 3 .. Len(h) : h[j].to = "mecha"
      BY <1>1, SignHeaderAt
    <3>2. IsSeq(h) /\ IsSeq(t) /\ n \in Nat /\ n < Len(h)
      BY <2>1, <3>1, LoopIs
    <3>3. Head(After(h, n) \o t) = h[n + 1]
      BY ONLY <3>2, FrontStep
    <3>4. x = h[n + 1]
      BY <2>1, <3>3 DEF SignHeaderClean, x
    <3>5. h[1].to = "rpc" /\ h[2].to = "mecha"
      BY <3>1 DEF Rpc, write_HD_start, Numbered, ToMecha, Exchanged
    <3>6. n + 1 = 1 \/ n + 1 = 2 \/ n + 1 \in 3 .. Len(h)
      BY ONLY <3>1, <3>2
    <3>7. x.to # "self"
      BY ONLY <3>1, <3>4, <3>5, <3>6
    <3> QED
      BY <1>1, <3>7
  <2>2. ASSUME NEW j \in Signed(file), NEW n \in Nat, n < Len(SecrDownloadBlock(file, j)), SignBlockClean(j, n) PROVE FALSE
    <3> PICK b, from, size, c : /\ b = SecrDownloadBlock(file, j) /\ from = BlockOffset(file, j)
                             /\ size = file.blocks[j].size /\ c = size \div 2
      OBVIOUS
    <3>1. /\ Len(b) = c + 3 /\ c \in Nat
          /\ b[1] = Rpc("block")
          /\ \A l \in Nat : l + 1 < Len(b) => BlockPart(b[l + 2], from, size, l)
      BY <1>1, SignBlockPartsAt
    <3>2. x = b[n + 1]
      BY <2>2, BlockFront DEF SignBlockClean
    <3>3. CASE n = 0
      BY <1>1, <3>1, <3>2, <3>3 DEF Rpc, Exchanged
    <3>4. CASE n # 0
      <4>0. n \in Nat /\ n < Len(b)
        BY <2>2
      <4>1. n - 1 \in Nat /\ n + 1 = (n - 1) + 2 /\ (n - 1) + 1 < Len(b)
        BY ONLY <3>1, <3>4, <4>0
      <4>2. BlockPart(x, from, size, n - 1)
        BY <3>1, <3>2, <4>1
      <4> QED
        BY <1>1, <4>2 DEF BlockPart
    <3> QED
      BY <3>3, <3>4
  <2>3. ASSUME NEW n \in 0 .. KeyCount(file), KeysClean(n) PROVE FALSE
    <3> PICK o : o = n + 1
      OBVIOUS
    <3>1. todo = After(k, n)
      BY <2>3 DEF KeysClean
    <3>2. Len(k) = KeyCount(file) /\ n + 1 \in 1 .. Len(k) /\ x = k[n + 1]
      BY <1>1, <3>1, KeyFront
    <3>3. o \in 1 .. Len(k) /\ k[o].to \in {"rpc", "self"}
      BY <1>1, <3>2
    <3>4. \/ k[o].to = "rpc"
          \/ k[o] = Self("store_kbit")
          \/ k[o] = Self("store_kc")
          \/ k[o] = Self("store_icvps2")
      BY <3>3, KeyInner
    <3> QED
      BY <1>1, <3>2, <3>4 DEF Self, Exchanged
  <2>4. ASSUME NEW i \in 1 .. Len(file.blocks) + 1, SignLoopClean(i) PROVE x = Blocks(i)
    BY <2>4, LoopIs DEF SignLoopClean, x
  <2> QED
    BY <2>1, <2>2, <2>3, <2>4 DEF SignClean
<1>3. m \in Nat /\ DOMAIN file.blocks = 1 .. m /\ S \in SUBSET (1 .. m) /\ i \in 1 .. m + 1
  <2>1. Len(file.blocks) \in Nat /\ DOMAIN file.blocks = 1 .. Len(file.blocks)
    BY <1>1, OffsetsAre
  <2> QED
    BY <2>1 DEF Signed
<1>4. IsSeq(k) /\ Tail(todo) = k /\ mecha.nth = Before(S, i) /\ buf = Content(file) /\ Prepared(2)
  <2>1. IsSeq(k)
    BY KeyScript, SeqFacts
  <2>2. Tail(Loop(i)) = k
    BY LoopIs
  <2> QED
    BY <1>2, <2>1, <2>2 DEF SignLoopClean
<1>5. x.arg[1] = i
  BY <1>2 DEF Blocks, Self, Exchanged
<1>6. todo' = (IF i \in 1 .. m THEN (IF i \in S THEN SecrDownloadBlock(file, i) ELSE <<>>) \o <<Blocks(i + 1)>> ELSE <<>>) \o k
  BY <1>3, <1>4, <1>5 DEF NextBlock, BlockCalls
<1>7. \A j \in 1 .. m : j \notin S => Before(S, j + 1) = Before(S, j)
  BY ONLY <1>3, Counting
<1> PICK a, t : a = <<Blocks(i + 1)>> /\ t = Loop(i + 1)
  OBVIOUS
<1>8. IsSeq(a) /\ IsSeq(<<>>) /\ t = a \o k /\ Loop(i + 1)' = t
  BY <1>1, SeqFacts DEF Loop
<1>9. CASE i \in S
  <2> PICK b : b = SecrDownloadBlock(file, i)
    OBVIOUS
  <2>1. IsSeq(b) /\ Len(b) \in Nat /\ Len(b) > 3 /\ i \in 1 .. m
    BY <1>1, <1>3, <1>9, SignBlockAt
  <2>2. todo' = (b \o a) \o k
    BY <1>6, <1>9, <2>1
  <2>3. (b \o a) \o k = b \o (a \o k)
    <3>1. IsSeq(b) /\ IsSeq(a) /\ IsSeq(k)
      BY <1>4, <1>8, <2>1
    <3>2. Associates(b, a, k)
      BY ONLY <3>1, ConcatAssoc
    <3> QED
      BY ONLY <3>2 DEF Associates
  <2>4. After(b, 0) = b
    BY <2>1, Fronts
  <2>5. BlockClean(2, BlockOffset(file, i), file.blocks[i].size, Before(Signed(file), i), 0)'
    <3> PICK size, nth, c : size = file.blocks[i].size /\ nth = Before(Signed(file), i) /\ c = size \div 2
      OBVIOUS
    <3>1. c \in Nat
      BY <1>1, <1>9, SignBlockPartsAt
    <3>2. 0 \notin 1 .. size \div 2 /\ 0 # size \div 2 + 1 /\ ~(0 > size \div 2 + 1)
      BY ONLY <3>1, c = size \div 2
    <3>3. mecha'.mode = 2 /\ mecha'.op \in {"header", "block"} /\ mecha'.calc = "ok" /\ mecha'.nth = nth
      BY <1>1, <1>4 DEF Prepared
    <3>4. BlockClean(2, BlockOffset(file, i), size, nth, 0)'
      BY <3>2, <3>3 DEF BlockClean
    <3> QED
      BY <1>1, <3>4
  <2>6. SignBlockClean(i, 0)'
    <3>1. (todo = After(SecrDownloadBlock(file, i), 0) \o Loop(i + 1))'
      BY <1>1, <1>8, <2>2, <2>3, <2>4
    <3>2. (buf = Content(file))'
      BY <1>1, <1>4
    <3>3. \A j \in Nat : 0 # j + 1
      OBVIOUS
    <3> QED
      BY <2>5, <3>1, <3>2, <3>3 DEF SignBlockClean
  <2>7. i \in Signed(file)' /\ 0 < Len(SecrDownloadBlock(file, i)')
    BY <1>1, <1>9, <2>1
  <2> QED
    BY <1>1, <2>6, <2>7 DEF SignGoesOn, SignClean
<1>10. CASE i \in 1 .. m /\ i \notin S
  <2>1. todo' = (<<>> \o a) \o k
    BY <1>6, <1>10
  <2>2. <<>> \o a = a
    BY <1>4, <1>8, ConcatThrice
  <2>3. Before(S, i + 1) = Before(S, i)
    BY <1>7, <1>10
  <2>4. SignLoopClean(i + 1)'
    <3>1. (todo = Loop(i + 1))'
      BY <1>8, <2>1, <2>2
    <3>2. Prepared(2)' /\ (buf = Content(file))' /\ (mecha.nth = Before(Signed(file), i + 1))'
      BY <1>1, <1>4, <2>3 DEF Prepared
    <3> QED
      BY <3>1, <3>2 DEF SignLoopClean
  <2>5. i + 1 \in 1 .. Len(file'.blocks) + 1
    <3>1. i + 1 \in 1 .. m + 1
      BY ONLY <1>3, <1>10
    <3> QED
      BY <1>1, <3>1
  <2> QED
    BY <1>1, <2>4, <2>5 DEF SignGoesOn, SignClean
<1>11. CASE i \notin 1 .. m
  <2>1. todo' = k
    <3>1. <<>> \o k = k
      BY <1>4, <1>8, ConcatThrice
    <3> QED
      BY <1>6, <1>11, <3>1
  <2>2. After(k, 0) = k
    BY <1>4, Fronts
  <2>3. KeysClean(0)'
    <3>1. (todo = After(SecrDownloadKeys(file), 0))'
      BY <1>1, <2>1, <2>2
    <3>2. mecha'.mode = 2 /\ mecha'.calc = "ok"
      BY <1>1, <1>4 DEF Prepared
    <3> QED
      BY <3>1, <3>2 DEF KeysClean
  <2>4. 0 \in 0 .. KeyCount(file)'
    BY DEF KeyCount
  <2> QED
    BY <1>1, <2>3, <2>4 DEF SignGoesOn, SignClean
<1> QED
  BY <1>9, <1>10, <1>11

(* Where the four exchanges with the card for one key half stand in the script of a boot. *)
HalfTurns(c, h, e) ==
    /\ c[e + 1] = card_auth("40") /\ c[e + 2] = card_auth_write(h, "41")
    /\ c[e + 3] = card_auth("42") /\ c[e + 4] = card_auth_read(h, "43")
PrefixTurns(c) ==
    /\ c[1] = Self("get_keys")
    /\ HalfTurns(c, "Kbit1", 1) /\ HalfTurns(c, "Kbit2", 5) /\ HalfTurns(c, "Kc1", 9) /\ HalfTurns(c, "Kc2", 13)
    /\ c[18] = Self("store_kc") /\ c[19] = Self("store_kbit")

LEMMA KeyPrefix ==
  ASSUME NEW a, a = <<Self("get_keys")>>
                    \o func_0000077c("Kbit1") \o func_0000077c("Kbit2")
                    \o func_0000077c("Kc1") \o func_0000077c("Kc2")
                    \o <<Self("store_kc"), Self("store_kbit")>>
  PROVE  IsSeq(a) /\ Len(a) = 19 /\ PrefixTurns(a)
<1>1. IsSeq(a)
  <2>1. ASSUME NEW h PROVE IsSeq(func_0000077c(h))
    <3>1. func_0000077c(h) \in Seq({card_auth("40"), card_auth_write(h, "41"), card_auth("42"), card_auth_read(h, "43")})
      BY DEF func_0000077c
    <3> QED
      BY <3>1 DEF IsSeq
  <2> PICK g, p, q, r, s, t : /\ g = <<Self("get_keys")>> /\ p = func_0000077c("Kbit1") /\ q = func_0000077c("Kbit2")
                              /\ r = func_0000077c("Kc1") /\ s = func_0000077c("Kc2")
                              /\ t = <<Self("store_kc"), Self("store_kbit")>>
    OBVIOUS
  <2>2. t \in Seq({Self("store_kc"), Self("store_kbit")})
    OBVIOUS
  <2>3. IsSeq(g) /\ IsSeq(p) /\ IsSeq(q) /\ IsSeq(r) /\ IsSeq(s) /\ IsSeq(t)
    BY <2>1, <2>2, SeqFacts DEF IsSeq
  <2>4. IsSeq(((((g \o p) \o q) \o r) \o s) \o t)
    BY ONLY <2>3, SeqFacts
  <2> QED
    BY <2>4
<1>2. Len(a) = 19 /\ a[1] = Self("get_keys") /\ a[18] = Self("store_kc") /\ a[19] = Self("store_kbit")
  BY DEF func_0000077c
<1>3. /\ a[2] = card_auth("40") /\ a[3] = card_auth_write("Kbit1", "41") /\ a[4] = card_auth("42")
      /\ a[5] = card_auth_read("Kbit1", "43")
  BY DEF func_0000077c
<1>4. /\ a[6] = card_auth("40") /\ a[7] = card_auth_write("Kbit2", "41") /\ a[8] = card_auth("42")
      /\ a[9] = card_auth_read("Kbit2", "43")
  BY DEF func_0000077c
<1>5. /\ a[10] = card_auth("40") /\ a[11] = card_auth_write("Kc1", "41") /\ a[12] = card_auth("42")
      /\ a[13] = card_auth_read("Kc1", "43")
  BY DEF func_0000077c
<1>6. /\ a[14] = card_auth("40") /\ a[15] = card_auth_write("Kc2", "41") /\ a[16] = card_auth("42")
      /\ a[17] = card_auth_read("Kc2", "43")
  BY DEF func_0000077c
<1>7. HalfTurns(a, "Kbit1", 1) /\ HalfTurns(a, "Kbit2", 5)
  BY ONLY <1>3, <1>4 DEF HalfTurns
<1>8. HalfTurns(a, "Kc1", 9) /\ HalfTurns(a, "Kc2", 13)
  BY ONLY <1>5, <1>6 DEF HalfTurns
<1> QED
  BY <1>1, <1>2, <1>7, <1>8 DEF PrefixTurns

(* They are followed by the exchanges that hand over the header. *)
LEMMA BootPartsAt ==
  ASSUME file \in Files, NEW c, c = SecrCardBootHeader(file)
  PROVE  /\ IsSeq(c) /\ Len(c) \in Nat /\ Len(c) > HeaderChunks(file) + 21 /\ HeaderChunks(file) \in Nat
         /\ PrefixTurns(c)
         /\ \A k \in Nat : k + 19 < Len(c) => HeaderPart(c[k + 20], 1, k)
<1> PICK a, s, b, r, m : /\ a = <<Self("get_keys")>>
                             \o func_0000077c("Kbit1") \o func_0000077c("Kbit2")
                             \o func_0000077c("Kc1") \o func_0000077c("Kc2")
                             \o <<Self("store_kc"), Self("store_kbit")>>
                      /\ s = secr_set_header(1, file) /\ b = Read_BIT(file) /\ r = s \o b /\ m = HeaderChunks(file)
  OBVIOUS
<1>1. /\ IsSeq(r) /\ Len(r) \in Nat /\ Len(r) > m + 2 /\ m \in Nat
      /\ \A k \in 0 .. Len(r) - 1 : HeaderPart(r[k + 1], 1, k)
  BY HeaderPartsAt
<1>2. IsSeq(s) /\ IsSeq(b)
  BY SetHeaderAt, ReadBitAt
<1>3. IsSeq(a) /\ Len(a) = 19 /\ PrefixTurns(a)
  BY KeyPrefix
<1>4. c = a \o r
  <2>1. c = (a \o s) \o b
    BY DEF SecrCardBootHeader
  <2>2. IsSeq(a) /\ IsSeq(s) /\ IsSeq(b)
    BY <1>2, <1>3
  <2>3. Associates(a, s, b)
    BY ONLY <2>2, ConcatAssoc
  <2>4. (a \o s) \o b = a \o (s \o b)
    BY ONLY <2>3 DEF Associates
  <2> QED
    BY <2>1, <2>4
<1> PICK l : l = Len(r)
  OBVIOUS
<1>5. /\ IsSeq(c) /\ Len(c) = 19 + l /\ l \in Nat
      /\ \A i \in 1 .. 19 : c[i] = a[i]
      /\ \A i \in 1 .. l : c[19 + i] = r[i]
  <2>1. IsSeq(a) /\ IsSeq(r)
    BY <1>1, <1>3
  <2>2. /\ IsSeq(a \o r) /\ Len(a \o r) = Len(a) + Len(r)
        /\ \A i \in 1 .. Len(a) : (a \o r)[i] = a[i]
        /\ \A i \in 1 .. Len(r) : (a \o r)[Len(a) + i] = r[i]
    BY ONLY <2>1, ConcatAt
  <2>3. Len(a) = 19 /\ Len(r) = l /\ l \in Nat /\ c = a \o r
    BY <1>1, <1>3, <1>4
  <2> QED
    BY ONLY <2>2, <2>3
<1>6. PrefixTurns(c)
  <2>1. /\ c[1] = a[1] /\ c[2] = a[2] /\ c[3] = a[3] /\ c[4] = a[4] /\ c[5] = a[5] /\ c[6] = a[6] /\ c[7] = a[7]
        /\ c[8] = a[8] /\ c[9] = a[9] /\ c[10] = a[10] /\ c[11] = a[11] /\ c[12] = a[12] /\ c[13] = a[13]
        /\ c[14] = a[14] /\ c[15] = a[15] /\ c[16] = a[16] /\ c[17] = a[17] /\ c[18] = a[18] /\ c[19] = a[19]
    BY ONLY <1>5
  <2>2. c[1] = Self("get_keys") /\ c[18] = Self("store_kc") /\ c[19] = Self("store_kbit")
    BY ONLY <1>3, <2>1 DEF PrefixTurns
  <2>3. HalfTurns(c, "Kbit1", 1) /\ HalfTurns(c, "Kbit2", 5)
    <3>1. HalfTurns(a, "Kbit1", 1) /\ HalfTurns(a, "Kbit2", 5)
      BY ONLY <1>3 DEF PrefixTurns
    <3> QED
      BY ONLY <2>1, <3>1 DEF HalfTurns
  <2>4. HalfTurns(c, "Kc1", 9) /\ HalfTurns(c, "Kc2", 13)
    <3>1. HalfTurns(a, "Kc1", 9) /\ HalfTurns(a, "Kc2", 13)
      BY ONLY <1>3 DEF PrefixTurns
    <3> QED
      BY ONLY <2>1, <3>1 DEF HalfTurns
  <2> QED
    BY ONLY <2>2, <2>3, <2>4 DEF PrefixTurns
<1>7. ASSUME NEW k \in Nat, k + 19 < Len(c) PROVE HeaderPart(c[k + 20], 1, k)
  <2>1. k \in 0 .. l - 1 /\ k + 1 \in 1 .. l /\ k + 20 = 19 + (k + 1)
    BY ONLY <1>5, <1>7
  <2>2. c[k + 20] = r[k + 1]
    BY ONLY <1>5, <2>1
  <2> QED
    BY <1>1, <2>1, <2>2
<1>8. Len(c) > m + 21 /\ Len(c) \in Nat
  <2>1. l > m + 2 /\ m \in Nat
    BY <1>1
  <2>2. Len(c) = 19 + l /\ l \in Nat
    BY <1>5
  <2> QED
    BY ONLY <2>1, <2>2
<1> QED
  BY <1>1, <1>5, <1>6, <1>7, <1>8

(* One key half when n steps of a boot are done, on the card it is bound to: that card opens it in the
   four exchanges after e, and after the step last it is back in the buffer, open. *)
HalfState(u, h, e, last, n) ==
    /\ n = 0 => buf[KbitOffset(file) + u] = Bound(h, card.id, file)
    /\ 1 <= n /\ n <= e + 3 => loc[h] = Bound(h, card.id, file)
    /\ e + 4 <= n /\ n <= 18 => loc[h] = Half(h, mecha.peer, file.keys)
    /\ last <= n => buf[KbitOffset(file) + u] = Half(h, mecha.peer, file.keys)
    /\ n = e + 1 => card.stage = 1
    /\ n = e + 2 => card.stage = 2 /\ card.val = Bound(h, card.id, file)
    /\ n = e + 3 => card.stage = 3 /\ card.val = Half(h, mecha.peer, file.keys)
HalvesClean(n) ==
    /\ HalfState(1, "Kbit1", 1, 19, n) /\ HalfState(2, "Kbit2", 5, 19, n)
    /\ HalfState(3, "Kc1", 9, 18, n) /\ HalfState(4, "Kc2", 13, 18, n)

(* It stays while the card works on another half, ... *)
Waits(u, h, e, last, n) ==
    /\ n \in 1 .. 16 /\ e \in 1 .. 13 /\ last \in {18, 19} /\ ~(e <= n /\ n <= e + 3)
    /\ HalfState(u, h, e, last, n)
    /\ UNCHANGED <<file, buf, mecha>> /\ card'.id = card.id /\ loc'[h] = loc[h]

LEMMA HalfWaits ==
  ASSUME NEW u, NEW h, NEW e, NEW last, NEW n, Waits(u, h, e, last, n)
  PROVE  HalfState(u, h, e, last, n + 1)'
<1>1. /\ n \in 1 .. 16 /\ e \in 1 .. 13 /\ last \in {18, 19} /\ ~(e <= n /\ n <= e + 3)
  BY DEF Waits
<1>2. /\ n + 1 # 0 /\ (1 <= n + 1 /\ n + 1 <= e + 3 => 1 <= n /\ n <= e + 3)
      /\ (e + 4 <= n + 1 /\ n + 1 <= 18 => e + 4 <= n /\ n <= 18)
      /\ ~(last <= n + 1) /\ n + 1 # e + 1 /\ n + 1 # e + 2 /\ n + 1 # e + 3
  BY ONLY <1>1
<1>3. /\ UNCHANGED <<file, mecha>> /\ card'.id = card.id /\ loc'[h] = loc[h]
      /\ 1 <= n /\ n <= e + 3 => loc[h] = Bound(h, card.id, file)
      /\ e + 4 <= n /\ n <= 18 => loc[h] = Half(h, mecha.peer, file.keys)
  BY DEF Waits, HalfState
<1>4. /\ 1 <= n + 1 /\ n + 1 <= e + 3 => loc'[h] = Bound(h, card'.id, file')
      /\ e + 4 <= n + 1 /\ n + 1 <= 18 => loc'[h] = Half(h, mecha'.peer, file'.keys)
  BY <1>2, <1>3 DEF Bound
<1> QED
  BY <1>2, <1>4 DEF HalfState, Bound

(* ... and the card opens it, in its turn. *)
Opens(u, h, e, last, n) ==
    /\ h \in ToSet(Halves) /\ n \in 1 .. 16 /\ e \in 1 .. 13 /\ last \in {18, 19} /\ e <= n /\ n <= e + 3
    /\ HalfState(u, h, e, last, n)
    /\ n = e => x = card_auth("40")
    /\ n = e + 1 => x = card_auth_write(h, "41")
    /\ n = e + 2 => x = card_auth("42")
    /\ n = e + 3 => x = card_auth_read(h, "43")

LEMMA HalfOpens ==
  ASSUME HInv, fn = "boot", Exchange("done"), card.auth, mecha.auth,
         NEW u, NEW h, NEW e, NEW last, NEW n, Opens(u, h, e, last, n)
  PROVE  /\ fn' = fn /\ todo' = Tail(todo) /\ mecha' = mecha /\ Alone /\ card'.auth /\ card'.id = card.id
         /\ \A g \in DOMAIN loc : g # h => loc'[g] = loc[g]
         /\ HalfState(u, h, e, last, n + 1)'
<1>1. /\ h \in ToSet(Halves) /\ n \in 1 .. 16 /\ e \in 1 .. 13 /\ last \in {18, 19} /\ e <= n /\ n <= e + 3
      /\ n = e => x = card_auth("40")
      /\ n = e + 1 => x = card_auth_write(h, "41")
      /\ n = e + 2 => x = card_auth("42")
      /\ n = e + 3 => x = card_auth_read(h, "43")
      /\ n <= e + 3 => loc[h] = Bound(h, card.id, file)
      /\ n = e + 1 => card.stage = 1
      /\ n = e + 2 => card.stage = 2 /\ card.val = Bound(h, card.id, file)
      /\ n = e + 3 => card.stage = 3 /\ card.val = Half(h, mecha.peer, file.keys)
  BY DEF Opens, HalfState
<1>2. n = e \/ n = e + 1 \/ n = e + 2 \/ n = e + 3
  BY ONLY <1>1
<1>3. /\ x.to = "card" /\ x.units = <<>>
      /\ n = e => x.cmd = "40" /\ x.get = <<>>
      /\ n = e + 1 => x.cmd = "41" /\ x.get = <<>> /\ x.put = <<h>>
      /\ n = e + 2 => x.cmd = "42" /\ x.get = <<>>
      /\ n = e + 3 => x.cmd = "43" /\ x.get = <<h>>
  BY <1>1, <1>2 DEF card_auth, card_auth_write, card_auth_read, ToCard, Exchanged
<1>4. x.cmd \in CardKeyCmds /\ (card.stage + 1 = StageOf(x.cmd) \/ x.cmd \in {"40", "50"} \/ (x.cmd \in {"43", "53"} /\ card.stage = 3))
  BY <1>1, <1>2, <1>3 DEF CardKeyCmds, StageOf
<1>5. /\ fn' = fn /\ todo' = Tail(todo) /\ loc' = Filled("done", TRUE) /\ mecha' = mecha /\ Alone
      /\ card'.auth /\ card'.id = card.id /\ card'.s = card.s /\ card'.stage = StageOf(x.cmd)
      /\ x.cmd \in {"41", "51"} => card'.val = Sent[1]
      /\ x.cmd = "42" => card'.val = DecryptFor(card, card.val)
      /\ x.cmd \in {"43", "53"} => Device.out = <<card.val>>
  BY <1>3, <1>4, CardWorks
<1>6. mecha.peer = card.s
  BY DEF HInv, PairInv
<1>7. h \in DOMAIN loc
  BY <1>1 DEF HInv, TypeInv, LocalNames
<1>8. ASSUME NEW g \in DOMAIN loc, g # h PROVE loc'[g] = loc[g]
  <2>1. \A j \in DOMAIN x.get : x.get[j] # g
    BY <1>2, <1>3, <1>8
  <2> QED
    BY <1>5, <2>1, FilledAt
<1>9. n # e + 3 => loc'[h] = loc[h]
  <2>1. n # e + 3 => \A j \in DOMAIN x.get : x.get[j] # h
    BY <1>2, <1>3
  <2> QED
    BY <1>5, <1>7, <2>1, FilledAt
<1>10. n = e + 3 => loc'[h] = card.val
  <2> SUFFICES ASSUME n = e + 3 PROVE loc'[h] = card.val
    OBVIOUS
  <2>1. x.get = <<h>> /\ Device.out = <<card.val>>
    BY <1>3, <1>5
  <2> PICK v, how : v = card.val /\ how = "done"
    OBVIOUS
  <2>2. loc' = Filled(how, TRUE) /\ x.get = <<h>> /\ how = "done" /\ Device.out = <<v>>
    BY <1>5, <2>1
  <2>3. loc'[h] = v
    BY ONLY <1>7, <2>2, FilledAt
  <2> QED
    BY <2>3
<1>11. n = e + 1 => card'.val = Bound(h, card.id, file)
  <2>1. n = e + 1 => Sent[1] = loc[h]
    BY <1>3, SentOne
  <2> QED
    BY <1>1, <1>3, <1>5, <2>1
<1>12. n = e + 2 => card'.val = Half(h, mecha.peer, file.keys)
  <2>1. DecryptFor(card, Bound(h, card.id, file)) = Half(h, card.s, file.keys)
    <3> PICK v : v = Bound(h, card.id, file)
      OBVIOUS
    <3>1. v = [n |-> h, card |-> card.id, keys |-> file.keys]
      BY DEF Bound
    <3>2. v.n = h /\ "card" \in DOMAIN v /\ v.card = card.id /\ v.keys = file.keys
      BY ONLY <3>1
    <3> QED
      BY <1>1, <3>2 DEF DecryptFor
  <2> QED
    BY <1>1, <1>3, <1>5, <1>6, <2>1
<1>13. /\ n = e => card'.stage = 1
       /\ n = e + 1 => card'.stage = 2
       /\ n = e + 2 => card'.stage = 3
  BY <1>3, <1>5 DEF StageOf
<1>14. /\ n + 1 <= e + 3 => loc'[h] = Bound(h, card.id, file)
       /\ e + 4 <= n + 1 => loc'[h] = Half(h, mecha.peer, file.keys)
       /\ n + 1 = e + 1 => card'.stage = 1
       /\ n + 1 = e + 2 => card'.stage = 2 /\ card'.val = Bound(h, card.id, file)
       /\ n + 1 = e + 3 => card'.stage = 3 /\ card'.val = Half(h, mecha.peer, file.keys)
       /\ n + 1 # 0 /\ ~(last <= n + 1)
  <2>1. /\ n + 1 <= e + 3 => n # e + 3
        /\ e + 4 <= n + 1 => n = e + 3
        /\ n + 1 = e + 1 => n = e
        /\ n + 1 = e + 2 => n = e + 1
        /\ n + 1 = e + 3 => n = e + 2
        /\ n + 1 # 0 /\ ~(last <= n + 1)
    BY ONLY <1>1
  <2> QED
    BY <1>1, <1>9, <1>10, <1>11, <1>12, <1>13, <2>1
<1>15. file' = file /\ mecha' = mecha /\ card'.id = card.id
  BY <1>5 DEF Alone
<1>16. HalfState(u, h, e, last, n + 1)'
  BY <1>14, <1>15 DEF HalfState, Bound
<1> QED
  BY <1>5, <1>8, <1>16

(* The exchanges that open the halves go through. *)
LEMMA HalvesOpen ==
  ASSUME HInv, fn = "boot", Exchange("done"), card.auth, mecha.auth,
         NEW n \in 1 .. 16, NEW c, PrefixTurns(c), x = c[n + 1], HalvesClean(n)
  PROVE  /\ fn' = fn /\ todo' = Tail(todo) /\ mecha' = mecha /\ Alone /\ card'.auth
         /\ HalvesClean(n + 1)'
<1>1. /\ {"Kbit1", "Kbit2", "Kc1", "Kc2"} \subseteq DOMAIN loc /\ ToSet(Halves) = {"Kbit1", "Kbit2", "Kc1", "Kc2"}
  BY HalvesAre DEF HInv, TypeInv, LocalNames
<1>2. /\ HalfState(1, "Kbit1", 1, 19, n) /\ HalfState(2, "Kbit2", 5, 19, n)
      /\ HalfState(3, "Kc1", 9, 18, n) /\ HalfState(4, "Kc2", 13, 18, n)
  BY DEF HalvesClean
<1>3. /\ HalfTurns(c, "Kbit1", 1) /\ HalfTurns(c, "Kbit2", 5) /\ HalfTurns(c, "Kc1", 9) /\ HalfTurns(c, "Kc2", 13)
  BY DEF PrefixTurns
<1>4. ASSUME NEW u, NEW h \in ToSet(Halves), NEW e \in {1, 5, 9, 13}, NEW last \in {18, 19}, e <= n, n <= e + 3,
             HalfTurns(c, h, e), HalfState(u, h, e, last, n)
      PROVE  Opens(u, h, e, last, n)
  <2>1. n = e \/ n = e + 1 \/ n = e + 2 \/ n = e + 3
    BY ONLY <1>4, n \in 1 .. 16
  <2>2. /\ n = e => x = card_auth("40")
        /\ n = e + 1 => x = card_auth_write(h, "41")
        /\ n = e + 2 => x = card_auth("42")
        /\ n = e + 3 => x = card_auth_read(h, "43")
    <3>1. e + 1 + 1 = e + 2 /\ e + 2 + 1 = e + 3 /\ e + 3 + 1 = e + 4
      BY ONLY e \in {1, 5, 9, 13}
    <3> QED
      BY ONLY <1>4, <3>1, x = c[n + 1] DEF HalfTurns
  <2>3. e \in 1 .. 13
    OBVIOUS
  <2> QED
    BY <1>4, <2>2, <2>3 DEF Opens
<1>5. ASSUME NEW u, NEW h, NEW e \in {1, 5, 9, 13}, NEW last \in {18, 19}, ~(e <= n /\ n <= e + 3),
             HalfState(u, h, e, last, n), Alone, mecha' = mecha, card'.id = card.id, loc'[h] = loc[h]
      PROVE  Waits(u, h, e, last, n)
  BY <1>5 DEF Waits, Alone
<1>6. CASE n \in 1 .. 4
  <2>1. Opens(1, "Kbit1", 1, 19, n)
    BY <1>1, <1>2, <1>3, <1>4, <1>6
  <2>2. /\ fn' = fn /\ todo' = Tail(todo) /\ mecha' = mecha /\ Alone /\ card'.auth /\ card'.id = card.id
        /\ \A g \in DOMAIN loc : g # "Kbit1" => loc'[g] = loc[g]
        /\ HalfState(1, "Kbit1", 1, 19, n + 1)'
    BY <2>1, HalfOpens
  <2>3. Waits(2, "Kbit2", 5, 19, n) /\ Waits(3, "Kc1", 9, 18, n) /\ Waits(4, "Kc2", 13, 18, n)
    BY <1>1, <1>2, <1>5, <1>6, <2>2
  <2>4. HalfState(2, "Kbit2", 5, 19, n + 1)' /\ HalfState(3, "Kc1", 9, 18, n + 1)' /\ HalfState(4, "Kc2", 13, 18, n + 1)'
    BY <2>3, HalfWaits
  <2> QED
    BY <2>2, <2>4 DEF HalvesClean
<1>7. CASE n \in 5 .. 8
  <2>1. Opens(2, "Kbit2", 5, 19, n)
    BY <1>1, <1>2, <1>3, <1>4, <1>7
  <2>2. /\ fn' = fn /\ todo' = Tail(todo) /\ mecha' = mecha /\ Alone /\ card'.auth /\ card'.id = card.id
        /\ \A g \in DOMAIN loc : g # "Kbit2" => loc'[g] = loc[g]
        /\ HalfState(2, "Kbit2", 5, 19, n + 1)'
    BY <2>1, HalfOpens
  <2>3. Waits(1, "Kbit1", 1, 19, n) /\ Waits(3, "Kc1", 9, 18, n) /\ Waits(4, "Kc2", 13, 18, n)
    BY <1>1, <1>2, <1>5, <1>7, <2>2
  <2>4. HalfState(1, "Kbit1", 1, 19, n + 1)' /\ HalfState(3, "Kc1", 9, 18, n + 1)' /\ HalfState(4, "Kc2", 13, 18, n + 1)'
    BY <2>3, HalfWaits
  <2> QED
    BY <2>2, <2>4 DEF HalvesClean
<1>8. CASE n \in 9 .. 12
  <2>1. Opens(3, "Kc1", 9, 18, n)
    BY <1>1, <1>2, <1>3, <1>4, <1>8
  <2>2. /\ fn' = fn /\ todo' = Tail(todo) /\ mecha' = mecha /\ Alone /\ card'.auth /\ card'.id = card.id
        /\ \A g \in DOMAIN loc : g # "Kc1" => loc'[g] = loc[g]
        /\ HalfState(3, "Kc1", 9, 18, n + 1)'
    BY <2>1, HalfOpens
  <2>3. Waits(1, "Kbit1", 1, 19, n) /\ Waits(2, "Kbit2", 5, 19, n) /\ Waits(4, "Kc2", 13, 18, n)
    BY <1>1, <1>2, <1>5, <1>8, <2>2
  <2>4. HalfState(1, "Kbit1", 1, 19, n + 1)' /\ HalfState(2, "Kbit2", 5, 19, n + 1)' /\ HalfState(4, "Kc2", 13, 18, n + 1)'
    BY <2>3, HalfWaits
  <2> QED
    BY <2>2, <2>4 DEF HalvesClean
<1>9. CASE n \in 13 .. 16
  <2>1. Opens(4, "Kc2", 13, 18, n)
    BY <1>1, <1>2, <1>3, <1>4, <1>9
  <2>2. /\ fn' = fn /\ todo' = Tail(todo) /\ mecha' = mecha /\ Alone /\ card'.auth /\ card'.id = card.id
        /\ \A g \in DOMAIN loc : g # "Kc2" => loc'[g] = loc[g]
        /\ HalfState(4, "Kc2", 13, 18, n + 1)'
    BY <2>1, HalfOpens
  <2>3. Waits(1, "Kbit1", 1, 19, n) /\ Waits(2, "Kbit2", 5, 19, n) /\ Waits(3, "Kc1", 9, 18, n)
    BY <1>1, <1>2, <1>5, <1>9, <2>2
  <2>4. HalfState(1, "Kbit1", 1, 19, n + 1)' /\ HalfState(2, "Kbit2", 5, 19, n + 1)' /\ HalfState(3, "Kc1", 9, 18, n + 1)'
    BY <2>3, HalfWaits
  <2> QED
    BY <2>2, <2>4 DEF HalvesClean
<1> QED
  BY <1>6, <1>7, <1>8, <1>9

(* What is stored at the key places leaves the other two and the ICVPS2 alone. *)
LEMMA StoresBeside ==
  ASSUME NEW f \in Files, NEW b, Kept(b, f), NEW p, NEW q, NEW at, NEW d, d = Stored(b, at, <<p, q>>),
         at \in {KbitOffset(f), KcOffset(f)}
  PROVE  /\ Icv(b, f) => Icv(d, f)
         /\ at = KbitOffset(f) => /\ d[KbitOffset(f) + 3] = b[KbitOffset(f) + 3]
                                  /\ d[KbitOffset(f) + 4] = b[KbitOffset(f) + 4]
<1> PICK o, s, n : o = KbitOffset(f) /\ s = KELF_header_size(f) /\ n = f.units
  OBVIOUS
<1>1. o \in Nat /\ s \in Nat /\ n \in Nat /\ o + 5 <= s /\ s <= n /\ KcOffset(f) = o + 2
  BY Places
<1>2. DOMAIN b = 1 .. n
  BY DEF Kept
<1>3. DOMAIN <<p, q>> = {1, 2}
  OBVIOUS
<1>4. \A u \in 1 .. n : u - at \notin {1, 2} => d[u] = b[u]
  BY <1>2, <1>3 DEF Stored
<1>5. at = o \/ at = o + 2
  BY <1>1
<1>6. s \in 1 .. n /\ s - at \notin {1, 2}
  BY ONLY <1>1, <1>5
<1>7. at = o => o + 3 \in 1 .. n /\ o + 4 \in 1 .. n /\ (o + 3) - at \notin {1, 2} /\ (o + 4) - at \notin {1, 2}
  BY ONLY <1>1
<1>8. d[s] = b[s]
  BY ONLY <1>4, <1>6
<1>9. at = o => d[o + 3] = b[o + 3] /\ d[o + 4] = b[o + 4]
  BY ONLY <1>4, <1>7
<1>10. Icv(b, f) => Icv(d, f)
  BY <1>8 DEF Icv
<1> QED
  BY <1>9, <1>10

(* What the boot does by itself: it takes the halves from the buffer, and puts them back open. *)
LEMMA HalvesMove ==
  ASSUME HInv, fn = "boot", SelfStep, NEW n \in {0, 17, 18}, NEW c, PrefixTurns(c), x = c[n + 1], HalvesClean(n),
         Kept(buf, file), Icv(buf, file)
  PROVE  /\ fn' = fn /\ todo' = Tail(todo) /\ UNCHANGED <<card, mecha, file, due>>
         /\ Kept(buf', file) /\ Icv(buf', file) /\ HalvesClean(n + 1)'
<1>0. file \in Files /\ {"Kbit1", "Kbit2", "Kc1", "Kc2"} \subseteq DOMAIN loc /\ ToSet(Halves) = {"Kbit1", "Kbit2", "Kc1", "Kc2"}
  BY HalvesAre DEF HInv, TypeInv, LocalNames
<1>1. x.to = "self" /\ x.cmd = (CASE n = 0 -> "get_keys" [] n = 17 -> "store_kc" [] OTHER -> "store_kbit")
  <2>1. c[1] = Self("get_keys") /\ c[18] = Self("store_kc") /\ c[19] = Self("store_kbit")
    BY DEF PrefixTurns
  <2>2. \A what : Self(what).to = "self" /\ Self(what).cmd = what
    BY DEF Self, Exchanged
  <2>3. (n = 0 /\ x = c[1]) \/ (n = 17 /\ x = c[18]) \/ (n = 18 /\ x = c[19])
    OBVIOUS
  <2> QED
    BY <2>1, <2>2, <2>3
<1>2. fn' = fn /\ todo' = Tail(todo) /\ UNCHANGED <<card, mecha, file, due>>
  <2>1. x.cmd # "toolong"
    BY <1>1
  <2> QED
    BY <2>1 DEF SelfStep, Next_, devices
<1>3. /\ \A h, k : Bound(h, card.id, k)' = Bound(h, card.id, k)
  BY <1>2 DEF Bound
<1> PICK o : o = KbitOffset(file)
  OBVIOUS
<1>4. CASE n = 0
  <2>1. /\ buf[o + 1] = Bound("Kbit1", card.id, file) /\ buf[o + 2] = Bound("Kbit2", card.id, file)
        /\ buf[o + 3] = Bound("Kc1", card.id, file) /\ buf[o + 4] = Bound("Kc2", card.id, file)
    BY <1>4 DEF HalvesClean, HalfState
  <2>2. buf' = buf /\ \A h \in ToSet(Halves) : loc'[h] = buf[KeyUnit(file, CHOOSE k \in 1..4 : Halves[k] = h)]
    BY <1>0, <1>1, <1>4 DEF SelfStep
  <2>3. /\ (CHOOSE k \in 1..4 : Halves[k] = "Kbit1") = 1 /\ (CHOOSE k \in 1..4 : Halves[k] = "Kbit2") = 2
        /\ (CHOOSE k \in 1..4 : Halves[k] = "Kc1") = 3 /\ (CHOOSE k \in 1..4 : Halves[k] = "Kc2") = 4
    BY DEF Halves
  <2>4. /\ loc'["Kbit1"] = Bound("Kbit1", card.id, file) /\ loc'["Kbit2"] = Bound("Kbit2", card.id, file)
        /\ loc'["Kc1"] = Bound("Kc1", card.id, file) /\ loc'["Kc2"] = Bound("Kc2", card.id, file)
    <3>1. {"Kbit1", "Kbit2", "Kc1", "Kc2"} = ToSet(Halves)
      BY <1>0
    <3>2. /\ loc'["Kbit1"] = buf[KeyUnit(file, CHOOSE k \in 1..4 : Halves[k] = "Kbit1")]
          /\ loc'["Kbit2"] = buf[KeyUnit(file, CHOOSE k \in 1..4 : Halves[k] = "Kbit2")]
          /\ loc'["Kc1"] = buf[KeyUnit(file, CHOOSE k \in 1..4 : Halves[k] = "Kc1")]
          /\ loc'["Kc2"] = buf[KeyUnit(file, CHOOSE k \in 1..4 : Halves[k] = "Kc2")]
      BY ONLY <2>2, <3>1
    <3>4. \A k \in 1 .. 4 : KeyUnit(file, k) = KbitOffset(file) + k
      BY <1>0, KeyUnits
    <3>5. /\ KeyUnit(file, 1) = o + 1 /\ KeyUnit(file, 2) = o + 2
          /\ KeyUnit(file, 3) = o + 3 /\ KeyUnit(file, 4) = o + 4
      BY ONLY <3>4, o = KbitOffset(file)
    <3>3. /\ loc'["Kbit1"] = buf[o + 1] /\ loc'["Kbit2"] = buf[o + 2]
          /\ loc'["Kc1"] = buf[o + 3] /\ loc'["Kc2"] = buf[o + 4]
      BY ONLY <2>3, <3>2, <3>5
    <3> QED
      BY ONLY <2>1, <3>3
  <2>5. ASSUME NEW u, NEW h, NEW e \in {1, 5, 9, 13}, NEW last \in {18, 19}, loc'[h] = Bound(h, card.id, file)
        PROVE  HalfState(u, h, e, last, 1)'
    <3>1. /\ ~(e + 4 <= 1) /\ ~(last <= 1) /\ 1 # 0 /\ 1 # e + 1 /\ 1 # e + 2 /\ 1 # e + 3
      OBVIOUS
    <3>2. (loc[h] = Bound(h, card.id, file))'
      BY <1>2, <1>3, <2>5
    <3> QED
      BY <3>1, <3>2 DEF HalfState
  <2>6. HalvesClean(1)'
    BY <2>4, <2>5 DEF HalvesClean
  <2> QED
    BY <1>2, <1>4, <2>2, <2>6
<1>5. CASE n = 17
  <2>1. /\ loc["Kbit1"] = Half("Kbit1", mecha.peer, file.keys) /\ loc["Kbit2"] = Half("Kbit2", mecha.peer, file.keys)
        /\ loc["Kc1"] = Half("Kc1", mecha.peer, file.keys) /\ loc["Kc2"] = Half("Kc2", mecha.peer, file.keys)
    BY <1>5 DEF HalvesClean, HalfState
  <2>2. loc' = loc /\ buf' = Stored(buf, KcOffset(file), <<loc["Kc1"], loc["Kc2"]>>)
    BY <1>0, <1>1, <1>5, Copies DEF SelfStep, store_kc
  <2> PICK f, b, p, q, at, d : f = file /\ b = buf /\ p = loc["Kc1"] /\ q = loc["Kc2"] /\ at = KcOffset(file) /\ d = buf'
    OBVIOUS
  <2>3. f \in Files /\ Kept(b, f) /\ d = Stored(b, at, <<p, q>>) /\ at = KcOffset(f) /\ Icv(b, f)
    BY <1>0, <2>2
  <2>4. Kept(d, f) /\ d[KbitOffset(f) + 3] = p /\ d[KbitOffset(f) + 4] = q
    BY ONLY <2>3, Stores
  <2>5. Icv(d, f)
    BY ONLY <2>3, StoresBeside
  <2>6. ASSUME NEW u, NEW h, NEW e \in {1, 5, 9, 13}, NEW last \in {18, 19}, loc[h] = Half(h, mecha.peer, file.keys),
               last = 18 => buf'[o + u] = Half(h, mecha.peer, file.keys)
        PROVE  HalfState(u, h, e, last, 18)'
    <3>1. /\ ~(18 <= e + 3) /\ 18 # 0 /\ 18 # e + 1 /\ 18 # e + 2 /\ 18 # e + 3 /\ (last <= 18 => last = 18)
      OBVIOUS
    <3>2. (loc[h] = Half(h, mecha.peer, file.keys))' /\ (last = 18 => buf[KbitOffset(file) + u] = Half(h, mecha.peer, file.keys))'
      BY <1>2, <2>2, <2>6
    <3> QED
      BY <3>1, <3>2 DEF HalfState
  <2>7. buf'[o + 3] = Half("Kc1", mecha.peer, file.keys) /\ buf'[o + 4] = Half("Kc2", mecha.peer, file.keys)
    BY <2>1, <2>4
  <2>8. HalvesClean(18)'
    BY <2>1, <2>6, <2>7 DEF HalvesClean
  <2> QED
    BY <1>2, <1>5, <2>4, <2>5, <2>8
<1>6. CASE n = 18
  <2>1. /\ loc["Kbit1"] = Half("Kbit1", mecha.peer, file.keys) /\ loc["Kbit2"] = Half("Kbit2", mecha.peer, file.keys)
        /\ buf[o + 3] = Half("Kc1", mecha.peer, file.keys) /\ buf[o + 4] = Half("Kc2", mecha.peer, file.keys)
    BY <1>6 DEF HalvesClean, HalfState
  <2>2. loc' = loc /\ buf' = Stored(buf, KbitOffset(file), <<loc["Kbit1"], loc["Kbit2"]>>)
    BY <1>0, <1>1, <1>6, Copies DEF SelfStep, store_kbit
  <2> PICK f, b, p, q, at, d : f = file /\ b = buf /\ p = loc["Kbit1"] /\ q = loc["Kbit2"] /\ at = KbitOffset(file) /\ d = buf'
    OBVIOUS
  <2>3. f \in Files /\ Kept(b, f) /\ d = Stored(b, at, <<p, q>>) /\ at = KbitOffset(f) /\ Icv(b, f)
    BY <1>0, <2>2
  <2>4. Kept(d, f) /\ d[KbitOffset(f) + 1] = p /\ d[KbitOffset(f) + 2] = q
    BY ONLY <2>3, Stores
  <2>5. /\ Icv(d, f) /\ d[KbitOffset(f) + 3] = b[KbitOffset(f) + 3] /\ d[KbitOffset(f) + 4] = b[KbitOffset(f) + 4]
    BY ONLY <2>3, StoresBeside
  <2>6. ASSUME NEW u, NEW h, NEW e \in {1, 5, 9, 13}, NEW last \in {18, 19},
               buf'[o + u] = Half(h, mecha.peer, file.keys)
        PROVE  HalfState(u, h, e, last, 19)'
    <3>1. /\ ~(19 <= e + 3) /\ ~(19 <= 18) /\ 19 # 0 /\ 19 # e + 1 /\ 19 # e + 2 /\ 19 # e + 3
      OBVIOUS
    <3>2. (buf[KbitOffset(file) + u] = Half(h, mecha.peer, file.keys))'
      BY <1>2, <2>6
    <3> QED
      BY <3>1, <3>2 DEF HalfState
  <2>7. /\ buf'[o + 1] = Half("Kbit1", mecha.peer, file.keys) /\ buf'[o + 2] = Half("Kbit2", mecha.peer, file.keys)
        /\ buf'[o + 3] = Half("Kc1", mecha.peer, file.keys) /\ buf'[o + 4] = Half("Kc2", mecha.peer, file.keys)
    BY <2>1, <2>4, <2>5
  <2>8. HalvesClean(19)'
    BY <2>6, <2>7 DEF HalvesClean
  <2> QED
    BY <1>2, <1>6, <2>4, <2>5, <2>8
<1> QED
  BY <1>4, <1>5, <1>6

(* ... and the block is read back, when a file boots. *)
LEMMA ReadBlockAt ==
  ASSUME NEW from, NEW size \in Nat, NEW b, b = func_00000bfc(from, size)
  PROVE  /\ IsSeq(b) /\ Len(b) \in Nat /\ Len(b) > 0
         /\ \A k \in 1 .. Len(b) : b[k].to = "mecha" /\ b[k].get = <<>> /\ b[k].cmd \in {"93", "8E"}
<1>1. PICK n \in Nat : n = (size + 1) \div 2
  OBVIOUS
<1> DEFINE part(k) == [read_data EXCEPT !.units = Chunks(from, size)[k]]
<1>2. ASSUME NEW k PROVE part(k).to = "mecha" /\ part(k).get = <<>> /\ part(k).cmd = "8E"
  BY DEF read_data, ToMecha, Exchanged
<1> PICK s : s = [k \in 1 .. n |-> part(k)]
  OBVIOUS
<1> HIDE DEF part
<1>3. IsSeq(s) /\ Len(s) = n /\ \A k \in 1 .. n : s[k] = part(k)
  <2> DEFINE S == {part(k) : k \in 1 .. n}
  <2>1. s \in [1 .. n -> S] /\ Len(s) = n /\ \A k \in 1 .. n : s[k] = part(k)
    BY <1>1
  <2> HIDE DEF S
  <2>2. s \in Seq(S)
    BY <2>1
  <2> QED
    BY <2>1, <2>2 DEF IsSeq
<1> PICK a : a = <<mechacon_read_block_size(size)>>
  OBVIOUS
<1>4. IsSeq(a) /\ Len(a) = 1 /\ a[1].to = "mecha" /\ a[1].get = <<>> /\ a[1].cmd = "93"
  BY SeqFacts DEF mechacon_read_block_size, Numbered, ToMecha, Exchanged
<1>5. b = a \o s
  BY <1>1 DEF func_00000bfc, part
<1>6. /\ IsSeq(b) /\ Len(b) = 1 + n /\ b[1] = a[1] /\ \A k \in 1 .. n : b[1 + k] = s[k]
  <2>1. IsSeq(a) /\ IsSeq(s)
    BY <1>3, <1>4
  <2>2. /\ IsSeq(a \o s) /\ Len(a \o s) = Len(a) + Len(s)
        /\ \A j \in 1 .. Len(a) : (a \o s)[j] = a[j]
        /\ \A j \in 1 .. Len(s) : (a \o s)[Len(a) + j] = s[j]
    BY ONLY <2>1, ConcatAt
  <2> QED
    BY <1>1, <1>3, <1>4, <1>5, <2>2
<1>7. ASSUME NEW k \in 1 .. Len(b) PROVE b[k].to = "mecha" /\ b[k].get = <<>> /\ b[k].cmd \in {"93", "8E"}
  <2>1. CASE k = 1
    BY <1>4, <1>6, <2>1
  <2>2. CASE k # 1
    <3>1. k - 1 \in 1 .. n /\ 1 + (k - 1) = k
      <4>1. Len(b) = 1 + n
        BY <1>6
      <4> QED
        BY ONLY <1>1, <2>2, <4>1, k \in 1 .. Len(b)
    <3>2. b[k] = part(k - 1)
      BY <1>3, <1>6, <3>1
    <3> QED
      BY <1>2, <3>2
  <2> QED
    BY <2>1, <2>2
<1> QED
  BY <1>1, <1>6, <1>7

LEMMA BootBlockPartsAt ==
  ASSUME file \in Files, NEW i \in 1 .. Len(file.blocks), NEW from, from = BlockOffset(file, i),
         NEW size, size = file.blocks[i].size, size % 2 = 0, NEW b, b = SecrCardBootBlock(file, i)
  PROVE  /\ IsSeq(b) /\ Len(b) \in Nat /\ Len(b) > size \div 2 + 2 /\ size \div 2 \in Nat
         /\ \A k \in Nat : k < Len(b) => BlockPart(b[k + 1], from, size, k)
<1>1. from \in Nat /\ size \in Nat
  BY OffsetsWithin
<1> PICK s, r, c : s = func_00000b5c(from, size) /\ r = func_00000bfc(from, size) /\ c = size \div 2
  OBVIOUS
<1>2. /\ IsSeq(s) /\ Len(s) = c + 2 /\ c \in Nat
      /\ \A k \in 0 .. Len(s) - 1 : BlockPart(s[k + 1], from, size, k)
  BY <1>1, BlockPartsAt
<1>3. /\ IsSeq(r) /\ Len(r) \in Nat /\ Len(r) > 0
      /\ \A k \in 1 .. Len(r) : r[k].to = "mecha" /\ r[k].get = <<>> /\ r[k].cmd \in {"93", "8E"}
  BY <1>1, ReadBlockAt
<1> PICK l : l = Len(r)
  OBVIOUS
<1>4. /\ IsSeq(b) /\ Len(b) = (c + 2) + l
      /\ \A j \in 1 .. c + 2 : b[j] = s[j]
      /\ \A j \in 1 .. l : b[(c + 2) + j] = r[j]
  <2>1. IsSeq(s) /\ IsSeq(r)
    BY <1>2, <1>3
  <2>2. /\ IsSeq(s \o r) /\ Len(s \o r) = Len(s) + Len(r)
        /\ \A j \in 1 .. Len(s) : (s \o r)[j] = s[j]
        /\ \A j \in 1 .. Len(r) : (s \o r)[Len(s) + j] = r[j]
    BY ONLY <2>1, ConcatAt
  <2>3. b = s \o r /\ Len(s) = c + 2 /\ Len(r) = l
    BY <1>2 DEF SecrCardBootBlock
  <2> QED
    BY ONLY <2>2, <2>3
<1>5. ASSUME NEW k \in Nat, k < Len(b) PROVE BlockPart(b[k + 1], from, size, k)
  <2>0. l \in Nat /\ l > 0 /\ c \in Nat /\ Len(b) = (c + 2) + l
    BY <1>2, <1>3, <1>4
  <2>1. CASE k <= c + 1
    <3>1. k \in 0 .. c + 1 /\ k + 1 \in 1 .. c + 2 /\ (c + 2) - 1 = c + 1
      BY ONLY <2>0, <2>1, k \in Nat
    <3>2. b[k + 1] = s[k + 1] /\ k \in 0 .. Len(s) - 1
      BY <1>2, <1>4, <3>1
    <3> QED
      BY <1>2, <3>2
  <2>2. CASE ~(k <= c + 1)
    <3> PICK j : j = k - (c + 1)
      OBVIOUS
    <3>1. j \in 1 .. l /\ (c + 2) + j = k + 1
      BY ONLY <1>5, <2>0, <2>2, j = k - (c + 1)
    <3>a. b[k + 1] = r[j] /\ j \in 1 .. Len(r)
      BY ONLY <1>4, <3>1, l = Len(r)
    <3>2. b[k + 1].to = "mecha" /\ b[k + 1].get = <<>> /\ b[k + 1].cmd \in {"93", "8E"}
      BY ONLY <1>3, <3>a
    <3>3. k # 0 /\ k \notin 1 .. c /\ k # c + 1
      BY ONLY <2>0, <2>2, k \in Nat
    <3> QED
      BY <3>2, <3>3 DEF BlockPart
  <2> QED
    BY <2>1, <2>2
<1>6. Len(b) \in Nat /\ Len(b) > c + 2
  <2>1. l \in Nat /\ l > 0 /\ c \in Nat /\ Len(b) = (c + 2) + l
    BY <1>2, <1>3, <1>4
  <2> QED
    BY ONLY <2>1
<1> QED
  BY <1>2, <1>4, <1>5, <1>6

(* A boot when nothing has happened to it. *)
Evens(f) == \A i \in DOMAIN f.blocks : f.blocks[i].size % 2 = 0
BootHeaderClean(n) ==
    /\ todo = After(SecrCardBootHeader(file), n) \o <<Blocks(1)>>
    /\ HalvesClean(n)
    /\ \A k \in Nat : n = k + 19 => HeaderClean(1, k)
BootLoopClean(i) ==
    /\ todo = <<Blocks(i)>>
    /\ Prepared(1) /\ mecha.nth = Before(Booted(file), i)
BootBlockClean(i, n) ==
    /\ todo = After(SecrCardBootBlock(file, i), n) \o <<Blocks(i + 1)>>
    /\ BlockClean(1, BlockOffset(file, i), file.blocks[i].size, Before(Booted(file), i), n)
BootClean ==
    /\ Kept(buf, file) /\ Icv(buf, file)
    /\ \/ \E n \in Nat : n < Len(SecrCardBootHeader(file)) /\ BootHeaderClean(n)
       \/ \E i \in 1 .. Len(file.blocks) + 1 : BootLoopClean(i)
       \/ \E i \in Booted(file) : \E n \in Nat : n < Len(SecrCardBootBlock(file, i)) /\ BootBlockClean(i, n)
       \/ todo = <<>>
BootGoesOn == fn' = "boot" /\ UNCHANGED <<file, due>> /\ card'.auth /\ mecha'.auth /\ BootClean'

(* The step of its header that is next. *)
LEMMA BootHeaderNext ==
  ASSUME file \in Files, NEW n \in Nat, NEW c, c = SecrCardBootHeader(file), n < Len(c), BootHeaderClean(n)
  PROVE  /\ x = c[n + 1] /\ todo # <<>>
         /\ Tail(todo) = After(c, n + 1) \o <<Blocks(1)>>
         /\ n + 1 = Len(c) => Tail(todo) = <<Blocks(1)>>
         /\ n \in {0, 17, 18} => x.to = "self" /\ x.cmd # "block"
         /\ n \in 1 .. 16 => x.to = "card"
         /\ n >= 19 => x.to = "mecha"
<1>1. /\ IsSeq(c) /\ Len(c) \in Nat /\ HeaderChunks(file) \in Nat
      /\ PrefixTurns(c)
      /\ \A k \in Nat : k + 19 < Len(c) => HeaderPart(c[k + 20], 1, k)
  BY BootPartsAt
<1> PICK t : t = <<Blocks(1)>>
  OBVIOUS
<1>2. /\ x = c[n + 1] /\ todo # <<>> /\ Tail(todo) = After(c, n + 1) \o t
      /\ n + 1 = Len(c) => Tail(todo) = t
  <2>1. IsSeq(c) /\ IsSeq(t) /\ n \in Nat /\ n < Len(c)
    BY <1>1, SeqFacts
  <2>2. /\ After(c, n) \o t # <<>>
        /\ Head(After(c, n) \o t) = c[n + 1] /\ Tail(After(c, n) \o t) = After(c, n + 1) \o t
        /\ n + 1 = Len(c) => Tail(After(c, n) \o t) = t
    BY ONLY <2>1, FrontStep
  <2>3. todo = After(c, n) \o t
    BY DEF BootHeaderClean
  <2> QED
    BY ONLY <2>2, <2>3 DEF x
<1>3. n \in {0, 17, 18} => x.to = "self" /\ x.cmd # "block"
  <2>1. c[1] = Self("get_keys") /\ c[18] = Self("store_kc") /\ c[19] = Self("store_kbit")
    BY <1>1 DEF PrefixTurns
  <2>2. \A what : Self(what).to = "self" /\ Self(what).cmd = what
    BY DEF Self, Exchanged
  <2>3. n \in {0, 17, 18} => x \in {c[1], c[18], c[19]}
    BY <1>2
  <2> QED
    BY <2>1, <2>2, <2>3
<1>4. n \in 1 .. 16 => x.to = "card"
  <2> SUFFICES ASSUME n \in 1 .. 16 PROVE x.to = "card"
    OBVIOUS
  <2>1. \A h, e : /\ card_auth(e).to = "card" /\ card_auth_write(h, e).to = "card" /\ card_auth_read(h, e).to = "card"
    BY DEF card_auth, card_auth_write, card_auth_read, ToCard, Exchanged
  <2>2. /\ c[2].to = "card" /\ c[3].to = "card" /\ c[4].to = "card" /\ c[5].to = "card"
        /\ c[6].to = "card" /\ c[7].to = "card" /\ c[8].to = "card" /\ c[9].to = "card"
    <3>1. HalfTurns(c, "Kbit1", 1) /\ HalfTurns(c, "Kbit2", 5)
      BY <1>1 DEF PrefixTurns
    <3> QED
      BY ONLY <2>1, <3>1 DEF HalfTurns
  <2>3. /\ c[10].to = "card" /\ c[11].to = "card" /\ c[12].to = "card" /\ c[13].to = "card"
        /\ c[14].to = "card" /\ c[15].to = "card" /\ c[16].to = "card" /\ c[17].to = "card"
    <3>1. HalfTurns(c, "Kc1", 9) /\ HalfTurns(c, "Kc2", 13)
      BY <1>1 DEF PrefixTurns
    <3> QED
      BY ONLY <2>1, <3>1 DEF HalfTurns
  <2>4. n + 1 \in {2, 3, 4, 5, 6, 7, 8, 9, 10, 11, 12, 13, 14, 15, 16, 17}
    OBVIOUS
  <2>5. c[n + 1].to = "card"
    BY ONLY <2>2, <2>3, <2>4
  <2> QED
    BY <1>2, <2>5
<1>5. n >= 19 => x.to = "mecha"
  <2> SUFFICES ASSUME n >= 19 PROVE x.to = "mecha"
    OBVIOUS
  <2>1. n - 19 \in Nat /\ (n - 19) + 19 < Len(c) /\ (n - 19) + 20 = n + 1
    BY <1>1
  <2> PICK k \in Nat : k = n - 19
    BY <2>1
  <2>2. HeaderPart(x, 1, k)
    BY <1>1, <1>2, <2>1
  <2>3. k = 0 \/ k \in 1 .. HeaderChunks(file) \/ k = HeaderChunks(file) + 1 \/ k > HeaderChunks(file) + 1
    BY ONLY <1>1, k \in Nat
  <2> QED
    BY <2>2, <2>3 DEF HeaderPart, write_HD_start, write_data, pol_cal_cmplt, Numbered, ToMecha, Exchanged
<1> QED
  BY <1>2, <1>3, <1>4, <1>5

(* The boot goes on to the rest of its header, or to the loop. *)
LEMMA BootHeaderOn ==
  ASSUME file \in Files, file' = file, due' = due, fn' = "boot", card'.auth, mecha'.auth,
         NEW n \in Nat, NEW c, c = SecrCardBootHeader(file), n < Len(c),
         todo' = After(c, n + 1) \o <<Blocks(1)>>, n + 1 = Len(c) => todo' = <<Blocks(1)>>,
         Kept(buf', file), Icv(buf', file), HalvesClean(n + 1)',
         \A k \in Nat : n + 1 = k + 19 => HeaderClean(1, k)'
  PROVE  BootGoesOn
<1>1. Len(c) \in Nat /\ HeaderChunks(file) \in Nat /\ Len(c) > HeaderChunks(file) + 21
  BY BootPartsAt
<1>2. (Kept(buf, file) /\ Icv(buf, file))'
  OBVIOUS
<1>3. CASE n + 1 < Len(c)
  <2>1. BootHeaderClean(n + 1)'
    <3>1. (todo = After(SecrCardBootHeader(file), n + 1) \o <<Blocks(1)>>)'
      BY DEF Blocks
    <3>2. (\A k \in Nat : n + 1 = k + 19 => HeaderClean(1, k))'
      OBVIOUS
    <3> QED
      BY <3>1, <3>2 DEF BootHeaderClean
  <2>2. n + 1 \in Nat /\ n + 1 < Len(SecrCardBootHeader(file)')
    BY <1>3
  <2>3. BootClean'
    BY <1>2, <2>1, <2>2 DEF BootClean
  <2> QED
    BY <2>3 DEF BootGoesOn
<1>4. CASE ~(n + 1 < Len(c))
  <2>1. n + 1 = Len(c)
    BY ONLY <1>1, <1>4, n \in Nat, n < Len(c)
  <2> PICK k : k = n - 18
    OBVIOUS
  <2>2. k \in Nat /\ n + 1 = k + 19 /\ k > HeaderChunks(file) + 1 /\ k >= 1
    BY ONLY <1>1, <2>1, n \in Nat, k = n - 18
  <2>3. HeaderClean(1, k)'
    BY <2>2
  <2>4. mecha'.nth = 0 /\ mecha'.mode = 1 /\ mecha'.op = "header" /\ mecha'.calc = "ok"
    <3>1. HeaderChunks(file') = HeaderChunks(file)
      OBVIOUS
    <3> QED
      BY <2>2, <2>3, <3>1 DEF HeaderClean
  <2>5. Before(Booted(file), 1) = 0 /\ 1 \in 1 .. Len(file.blocks) + 1
    <3> PICK m, S, mode : m = Len(file.blocks) /\ S = Booted(file) /\ mode = 1
      OBVIOUS
    <3>1. m \in Nat /\ S \in SUBSET (1 .. m)
      <4>1. Len(file.blocks) \in Nat /\ Marked(mode) \in SUBSET (1 .. Len(file.blocks))
        BY MarkedIn
      <4> QED
        BY <4>1 DEF Marked
    <3>2. Before(S, 1) = 0
      BY ONLY <3>1, Counting
    <3> QED
      BY <3>1, <3>2
  <2>6. BootLoopClean(1)'
    <3>1. (todo = <<Blocks(1)>>)'
      BY <2>1 DEF Blocks
    <3>2. (mecha.nth = Before(Booted(file), 1))'
      BY <2>4, <2>5
    <3> QED
      BY <2>4, <3>1, <3>2 DEF BootLoopClean, Prepared
  <2>7. (1 \in 1 .. Len(file.blocks) + 1)'
    BY <2>5
  <2>8. BootClean'
    BY <1>2, <2>6, <2>7 DEF BootClean
  <2> QED
    BY <2>8 DEF BootGoesOn
<1> QED
  BY <1>3, <1>4

(* The exchanges of its header go through. *)
LEMMA BootHeaderGoes ==
  ASSUME HInv, fn = "boot", Exchange("done"), card.auth, mecha.auth, Kept(buf, file), Icv(buf, file),
         NEW n \in Nat, n < Len(SecrCardBootHeader(file)), BootHeaderClean(n)
  PROVE  BootGoesOn
<1> PICK c, m : c = SecrCardBootHeader(file) /\ m = HeaderChunks(file)
  OBVIOUS
<1>0. file \in Files /\ x.to \in {"card", "mecha"} /\ HalvesClean(n)
  BY ExchangeStep DEF HInv, TypeInv, BootHeaderClean
<1>1. /\ IsSeq(c) /\ Len(c) \in Nat /\ Len(c) > m + 21 /\ m \in Nat /\ PrefixTurns(c) /\ n < Len(c)
      /\ \A k \in Nat : k + 19 < Len(c) => HeaderPart(c[k + 20], 1, k)
  BY <1>0, BootPartsAt
<1>2. /\ x = c[n + 1] /\ Tail(todo) = After(c, n + 1) \o <<Blocks(1)>>
      /\ n + 1 = Len(c) => Tail(todo) = <<Blocks(1)>>
      /\ n \notin {0, 17, 18}
  BY <1>0, BootHeaderNext
<1>3. n \in 1 .. 16 \/ n >= 19
  BY ONLY <1>2, n \in Nat
<1>4. CASE n \in 1 .. 16
  <2>1. /\ fn' = fn /\ todo' = Tail(todo) /\ mecha' = mecha /\ Alone /\ card'.auth /\ HalvesClean(n + 1)'
    BY <1>0, <1>1, <1>2, <1>4, HalvesOpen
  <2>2. file' = file /\ due' = due /\ Kept(buf', file) /\ Icv(buf', file) /\ mecha'.auth /\ fn' = "boot"
    BY <2>1 DEF Alone
  <2>3. \A k \in Nat : n + 1 # k + 19
    BY ONLY <1>4
  <2> QED
    BY <1>0, <1>1, <1>2, <2>1, <2>2, <2>3, BootHeaderOn
<1>5. CASE n >= 19
  <2> PICK k : k = n - 19
    OBVIOUS
  <2>1. k \in Nat /\ n = k + 19 /\ n + 1 = k + 20 /\ k + 19 < Len(c)
    BY ONLY <1>1, <1>5, n \in Nat, k = n - 19
  <2>2. HeaderPart(x, 1, k) /\ HeaderClean(1, k)
    BY <1>1, <1>2, <2>1 DEF BootHeaderClean
  <2>3. /\ 18 <= n /\ 19 <= n
    BY <1>5
  <2>4. Fine(1)
    <3>1. /\ buf[KbitOffset(file) + 1] = Half(Halves[1], mecha.peer, file.keys)
          /\ buf[KbitOffset(file) + 2] = Half(Halves[2], mecha.peer, file.keys)
          /\ buf[KbitOffset(file) + 3] = Half(Halves[3], mecha.peer, file.keys)
          /\ buf[KbitOffset(file) + 4] = Half(Halves[4], mecha.peer, file.keys)
      BY <1>0, <2>3 DEF HalvesClean, HalfState, Halves
    <3>2. \A u \in 1 .. 4 : buf[KbitOffset(file) + u] = Half(Halves[u], mecha.peer, file.keys)
      <4>1. \A u \in 1 .. 4 : u = 1 \/ u = 2 \/ u = 3 \/ u = 4
        OBVIOUS
      <4> QED
        BY ONLY <3>1, <4>1
    <3> QED
      BY <3>2 DEF Fine
  <2>5. /\ fn' = fn /\ todo' = Tail(todo) /\ card' = card /\ Alone /\ mecha'.auth /\ mecha'.peer = mecha.peer
        /\ HeaderClean(1, k + 1)'
    <3> PICK mode \in {1, 2} : mode = 1
      OBVIOUS
    <3>1. HeaderPart(x, mode, k) /\ HeaderClean(mode, k) /\ Fine(mode)
      BY <2>2, <2>4
    <3>2. /\ fn' = fn /\ todo' = Tail(todo) /\ card' = card /\ Alone /\ mecha'.auth /\ mecha'.peer = mecha.peer
          /\ HeaderClean(mode, k + 1)'
      BY <2>1, <3>1, HeaderWorks
    <3> QED
      BY <3>2
  <2>6. file' = file /\ due' = due /\ buf' = buf /\ Kept(buf', file) /\ Icv(buf', file) /\ fn' = "boot" /\ card'.auth
    BY <2>5 DEF Alone
  <2>7. HalvesClean(n + 1)'
    <3>1. ASSUME NEW u, NEW h, NEW e \in {1, 5, 9, 13}, NEW last \in {18, 19}, HalfState(u, h, e, last, n)
          PROVE  HalfState(u, h, e, last, n + 1)'
      <4>1. /\ ~(n + 1 <= e + 3) /\ ~(n + 1 <= 18) /\ n + 1 # 0 /\ n + 1 # e + 1 /\ n + 1 # e + 2 /\ n + 1 # e + 3
            /\ last <= n
        BY ONLY <1>5, e \in {1, 5, 9, 13}, last \in {18, 19}, n \in Nat
      <4>2. (buf[KbitOffset(file) + u] = Half(h, mecha.peer, file.keys))'
        <5>1. buf[KbitOffset(file) + u] = Half(h, mecha.peer, file.keys)
          BY <3>1, <4>1 DEF HalfState
        <5> QED
          BY <2>5, <2>6, <5>1
      <4> QED
        BY <4>1, <4>2 DEF HalfState
    <3> QED
      BY <1>0, <3>1 DEF HalvesClean
  <2>8. \A j \in Nat : n + 1 = j + 19 => HeaderClean(1, j)'
    <3>1. \A j \in Nat : n + 1 = j + 19 => j = k + 1
      BY ONLY <2>1
    <3> QED
      BY <2>5, <3>1
  <2> QED
    BY <1>0, <1>1, <1>2, <2>5, <2>6, <2>7, <2>8, BootHeaderOn
<1> QED
  BY <1>3, <1>4, <1>5

(* The exchanges for a block go through. *)
LEMMA BootBlockGoes ==
  ASSUME HInv, fn = "boot", Exchange("done"), card.auth, mecha.auth, Evens(file), Kept(buf, file), Icv(buf, file),
         NEW i \in Booted(file), NEW n \in Nat, n < Len(SecrCardBootBlock(file, i)), BootBlockClean(i, n)
  PROVE  BootGoesOn
<1> PICK b, t, from, size, nth, c : /\ b = SecrCardBootBlock(file, i) /\ t = <<Blocks(i + 1)>> /\ from = BlockOffset(file, i)
                                 /\ size = file.blocks[i].size /\ nth = Before(Booted(file), i) /\ c = size \div 2
  OBVIOUS
<1>0. file \in Files /\ i \in 1 .. Len(file.blocks) /\ size % 2 = 0 /\ n < Len(b)
  <2>1. file \in Files
    BY DEF HInv, TypeInv
  <2> QED
    BY <2>1, OffsetsAre DEF Booted, Evens
<1>1. /\ IsSeq(b) /\ Len(b) \in Nat /\ Len(b) > c + 2 /\ c \in Nat
      /\ \A k \in Nat : k < Len(b) => BlockPart(b[k + 1], from, size, k)
  BY <1>0, BootBlockPartsAt
<1>2. /\ x = b[n + 1] /\ Tail(todo) = After(b, n + 1) \o t
      /\ n + 1 = Len(b) => Tail(todo) = t
  <2>1. IsSeq(b) /\ IsSeq(t) /\ n \in Nat /\ n < Len(b)
    BY <1>0, <1>1, SeqFacts
  <2>2. /\ Head(After(b, n) \o t) = b[n + 1] /\ Tail(After(b, n) \o t) = After(b, n + 1) \o t
        /\ n + 1 = Len(b) => Tail(After(b, n) \o t) = t
    BY ONLY <2>1, FrontStep
  <2>3. todo = After(b, n) \o t
    BY DEF BootBlockClean
  <2> QED
    BY ONLY <2>2, <2>3 DEF x
<1>3. BlockPart(x, from, size, n) /\ BlockClean(1, from, size, nth, n)
  BY <1>0, <1>1, <1>2 DEF BootBlockClean
<1>4. /\ fn' = fn /\ todo' = Tail(todo) /\ card' = card /\ Alone /\ mecha'.auth /\ BlockClean(1, from, size, nth, n + 1)'
  <2> PICK mode \in {1, 2} : mode = 1
    OBVIOUS
  <2>1. i \in Marked(mode) /\ nth = Before(Marked(mode), i) /\ BlockClean(mode, from, size, nth, n)
    BY <1>3 DEF Marked
  <2>2. /\ fn' = fn /\ todo' = Tail(todo) /\ card' = card /\ Alone /\ (mecha'.auth <=> mecha.auth) /\ BlockClean(mode, from, size, nth, n + 1)'
    BY <1>0, <1>3, <2>1, BlockWorks
  <2> QED
    BY <2>2
<1>5. file' = file /\ due' = due /\ (Kept(buf, file) /\ Icv(buf, file))' /\ fn' = "boot" /\ card'.auth
  BY <1>4 DEF Alone
<1>6. CASE n + 1 < Len(b)
  <2>1. /\ from = BlockOffset(file, i)' /\ size = (file.blocks[i].size)' /\ nth = Before(Booted(file), i)'
        /\ b = SecrCardBootBlock(file, i)'
    BY <1>5
  <2>2. BlockClean(1, BlockOffset(file, i), file.blocks[i].size, Before(Booted(file), i), n + 1)'
    BY <1>4, <2>1
  <2>3. BootBlockClean(i, n + 1)'
    <3>1. (todo = After(SecrCardBootBlock(file, i), n + 1) \o <<Blocks(i + 1)>>)'
      BY <1>2, <1>4, <2>1 DEF Blocks
    <3> QED
      BY ONLY <2>2, <3>1 DEF BootBlockClean
  <2>4. n + 1 \in Nat /\ n + 1 < Len(SecrCardBootBlock(file, i)') /\ i \in Booted(file)'
    BY <1>5, <1>6
  <2>5. BootClean'
    BY <1>5, <2>3, <2>4 DEF BootClean
  <2> QED
    BY <1>4, <1>5, <2>5 DEF BootGoesOn
<1>7. CASE ~(n + 1 < Len(b))
  <2>1. n + 1 = Len(b) /\ n + 1 > c + 1 /\ n + 1 # 0
    BY ONLY <1>0, <1>1, <1>7, n \in Nat
  <2>2. mecha'.mode = 1 /\ mecha'.op = "block" /\ mecha'.calc = "ok" /\ mecha'.nth = nth + 1
    BY <1>4, <2>1 DEF BlockClean
  <2>3. Before(Booted(file), i + 1) = nth + 1 /\ i + 1 \in 1 .. Len(file.blocks) + 1
    <3> PICK m, S, mode : m = Len(file.blocks) /\ S = Booted(file) /\ mode = 1
      OBVIOUS
    <3>3. m \in Nat /\ S \in SUBSET (1 .. m) /\ i \in S
      <4>1. Len(file.blocks) \in Nat /\ Marked(mode) \in SUBSET (1 .. Len(file.blocks))
        BY <1>0, MarkedIn
      <4> QED
        BY <4>1 DEF Marked
    <3>4. Before(S, i + 1) = Before(S, i) + 1
      BY ONLY <3>3, Counting
    <3>5. i + 1 \in 1 .. m + 1
      BY ONLY <3>3
    <3> QED
      BY <3>4, <3>5
  <2>4. BootLoopClean(i + 1)'
    <3>1. (todo = <<Blocks(i + 1)>>)'
      BY <1>2, <1>4, <2>1 DEF Blocks
    <3>2. (mecha.nth = Before(Booted(file), i + 1))'
      BY <1>5, <2>2, <2>3
    <3> QED
      BY <2>2, <3>1, <3>2 DEF BootLoopClean, Prepared
  <2>5. (i + 1 \in 1 .. Len(file.blocks) + 1)'
    BY <1>5, <2>3
  <2>6. BootClean'
    BY <1>5, <2>4, <2>5 DEF BootClean
  <2> QED
    BY <1>4, <1>5, <2>6 DEF BootGoesOn
<1> QED
  BY <1>6, <1>7

LEMMA ConcatNone == ASSUME NEW s, IsSeq(s) PROVE s \o <<>> = s
<1>1. PICK S : s \in Seq(S)
  BY DEF IsSeq
<1> QED
  BY ONLY <1>1

(* The step for a block that is next. *)
LEMMA BootBlockNext ==
  ASSUME file \in Files, Evens(file), NEW i \in Booted(file), NEW n \in Nat, n < Len(SecrCardBootBlock(file, i)),
         BootBlockClean(i, n)
  PROVE  x.to = "mecha"
<1> PICK b, t, from, size : /\ b = SecrCardBootBlock(file, i) /\ t = <<Blocks(i + 1)>> /\ from = BlockOffset(file, i)
                         /\ size = file.blocks[i].size
  OBVIOUS
<1>0. i \in 1 .. Len(file.blocks) /\ size % 2 = 0 /\ n < Len(b)
  BY OffsetsAre DEF Booted, Evens
<1>1. IsSeq(b) /\ \A k \in Nat : k < Len(b) => BlockPart(b[k + 1], from, size, k)
  BY <1>0, BootBlockPartsAt
<1>2. x = b[n + 1]
  <2>1. IsSeq(b) /\ IsSeq(t) /\ n \in Nat /\ n < Len(b)
    BY <1>0, <1>1, SeqFacts
  <2>2. Head(After(b, n) \o t) = b[n + 1]
    BY ONLY <2>1, FrontStep
  <2>3. todo = After(b, n) \o t
    BY DEF BootBlockClean
  <2> QED
    BY ONLY <2>2, <2>3 DEF x
<1>3. BlockPart(x, from, size, n)
  BY <1>0, <1>1, <1>2
<1> QED
  BY <1>3 DEF BlockPart

LEMMA BootLoopNext ==
  ASSUME NEW i, BootLoopClean(i)
  PROVE  x = Blocks(i) /\ Tail(todo) = <<>>
<1> PICK e : e = Blocks(i)
  OBVIOUS
<1>1. todo = <<e>>
  BY DEF BootLoopClean
<1>2. Head(<<e>>) = e /\ Tail(<<e>>) = <<>>
  OBVIOUS
<1> QED
  BY <1>1, <1>2 DEF x

(* Before the header goes to the MECHACON, what is not the card's turn is the IOP's own. *)
LEMMA SelfPlaces == ASSUME NEW n \in Nat, n \notin 1 .. 16, ~(n >= 19) PROVE n \in {0, 17, 18}
  OBVIOUS

(* What the iop does by itself: a boot calls nobody. *)
LEMMA BootInnerGoes ==
  ASSUME HInv, fn = "boot", card.auth, mecha.auth, Evens(file), BootClean, RpcStep(TRUE) \/ SelfStep
  PROVE  BootGoesOn
<1>1. /\ todo # <<>> /\ x.to \in {"rpc", "self"} /\ file \in Files
      /\ RpcStep(TRUE) => x.to = "rpc"
      /\ SelfStep => x.to = "self" /\ x.cmd # "block"
  BY DEF RpcStep, SelfStep, HInv, TypeInv
<1>2. Kept(buf, file) /\ Icv(buf, file)
  BY DEF BootClean
<1>3. ASSUME NEW n \in Nat, n < Len(SecrCardBootHeader(file)), BootHeaderClean(n) PROVE BootGoesOn
  <2> PICK c, m : c = SecrCardBootHeader(file) /\ m = HeaderChunks(file)
    OBVIOUS
  <2>0. n < Len(c) /\ HalvesClean(n)
    BY <1>3 DEF BootHeaderClean
  <2>1. /\ x = c[n + 1] /\ Tail(todo) = After(c, n + 1) \o <<Blocks(1)>>
        /\ n + 1 = Len(c) => Tail(todo) = <<Blocks(1)>>
        /\ n \in {0, 17, 18} => x.to = "self"
        /\ n \notin 1 .. 16 /\ ~(n >= 19)
    BY <1>1, <1>3, BootHeaderNext
  <2>2. n \in {0, 17, 18}
    BY <2>1, SelfPlaces
  <2>3. PrefixTurns(c) /\ Len(c) \in Nat /\ Len(c) > m + 21 /\ m \in Nat
    BY <1>1, BootPartsAt
  <2>4. SelfStep
    BY <1>1, <2>1, <2>2
  <2>5. /\ fn' = fn /\ todo' = Tail(todo) /\ UNCHANGED <<card, mecha, file, due>>
        /\ Kept(buf', file) /\ Icv(buf', file) /\ HalvesClean(n + 1)'
    BY <1>2, <2>0, <2>1, <2>2, <2>3, <2>4, HalvesMove
  <2>6. ASSUME NEW k \in Nat, n + 1 = k + 19 PROVE HeaderClean(1, k)'
    <3>1. k = 0
      BY ONLY <2>2, <2>6
    <3>2. 0 \notin 1 .. m /\ 0 # m + 1 /\ ~(0 > m + 1) /\ ~(0 >= 1)
      BY ONLY <2>3
    <3>3. HeaderChunks(file)' = m
      BY <2>5
    <3>4. HeaderClean(1, 0)'
      BY <3>2, <3>3 DEF HeaderClean
    <3> QED
      BY <3>1, <3>4
  <2>7. card'.auth /\ mecha'.auth /\ fn' = "boot" /\ file' = file /\ due' = due
    BY <2>5
  <2> QED
    BY <1>1, <2>0, <2>1, <2>5, <2>6, <2>7, BootHeaderOn
<1>4. ASSUME NEW i, BootLoopClean(i) PROVE FALSE
  <2>1. x = Blocks(i)
    BY <1>4, BootLoopNext
  <2>2. x.to = "self" /\ x.cmd = "block"
    BY <2>1 DEF Blocks, Self, Exchanged
  <2> QED
    BY <1>1, <2>2
<1>5. ASSUME NEW i \in Booted(file), NEW n \in Nat, n < Len(SecrCardBootBlock(file, i)), BootBlockClean(i, n) PROVE FALSE
  BY <1>1, <1>5, BootBlockNext
<1> QED
  BY <1>1, <1>3, <1>4, <1>5 DEF BootClean

(* The loop comes to the next block, or to its end. *)
LEMMA BootLoopGoes ==
  ASSUME HInv, fn = "boot", card.auth, mecha.auth, Evens(file), BootClean, NextBlock
  PROVE  BootGoesOn
<1>1. /\ todo # <<>> /\ x.to = "self" /\ x.cmd = "block" /\ UNCHANGED <<card, mecha, file, buf, fn, due>>
      /\ file \in Files
  BY DEF NextBlock, devices, fileVars, HInv, TypeInv
<1>2. Kept(buf, file) /\ Icv(buf, file) /\ (Kept(buf, file) /\ Icv(buf, file))'
  BY <1>1 DEF BootClean
<1> PICK m, S : m = Len(file.blocks) /\ S = Booted(file)
  OBVIOUS
<1>3. PICK i \in 1 .. Len(file.blocks) + 1 : BootLoopClean(i)
  <2>1. ASSUME NEW n \in Nat, n < Len(SecrCardBootHeader(file)), BootHeaderClean(n) PROVE FALSE
    <3>1. /\ n \in {0, 17, 18} => x.cmd # "block"
          /\ n \notin 1 .. 16 /\ ~(n >= 19)
      BY <1>1, <2>1, BootHeaderNext
    <3>2. n \in {0, 17, 18}
      BY <3>1, SelfPlaces
    <3> QED
      BY <1>1, <3>1, <3>2
  <2>2. ASSUME NEW j \in Booted(file), NEW n \in Nat, n < Len(SecrCardBootBlock(file, j)), BootBlockClean(j, n) PROVE FALSE
    BY <1>1, <2>2, BootBlockNext
  <2> QED
    BY <1>1, <2>1, <2>2 DEF BootClean
<1>4. x = Blocks(i) /\ Tail(todo) = <<>> /\ x.arg[1] = i /\ Prepared(1) /\ mecha.nth = Before(S, i)
  <2>1. x = Blocks(i) /\ Tail(todo) = <<>>
    BY <1>3, BootLoopNext
  <2> QED
    BY <1>3, <2>1 DEF Blocks, Self, Exchanged, BootLoopClean
<1>5. m \in Nat /\ DOMAIN file.blocks = 1 .. m /\ S \in SUBSET (1 .. m) /\ i \in 1 .. m + 1
  <2>1. Len(file.blocks) \in Nat /\ DOMAIN file.blocks = 1 .. Len(file.blocks)
    BY <1>1, OffsetsAre
  <2> QED
    BY <2>1 DEF Booted
<1>6. todo' = (IF i \in 1 .. m THEN (IF i \in S THEN SecrCardBootBlock(file, i) ELSE <<>>) \o <<Blocks(i + 1)>> ELSE <<>>) \o <<>>
  BY <1>4, <1>5 DEF NextBlock, BlockCalls
<1> PICK a : a = <<Blocks(i + 1)>>
  OBVIOUS
<1>7. IsSeq(a) /\ IsSeq(<<>>)
  BY SeqFacts
<1>8. CASE i \in S
  <2> PICK b, size, nth, c : b = SecrCardBootBlock(file, i) /\ size = file.blocks[i].size /\ nth = Before(Booted(file), i) /\ c = size \div 2
    OBVIOUS
  <2>1. size % 2 = 0 /\ i \in 1 .. m
    BY <1>5, <1>8 DEF Evens
  <2>2. IsSeq(b) /\ Len(b) \in Nat /\ Len(b) > c + 2 /\ c \in Nat
    BY <1>1, <2>1, BootBlockPartsAt
  <2>3. todo' = b \o a
    <3>1. IsSeq(b \o a)
      BY <1>7, <2>2, SeqFacts
    <3>2. todo' = (b \o a) \o <<>>
      BY <1>6, <1>8, <2>1
    <3> QED
      BY <3>1, <3>2, ConcatNone
  <2>4. After(b, 0) = b
    BY <2>2, Fronts
  <2>5. BlockClean(1, BlockOffset(file, i), file.blocks[i].size, Before(Booted(file), i), 0)'
    <3>2. 0 \notin 1 .. size \div 2 /\ 0 # size \div 2 + 1 /\ ~(0 > size \div 2 + 1)
      BY ONLY <2>2, c = size \div 2
    <3>3. mecha'.mode = 1 /\ mecha'.op \in {"header", "block"} /\ mecha'.calc = "ok" /\ mecha'.nth = nth
      BY <1>1, <1>4 DEF Prepared
    <3>4. BlockClean(1, BlockOffset(file, i), size, nth, 0)'
      BY <3>2, <3>3 DEF BlockClean
    <3> QED
      BY <1>1, <3>4
  <2>6. BootBlockClean(i, 0)'
    <3>1. (todo = After(SecrCardBootBlock(file, i), 0) \o <<Blocks(i + 1)>>)'
      BY <1>1, <2>3, <2>4 DEF Blocks
    <3> QED
      BY <2>5, <3>1 DEF BootBlockClean
  <2>7. i \in Booted(file)' /\ 0 < Len(SecrCardBootBlock(file, i)')
    BY <1>1, <1>8, <2>2
  <2>8. BootClean'
    BY <1>2, <2>6, <2>7 DEF BootClean
  <2> QED
    BY <1>1, <2>8 DEF BootGoesOn
<1>9. CASE i \in 1 .. m /\ i \notin S
  <2>1. todo' = a
    <3>1. todo' = (<<>> \o a) \o <<>>
      BY <1>6, <1>9
    <3>2. <<>> \o a = a /\ a \o <<>> = a
      BY <1>7, ConcatThrice, ConcatNone
    <3> QED
      BY <3>1, <3>2
  <2>2. Before(S, i + 1) = Before(S, i)
    BY ONLY <1>5, <1>9, Counting
  <2>3. BootLoopClean(i + 1)'
    <3>1. (todo = <<Blocks(i + 1)>>)'
      BY <2>1 DEF Blocks
    <3>2. Prepared(1)' /\ (mecha.nth = Before(Booted(file), i + 1))'
      BY <1>1, <1>4, <2>2 DEF Prepared
    <3> QED
      BY <3>1, <3>2 DEF BootLoopClean
  <2>4. (i + 1 \in 1 .. Len(file.blocks) + 1)'
    <3>1. i + 1 \in 1 .. m + 1
      BY ONLY <1>5, <1>9
    <3> QED
      BY <1>1, <3>1
  <2>5. BootClean'
    BY <1>2, <2>3, <2>4 DEF BootClean
  <2> QED
    BY <1>1, <2>5 DEF BootGoesOn
<1>10. CASE i \notin 1 .. m
  <2>1. todo' = <<>>
    <3>1. todo' = <<>> \o <<>>
      BY <1>6, <1>10
    <3> QED
      BY <1>7, <3>1, ConcatNone
  <2>2. BootClean'
    BY <1>2, <2>1 DEF BootClean
  <2> QED
    BY <1>1, <2>2 DEF BootGoesOn
<1> QED
  BY <1>8, <1>9, <1>10

(* What is left of a script. *)
LEMMA AfterLen ==
  ASSUME NEW s, IsSeq(s), NEW n \in Nat, n <= Len(s)
  PROVE  IsSeq(After(s, n)) /\ Len(After(s, n)) = Len(s) - n
<1>1. PICK S : s \in Seq(S)
  BY DEF IsSeq
<1> PICK a : a = Len(s)
  OBVIOUS
<1>2. a \in Nat /\ n \in Nat /\ n <= a
  BY <1>1
<1>3. \A i \in n + 1 .. a : i \in 1 .. a
  BY ONLY <1>2
<1>4. \A i \in n + 1 .. a : s[i] \in S
  BY <1>1, <1>3
<1>5. n + 1 \in Int /\ a \in Int
  BY ONLY <1>2
<1>6. /\ SubSeq(s, n + 1, a) \in Seq(S)
      /\ Len(SubSeq(s, n + 1, a)) = (IF n + 1 <= a THEN a - (n + 1) + 1 ELSE 0)
  BY ONLY <1>4, <1>5, SubSeqProperties
<1>7. (IF n + 1 <= a THEN a - (n + 1) + 1 ELSE 0) = a - n
  BY ONLY <1>2
<1> QED
  BY <1>6, <1>7 DEF After, IsSeq

(* A script that goes on with a long one is not at its last step, nor at the one before it. *)
LEMMA AfterLong ==
  ASSUME NEW s, NEW t, IsSeq(s), IsSeq(t), NEW n \in Nat, n < Len(s), Len(t) > 2
  PROVE  Len(After(s, n) \o t) # 1 /\ Len(Tail(After(s, n) \o t)) # 1
<1>1. Len(s) \in Nat /\ Len(t) \in Nat
  BY Fronts
<1>2. ASSUME NEW m \in Nat, m <= Len(s) PROVE Len(After(s, m) \o t) # 1
  <2> PICK a : a = After(s, m)
    OBVIOUS
  <2>1. IsSeq(a) /\ IsSeq(t)
    BY <1>2, AfterLen
  <2>2. Len(a) \in Nat /\ Len(a \o t) = Len(a) + Len(t)
    BY ONLY <2>1, ConcatAt
  <2> PICK p, q : p = Len(a) /\ q = Len(t)
    OBVIOUS
  <2>3. p \in Nat /\ q \in Nat /\ q > 2 /\ Len(a \o t) = p + q
    BY <1>1, <2>2
  <2>4. Len(a \o t) # 1
    BY ONLY <2>3
  <2> QED
    BY <2>4
<1>3. n <= Len(s) /\ n + 1 \in Nat /\ n + 1 <= Len(s)
  BY <1>1
<1>4. Tail(After(s, n) \o t) = After(s, n + 1) \o t
  BY FrontStep
<1> QED
  BY <1>2, <1>3, <1>4

(* What is left of a signing before the keys is long. *)
LEMMA LoopLong ==
  ASSUME NEW i
  PROVE  IsSeq(Loop(i)) /\ Len(Loop(i)) > 2 /\ Len(Loop(i)) \in Nat
<1> PICK k, a : k = SecrDownloadKeys(file) /\ a = <<Blocks(i)>>
  OBVIOUS
<1>1. IsSeq(k) /\ IsSeq(a) /\ Len(a) = 1
  BY KeyScript, SeqFacts
<1>2. Len(k) \in {24, 27}
  BY KeysAre DEF KeysStand
<1>3. Len(a \o k) = Len(a) + Len(k)
  BY ONLY <1>1, ConcatAt
<1>4. Len(a \o k) > 2 /\ Len(a \o k) \in Nat
  <2> PICK p, q, r : p = Len(a) /\ q = Len(k) /\ r = Len(a \o k)
    OBVIOUS
  <2>1. p = 1 /\ q \in {24, 27} /\ r = p + q
    BY <1>1, <1>2, <1>3
  <2>2. r > 2 /\ r \in Nat
    BY ONLY <2>1
  <2> QED
    BY <2>2
<1> QED
  BY <1>4, LoopIs DEF Loop

(* So that the last step of a signing, and the one before it, are steps for the keys. *)
LEMMA LastIsKeys ==
  ASSUME HInv, SignAt, Len(todo) = 1 \/ Len(Tail(todo)) = 1, ~(x.to = "self" /\ x.cmd = "block")
  PROVE  \E n \in 0 .. KeyCount(file) : KeysAt(n)
<1>1. ASSUME NEW n \in Nat, n < Len(SecrDownloadHeader(file)), HeaderAt(n) PROVE FALSE
  <2> PICK h, t : h = SecrDownloadHeader(file) /\ t = Loop(1)
    OBVIOUS
  <2>1. IsSeq(h) /\ IsSeq(t) /\ n \in Nat /\ n < Len(h) /\ Len(t) > 2
    BY <1>1, SignHeaderAt, LoopLong DEF HInv, TypeInv
  <2>2. Len(After(h, n) \o t) # 1 /\ Len(Tail(After(h, n) \o t)) # 1
    BY ONLY <2>1, AfterLong
  <2>3. todo = After(h, n) \o t
    BY <1>1 DEF HeaderAt
  <2> QED
    BY <2>2, <2>3
<1>2. ASSUME NEW i \in 1 .. Len(file.blocks) + 1, LoopAt(i) PROVE FALSE
  <2>1. x = Blocks(i)
    BY <1>2, LoopIs DEF LoopAt, x
  <2> QED
    BY <2>1 DEF Blocks, Self, Exchanged
<1>3. ASSUME NEW i \in Signed(file), NEW n \in Nat, n < Len(SecrDownloadBlock(file, i)), BlockAt(i, n) PROVE FALSE
  <2> PICK b, t : b = SecrDownloadBlock(file, i) /\ t = Loop(i + 1)
    OBVIOUS
  <2>1. i \in DOMAIN file.blocks /\ file \in Files
    BY DEF HInv, TypeInv, Signed
  <2>2. IsSeq(b) /\ IsSeq(t) /\ n \in Nat /\ n < Len(b) /\ Len(t) > 2
    BY <1>3, <2>1, SignBlockAt, LoopLong
  <2>3. Len(After(b, n) \o t) # 1 /\ Len(Tail(After(b, n) \o t)) # 1
    BY ONLY <2>2, AfterLong
  <2>4. todo = After(b, n) \o t
    BY <1>3 DEF BlockAt
  <2> QED
    BY <2>3, <2>4
<1> QED
  BY <1>1, <1>2, <1>3 DEF SignAt

(* Every file signed, and the one being signed, holds the ICVPS2 of the MECHACON or its own. *)
IcvInv ==
    /\ signed.card # "none" => Icv(signed.buf, signed.file)
    /\ fn = "sign" => Icv(buf, file) /\ (file.icvps2 /\ Len(todo) = 1 => loc["icvps2"].n = "icvps2")

(* Before the last step stands the exchange that gets it. *)
LEMMA BeforeLast ==
  ASSUME HInv, KInv, fn = "sign", file.icvps2, todo # <<>>, Len(Tail(todo)) = 1, ~(x.to = "self" /\ x.cmd = "block")
  PROVE  x.to = "mecha" /\ x.cmd = "98" /\ x.get = <<"icvps2">>
<1>1. SignAt
  BY DEF KInv, SignInv
<1>2. PICK n \in 0 .. KeyCount(file) : KeysAt(n)
  BY <1>1, LastIsKeys
<1> PICK k : k = SecrDownloadKeys(file)
  OBVIOUS
<1>3. /\ IsSeq(k) /\ Len(k) = KeyCount(file) /\ n \in Nat
      /\ n < Len(k) /\ n + 1 \in 1 .. Len(k) /\ x = k[n + 1] /\ Tail(todo) = After(k, n + 1)
  <2>1. todo = After(k, n)
    BY <1>2 DEF KeysAt
  <2> QED
    BY <2>1, KeyFront
<1>4. Len(k) = 27
  BY <1>3 DEF KeyCount
<1>5. Len(Tail(todo)) = Len(k) - (n + 1)
  <2>1. n + 1 \in Nat /\ n + 1 <= Len(k)
    BY <1>3, <1>4
  <2> QED
    BY <1>3, <2>1, AfterLen
<1>6. n + 1 = 26
  <2> PICK p : p = Len(Tail(todo))
    OBVIOUS
  <2>1. p = 1 /\ p = 27 - (n + 1) /\ n \in Nat
    BY <1>3, <1>4, <1>5
  <2> QED
    BY ONLY <2>1
<1>7. k[26] = get_icvps2
  <2>1. KeysStand(file, k)
    BY KeysAre
  <2> QED
    BY ONLY file.icvps2, <2>1 DEF KeysStand
<1>8. x = get_icvps2
  BY <1>3, <1>6, <1>7
<1> QED
  BY <1>8 DEF get_icvps2, ToMecha, Exchanged

(* It is there after that exchange. *)
LEMMA IcvExchange ==
  ASSUME HInv, KInv, IcvInv, NEW how \in {"done", "lost", "unheard", "garbled"}, Exchange(how)
  PROVE  IcvInv'
<1>1. signed' = signed /\ file' = file /\ buf' = buf
  BY ExchangeStep DEF fileVars
<1>2. (signed.card # "none" => Icv(signed.buf, signed.file))'
  BY <1>1 DEF IcvInv, Icv
<1>3. ASSUME fn' = "sign"
      PROVE  /\ Icv(buf, file)' /\ todo' = Tail(todo)
             /\ file.icvps2 /\ Len(Tail(todo)) = 1 => loc'["icvps2"].n = "icvps2"
  <2>1. PICK ok \in BOOLEAN : Answered(how, ok)
    BY ExchangeStep
  <2>2. fn = "sign" /\ fn' # "failed"
    BY <1>3, <2>1 DEF Answered, Next_
  <2>3. /\ todo' = Tail(todo) /\ loc' = Filled(how, TRUE) /\ todo # <<>> /\ x.to \in {"card", "mecha"}
        /\ x.to = "mecha" /\ x.cmd # "8E" => how = "done" /\ Device.ok
    BY <2>2, FileExchangeOn
  <2>4. Icv(buf, file)'
    BY <1>1, <2>2 DEF IcvInv, Icv
  <2>5. ASSUME file.icvps2, Len(Tail(todo)) = 1 PROVE loc'["icvps2"].n = "icvps2"
    <3>1. x.to = "mecha" /\ x.cmd = "98" /\ x.get = <<"icvps2">>
      BY <2>2, <2>3, <2>5, BeforeLast
    <3>2. how = "done" /\ Device.ok
      BY <2>3, <3>1
    <3> PICK a : a = Device
      OBVIOUS
    <3>3. a = MechaDoes(mecha, "98", x.arg, Sent) /\ a.ok
      BY <3>1, <3>2 DEF Device
    <3>4. mecha.mode = 2
      BY <3>3 DEF MechaDoes, MechaReady, FileCommands
    <3>5. a.out = <<[n |-> "icvps2"]>>
      <4>1. Obeys(mecha, "98")
        BY <3>4 DEF Obeys
      <4> QED
        BY <3>3, <4>1, MechaObeys
    <3>6. "icvps2" \in DOMAIN loc
      BY DEF HInv, TypeInv, LocalNames
    <3>7. loc'["icvps2"] = [n |-> "icvps2"]
      BY <2>3, <3>1, <3>2, <3>5, <3>6, FilledAt
    <3> QED
      BY <3>7
  <2> QED
    BY <2>3, <2>4, <2>5
<1> QED
  BY <1>1, <1>2, <1>3 DEF IcvInv

(* The calls of secrsif leave the buffer alone, ... *)
LEMMA IcvRpc ==
  ASSUME HInv, KInv, IcvInv, NEW ok \in BOOLEAN, RpcStep(ok)
  PROVE  IcvInv'
<1>1. /\ todo # <<>> /\ x.to = "rpc" /\ UNCHANGED <<loc, file, buf, signed>>
      /\ fn' = "sign" => fn = "sign" /\ todo' = Tail(todo)
  BY DEF RpcStep, Next_, fileVars
<1>2. ASSUME fn = "sign", file.icvps2, Len(Tail(todo)) = 1 PROVE FALSE
  BY <1>1, <1>2, BeforeLast
<1> QED
  BY <1>1, <1>2 DEF IcvInv, Icv

(* ... the loop comes to the blocks or to all the keys, ... *)
LEMMA IcvLoop ==
  ASSUME HInv, KInv, IcvInv, NextBlock
  PROVE  IcvInv'
<1>1. todo # <<>> /\ x.to = "self" /\ x.cmd = "block" /\ UNCHANGED <<fn, loc, file, buf, signed>>
  BY DEF NextBlock, fileVars
<1>2. ASSUME fn = "sign" PROVE Len(todo') # 1
  <2>1. SignAt /\ file \in Files
    BY <1>2 DEF KInv, SignInv, HInv, TypeInv
  <2>2. PICK i \in 1 .. Len(file.blocks) + 1 : LoopAt(i) /\ x = Blocks(i)
    <3>1. ASSUME NEW n \in 0 .. KeyCount(file), KeyInside(n) PROVE FALSE
      BY <1>1, <3>1 DEF KeyInside, Self, Exchanged
    <3> QED
      BY <1>1, <1>2, <2>1, <3>1, InnerAt
  <2> PICK k, a : k = SecrDownloadKeys(file) /\ a = (IF i \in DOMAIN file.blocks THEN BlockCalls(i) \o <<Blocks(i + 1)>> ELSE <<>>)
    OBVIOUS
  <2>3. x.arg[1] = i /\ Tail(todo) = k
    BY <2>2, LoopIs DEF Blocks, Self, Exchanged, LoopAt
  <2>4. todo' = a \o k
    BY <2>3 DEF NextBlock
  <2>5. IsSeq(a)
    <3>1. CASE i \in Signed(file)
      <4>1. i \in DOMAIN file.blocks
        BY <3>1 DEF Signed
      <4>2. IsSeq(SecrDownloadBlock(file, i)) /\ IsSeq(<<Blocks(i + 1)>>)
        BY <2>1, <4>1, SignBlockAt, SeqFacts
      <4>3. a = SecrDownloadBlock(file, i) \o <<Blocks(i + 1)>>
        BY <1>2, <3>1, <4>1 DEF BlockCalls
      <4> QED
        BY <4>2, <4>3, SeqFacts
    <3>2. CASE i \notin Signed(file)
      <4>1. a = <<>> \o <<Blocks(i + 1)>> \/ a = <<>>
        BY <1>2, <3>2 DEF BlockCalls
      <4>2. IsSeq(<<>>) /\ IsSeq(<<Blocks(i + 1)>>)
        BY SeqFacts
      <4> QED
        BY <4>1, <4>2, SeqFacts
    <3> QED
      BY <3>1, <3>2
  <2>6. IsSeq(a) /\ IsSeq(k)
    BY <2>5, KeyScript, SeqFacts
  <2>7. Len(a) \in Nat /\ Len(a \o k) = Len(a) + Len(k)
    BY ONLY <2>6, ConcatAt
  <2>8. Len(k) \in {24, 27}
    BY KeysAre DEF KeysStand
  <2> PICK p, q : p = Len(a) /\ q = Len(k)
    OBVIOUS
  <2>9. p \in Nat /\ q \in {24, 27} /\ Len(a \o k) = p + q
    BY <2>7, <2>8
  <2>10. Len(a \o k) # 1
    BY ONLY <2>9
  <2> QED
    BY <2>4, <2>10
<1> QED
  BY <1>1, <1>2 DEF IcvInv, Icv

(* ... and what secrsif stores is the keys, and at last the ICVPS2. *)
LEMMA IcvStores ==
  ASSUME HInv, KInv, IcvInv, SelfStep, fn = "sign", fn' = "sign"
  PROVE  Icv(buf, file)'
<1>1. /\ todo # <<>> /\ x.to = "self" /\ x.cmd # "block" /\ file' = file /\ x.cmd # "toolong"
      /\ SignAt /\ file \in Files /\ Icv(buf, file)
  BY DEF SelfStep, Next_, KInv, SignInv, HInv, TypeInv, IcvInv
<1>2. PICK n \in 0 .. KeyCount(file) : KeyInside(n)
  <2>1. \A i : x # Blocks(i)
    BY <1>1 DEF Blocks, Self, Exchanged
  <2> QED
    BY <1>1, <2>1, InnerAt
<1>3. /\ KeysAt(n) /\ n \in Nat
      /\ \/ n = 22 /\ x.cmd = "store_kbit"
         \/ n = 23 /\ x.cmd = "store_kc"
         \/ n = 26 /\ file.icvps2 /\ x.cmd = "store_icvps2"
  BY <1>1, <1>2 DEF KeyInside, Self, Exchanged
<1>4. Kept(buf, file)
  BY <1>3 DEF KeysAt, BufAt
<1>5. CASE x.cmd \in {"store_kbit", "store_kc"}
  <2>1. PICK p, q, at : buf' = Stored(buf, at, <<p, q>>) /\ at \in {KbitOffset(file), KcOffset(file)}
    BY <1>5, Copies DEF SelfStep, store_kbit, store_kc
  <2>2. Icv(buf', file)
    BY <1>1, <1>4, <2>1, StoresBeside
  <2> QED
    BY <1>1, <2>2
<1>6. CASE file.icvps2 /\ n = 26 /\ x.cmd = "store_icvps2"
  <2> PICK k, s, p : k = SecrDownloadKeys(file) /\ s = KELF_header_size(file) /\ p = loc["icvps2"]
    OBVIOUS
  <2>1. IsSeq(k) /\ Len(k) = 27 /\ todo = After(k, 26)
    <3>1. todo = After(k, n)
      BY <1>3 DEF KeysAt
    <3>2. IsSeq(k) /\ Len(k) = KeyCount(file)
      BY <3>1, KeyFront
    <3> QED
      BY <1>6, <3>1, <3>2 DEF KeyCount
  <2>2. Len(todo) = 1
    <3>1. IsSeq(k) /\ 26 \in Nat /\ 26 <= Len(k)
      BY <2>1
    <3>2. Len(After(k, 26)) = Len(k) - 26
      BY ONLY <3>1, AfterLen
    <3> QED
      BY <2>1, <3>2
  <2>3. p.n = "icvps2"
    BY <1>6, <2>2 DEF IcvInv
  <2>4. buf' = Stored(buf, s - 1, <<p>>)
    BY <1>6 DEF SelfStep, store_icvps2
  <2>5. DOMAIN buf = 1 .. file.units /\ s \in Nat /\ file.units \in Nat /\ 1 <= s /\ s <= file.units
    <3>1. s \in Nat /\ KbitOffset(file) \in Nat /\ KbitOffset(file) + 5 <= s /\ s <= file.units /\ file.units \in Nat
      BY <1>1, Places
    <3>2. 1 <= s
      BY ONLY <3>1
    <3> QED
      BY <1>4, <3>1, <3>2 DEF Kept
  <2>6. s \in DOMAIN buf /\ s - (s - 1) = 1 /\ DOMAIN <<p>> = {1} /\ <<p>>[1] = p
    <3>1. s \in 1 .. file.units /\ s - (s - 1) = 1
      BY ONLY <2>5
    <3> QED
      BY <2>5, <3>1
  <2>7. buf'[s] = p
    BY <2>4, <2>6 DEF Stored
  <2> QED
    BY <1>1, <2>3, <2>7 DEF Icv
<1> QED
  BY <1>3, <1>5, <1>6

LEMMA IcvSelf ==
  ASSUME HInv, KInv, IcvInv, SelfStep
  PROVE  IcvInv'
<1>1. /\ todo # <<>> /\ x.to = "self" /\ x.cmd # "block" /\ file' = file /\ signed' = signed
      /\ fn' = "sign" => fn = "sign" /\ todo' = Tail(todo)
  BY DEF SelfStep, Next_
<1>2. ASSUME fn = "sign", file.icvps2, Len(Tail(todo)) = 1 PROVE FALSE
  BY <1>1, <1>2, BeforeLast
<1>3. (signed.card # "none" => Icv(signed.buf, signed.file))'
  BY <1>1 DEF IcvInv, Icv
<1> QED
  BY <1>1, <1>2, <1>3, IcvStores DEF IcvInv

(* Four keys put into a file leave its ICVPS2 alone. *)
LEMMA KeysBeside ==
  ASSUME NEW f \in Files, NEW vs, DOMAIN vs = 1 .. 4, NEW d, d = Stored(Content(f), KbitOffset(f), vs)
  PROVE  Icv(d, f)
<1> PICK o, s, n : o = KbitOffset(f) /\ s = KELF_header_size(f) /\ n = f.units
  OBVIOUS
<1>1. o \in Nat /\ s \in Nat /\ n \in Nat /\ o + 5 <= s /\ s <= n
  BY Places
<1>2. s \in 1 .. n /\ s - o \notin 1 .. 4
  BY ONLY <1>1
<1>3. DOMAIN Content(f) = 1 .. n
  BY DEF Content
<1>4. d[s] = Content(f)[s]
  BY <1>2, <1>3 DEF Stored
<1> QED
  BY <1>4 DEF Icv

(* At the start, ... *)
LEMMA IcvInit == Init => IcvInv
<1> SUFFICES ASSUME Init PROVE IcvInv
  OBVIOUS
<1>1. fn # "sign"
  BY DEF Init
<1>2. CASE signed = [file |-> file, buf |-> <<>>, card |-> "none", all |-> FALSE]
  BY <1>1, <1>2 DEF IcvInv
<1>3. ASSUME NEW f \in OldFiles, NEW id, signed = SignedFor(f, id) PROVE IcvInv
  <2> PICK vs, d : /\ vs = [k \in 1 .. 4 |-> [n |-> Halves[k], card |-> id, keys |-> f.keys]]
                   /\ d = Stored(Content(f), KbitOffset(f), vs)
    OBVIOUS
  <2>1. f \in Files /\ DOMAIN vs = 1 .. 4
    BY OldFilesAssumption
  <2>2. Icv(d, f)
    BY <2>1, KeysBeside
  <2>3. signed.file = f /\ signed.buf = d
    BY <1>3 DEF SignedFor
  <2> QED
    BY <1>1, <2>2, <2>3 DEF IcvInv
<1> QED
  BY <1>2, <1>3 DEF Init

(* ... when an operation starts, ... *)
LEMMA IcvStart ==
  ASSUME HInv, IcvInv, NEW f \in {"auth", "reset", "sign", "boot", "failed"}, NEW script, NEW must, Start(f, script, must),
         f = "sign" => /\ file' \in Files /\ buf' = Content(file')
                       /\ script = SecrDownloadFile(file')
  PROVE  IcvInv'
<1>1. signed' = signed /\ (fn' = "idle" \/ (fn' = f /\ todo' = script))
  BY DEF Start
<1>2. ASSUME f = "sign", fn' = "sign", todo' = script PROVE Icv(buf, file)' /\ Len(todo') # 1
  <2> PICK g, h, a, k : g = file' /\ h = SecrDownloadHeader(g) /\ a = <<Blocks(1)>> /\ k = SecrDownloadKeys(g)
    OBVIOUS
  <2>1. IsSeq(h) /\ IsSeq(a) /\ IsSeq(k)
    <3>1. g \in Files
      BY <1>2
    <3>2. IsSeq(h)
      BY <3>1, SignHeaderAt
    <3> QED
      BY <3>2, KeyScript, SeqFacts
  <2>2. IsSeq(h \o a) /\ IsSeq(k)
    BY <2>1, SeqFacts
  <2>3. Len(h \o a) \in Nat /\ Len((h \o a) \o k) = Len(h \o a) + Len(k)
    BY ONLY <2>2, ConcatAt
  <2>4. Len(k) \in {24, 27}
    BY KeysAre DEF KeysStand
  <2> PICK p, q : p = Len(h \o a) /\ q = Len(k)
    OBVIOUS
  <2>5. p \in Nat /\ q \in {24, 27} /\ Len((h \o a) \o k) = p + q
    BY <2>3, <2>4
  <2>6. Len((h \o a) \o k) # 1
    BY ONLY <2>5
  <2>7. todo' = (h \o a) \o k
    BY <1>2 DEF SecrDownloadFile
  <2> QED
    BY <1>2, <2>6, <2>7 DEF Icv
<1>3. (signed.card # "none" => Icv(signed.buf, signed.file))'
  BY <1>1 DEF IcvInv, Icv
<1> QED
  BY <1>1, <1>2, <1>3 DEF IcvInv

LEMMA IcvOperations ==
  ASSUME HInv, IcvInv,
         \/ SecrAuthCard \/ SecrResetAuthCard
         \/ \E f \in Files : SignKELF(f)
         \/ \E p \in Twins : TwinSignKELF(p[1], p[2]) \/ TwinUnreadable(p[1], p[2])
         \/ BootSigned
  PROVE  IcvInv'
<1>1. CASE SecrAuthCard
  <2>1. Start("auth", Handshake, TRUE)
    BY <1>1 DEF SecrAuthCard
  <2> QED
    BY <2>1, IcvStart
<1>2. CASE SecrResetAuthCard
  <2>1. Start("reset", <<card_auth_60, mechacon_auth_80>>, FALSE)
    BY <1>2 DEF SecrResetAuthCard
  <2> QED
    BY <2>1, IcvStart
<1>3. ASSUME NEW f \in Files, NEW g, TwinSignKELF(f, g) PROVE IcvInv'
  <2>1. PICK must : Start("sign", SecrDownloadFile(f), must)
    BY <1>3 DEF TwinSignKELF
  <2>2. file' \in Files /\ buf' = Content(file') /\ SecrDownloadFile(f) = SecrDownloadFile(file')
    BY <1>3 DEF TwinSignKELF
  <2> QED
    BY <2>1, <2>2, IcvStart
<1>4. ASSUME NEW f \in Files, SignKELF(f) PROVE IcvInv'
  <2>1. TwinSignKELF(f, f)
    BY <1>4 DEF SignKELF, TwinSignKELF
  <2> QED
    BY <1>3, <2>1
<1>5. ASSUME NEW f, NEW g, TwinUnreadable(f, g) PROVE IcvInv'
  <2>1. Start("failed", <<>>, FALSE)
    BY <1>5 DEF TwinUnreadable
  <2> QED
    BY <2>1, IcvStart
<1>6. CASE BootSigned
  <2>1. PICK must : Start("boot", SecrCardBootFile(signed.file), must)
    BY <1>6 DEF BootSigned
  <2> QED
    BY <2>1, IcvStart
<1>7. \A p \in Twins : p[1] \in Files
  BY TwinsAssumption
<1> QED
  BY <1>1, <1>2, <1>3, <1>4, <1>5, <1>6, <1>7

(* ... and when one returns: the PSX file is given the keys and nothing else. *)
LEMMA IcvReturn ==
  ASSUME HInv, IcvInv, Return
  PROVE  IcvInv'
<1>1. fn' = "idle" /\ (fn # "sign" => signed' = signed) /\ twin \in Files
  BY DEF Return, HInv, TypeInv
<1>2. CASE fn # "sign"
  BY <1>1, <1>2 DEF IcvInv, Icv
<1>3. CASE fn = "sign"
  <2>1. signed' = [file |-> twin, card |-> start, all |-> mecha.nth = Cardinality(Signed(file)),
                   buf |-> IF twin = file THEN buf ELSE SetKbitAndKc(twin, GetKbitAndKc(buf))]
    BY <1>3 DEF Return
  <2>2. /\ signed'.file = twin
        /\ signed'.buf = (IF twin = file THEN buf ELSE SetKbitAndKc(twin, GetKbitAndKc(buf)))
    BY <2>1
  <2>3. Icv(signed'.buf, twin)
    <3>1. CASE twin = file
      BY <1>3, <2>2, <3>1 DEF IcvInv
    <3>2. CASE twin # file
      <4> PICK vs, q : vs = GetKbitAndKc(buf) /\ q = KbitOffset(file)
        OBVIOUS
      <4> PICK lo, hi, S : lo = q + 1 /\ hi = q + 4 /\ S = {buf[j] : j \in lo .. hi}
        OBVIOUS
      <4>1. q \in Nat
        BY Places DEF HInv, TypeInv
      <4>2. lo \in Int /\ hi \in Int /\ hi - lo + 1 = 4 /\ lo <= hi
        BY ONLY <4>1, lo = q + 1, hi = q + 4
      <4>3. \A i \in lo .. hi : buf[i] \in S
        OBVIOUS
      <4>4. SubSeq(buf, lo, hi) \in Seq(S) /\ Len(SubSeq(buf, lo, hi)) = (IF lo <= hi THEN hi - lo + 1 ELSE 0)
        BY ONLY <4>2, <4>3, SubSeqProperties
      <4>5. vs \in Seq(S) /\ Len(vs) = 4
        BY <4>2, <4>4, Copies DEF GetKbitAndKc
      <4>6. DOMAIN vs = 1 .. 4
        BY ONLY <4>5
      <4>7. signed'.buf = Stored(Content(twin), KbitOffset(twin), vs)
        BY <2>2, <3>2, Copies DEF SetKbitAndKc
      <4> QED
        BY <1>1, <4>6, <4>7, KeysBeside
    <3> QED
      BY <3>1, <3>2
  <2> QED
    BY <1>1, <2>2, <2>3 DEF IcvInv
<1> QED
  BY <1>2, <1>3

(* Every step keeps it. *)
LEMMA IcvStep == HInv /\ KInv /\ IcvInv /\ [Next]_vars => IcvInv'
<1> SUFFICES ASSUME HInv, KInv, IcvInv, [Next]_vars PROVE IcvInv'
  OBVIOUS
<1>1. CASE SetMcHandlers \/ Calculated \/ UNCHANGED vars \/ \E id \in Cards : SwapCard(id)
  <2>1. UNCHANGED <<fn, todo, loc, file, buf, signed>>
    BY <1>1 DEF SetMcHandlers, Calculated, SwapCard, vars, authVars, fileVars
  <2> QED
    BY <2>1 DEF IcvInv, Icv
<1>2. CASE \/ SecrAuthCard \/ SecrResetAuthCard
           \/ \E f \in Files : SignKELF(f)
           \/ \E p \in Twins : TwinSignKELF(p[1], p[2]) \/ TwinUnreadable(p[1], p[2])
           \/ BootSigned
  BY <1>2, IcvOperations
<1>3. CASE \E how \in {"done", "lost", "unheard", "garbled"} : Exchange(how)
  BY <1>3, IcvExchange
<1>4. CASE (\E ok \in BOOLEAN : RpcStep(ok)) \/ SelfStep \/ NextBlock
  BY <1>4, IcvRpc, IcvSelf, IcvLoop
<1>5. CASE Return
  BY <1>5, IcvReturn
<1> QED
  BY <1>1, <1>2, <1>3, <1>4, <1>5 DEF Next, Step

(* An operation that has to succeed and that nothing has happened to is where it should be. *)
CleanInv ==
    due /\ hit = "no" =>
        /\ fn \in {"idle", "auth", "sign", "boot"}
        /\ fn = "auth" => \E n \in 0 .. P + 21 : AuthClean(n)
        /\ fn = "sign" => card.auth /\ mecha.auth /\ Signable(file) /\ SignClean
        /\ fn = "boot" => card.auth /\ mecha.auth /\ Evens(file) /\ BootClean

(* An exchange that is done goes on, ... *)
LEMMA CleanExchange ==
  ASSUME HInv, KInv, CleanInv, NEW how \in {"done", "lost", "unheard", "garbled"}, Exchange(how)
  PROVE  CleanInv'
<1>1. /\ todo # <<>> /\ x.to \in {"card", "mecha"} /\ due' = due
      /\ hit' = (IF how = "done" THEN hit ELSE "yes")
  BY ExchangeStep
<1>2. CASE how # "done" \/ hit # "no" \/ ~due
  BY <1>1, <1>2 DEF CleanInv
<1>3. CASE Exchange("done") /\ hit = "no" /\ due
  <2>1. fn # "idle"
    BY <1>1 DEF HInv, TypeInv
  <2>2. CASE fn = "auth"
    <3>1. PICK n \in 0 .. P + 21 : AuthClean(n)
      BY <1>3, <2>2 DEF CleanInv
    <3>2. fn' = "auth" /\ n + 1 \in 0 .. P' + 21 /\ AuthClean(n + 1)'
      BY <1>3, <2>2, <3>1, AuthAnswers
    <3> QED
      BY <3>2 DEF CleanInv
  <2>3. ASSUME NEW i, x = Blocks(i) PROVE FALSE
    BY <1>1, <2>3 DEF Blocks, Self, Exchanged
  <2>4. CASE fn = "sign"
    <3>1. card.auth /\ mecha.auth /\ Signable(file) /\ SignClean
      BY <1>3, <2>4 DEF CleanInv
    <3>2. ASSUME NEW i, SignLoopClean(i) PROVE FALSE
      BY <2>3, <3>2, LoopIs DEF SignLoopClean, x
    <3>3. SignGoesOn
      BY <1>3, <2>4, <3>1, <3>2, SignHeaderGoes, SignBlockGoes, KeysGo DEF SignClean
    <3>4. fn' = "sign" /\ file' = file /\ card'.auth /\ mecha'.auth /\ SignClean'
      BY <3>3 DEF SignGoesOn
    <3>5. Signable(file)'
      BY <3>1, <3>4
    <3> QED
      BY <3>4, <3>5 DEF CleanInv
  <2>5. CASE fn = "boot"
    <3>1. card.auth /\ mecha.auth /\ Evens(file) /\ BootClean
      BY <1>3, <2>5 DEF CleanInv
    <3>2. ASSUME NEW i, BootLoopClean(i) PROVE FALSE
      BY <2>3, <3>2, BootLoopNext
    <3>3. BootGoesOn
      BY <1>1, <1>3, <2>5, <3>1, <3>2, BootHeaderGoes, BootBlockGoes DEF BootClean
    <3>4. fn' = "boot" /\ file' = file /\ card'.auth /\ mecha'.auth /\ BootClean'
      BY <3>3 DEF BootGoesOn
    <3>5. Evens(file)'
      BY <3>1, <3>4
    <3> QED
      BY <3>4, <3>5 DEF CleanInv
  <2> QED
    BY <1>3, <2>1, <2>2, <2>4, <2>5 DEF CleanInv
<1> QED
  BY <1>2, <1>3

(* ... so does a step that reaches no device, ... *)
LEMMA CleanInner ==
  ASSUME HInv, CleanInv, (\E ok \in BOOLEAN : RpcStep(ok)) \/ SelfStep \/ NextBlock
  PROVE  CleanInv'
<1>1. CASE RpcStep(FALSE)
  BY <1>1 DEF RpcStep, CleanInv
<1>2. CASE RpcStep(TRUE) \/ SelfStep \/ NextBlock
  <2>1. todo # <<>> /\ x.to \in {"rpc", "self"} /\ due' = due /\ hit' = hit
    BY <1>2 DEF RpcStep, SelfStep, NextBlock
  <2>2. fn \in {"sign", "boot"}
    BY <2>1, InnerFn
  <2>3. CASE due /\ hit = "no" /\ fn = "sign"
    <3>1. card.auth /\ mecha.auth /\ Signable(file) /\ SignClean
      BY <2>3 DEF CleanInv
    <3>2. SignGoesOn
      BY <1>2, <2>3, <3>1, SignInnerGoes, SignLoopGoes
    <3>3. fn' = "sign" /\ file' = file /\ card'.auth /\ mecha'.auth /\ SignClean'
      BY <3>2 DEF SignGoesOn
    <3>4. Signable(file)'
      BY <3>1, <3>3
    <3> QED
      BY <3>3, <3>4 DEF CleanInv
  <2>4. CASE due /\ hit = "no" /\ fn = "boot"
    <3>1. card.auth /\ mecha.auth /\ Evens(file) /\ BootClean
      BY <2>4 DEF CleanInv
    <3>2. BootGoesOn
      BY <1>2, <2>4, <3>1, BootInnerGoes, BootLoopGoes
    <3>3. fn' = "boot" /\ file' = file /\ card'.auth /\ mecha'.auth /\ BootClean'
      BY <3>2 DEF BootGoesOn
    <3>4. Evens(file)'
      BY <3>1, <3>3
    <3> QED
      BY <3>3, <3>4 DEF CleanInv
  <2> QED
    BY <2>1, <2>2, <2>3, <2>4 DEF CleanInv
<1>3. (\E ok \in BOOLEAN : RpcStep(ok)) => RpcStep(TRUE) \/ RpcStep(FALSE)
  OBVIOUS
<1> QED
  BY <1>1, <1>2, <1>3

(* ... and the end of a calculation leaves the operation where it is. *)
LEMMA CleanStays ==
  ASSUME CleanInv, UNCHANGED <<isDEX, card, fn, todo, loc, tries, file, buf, due, hit>>,
         /\ mecha'.auth = mecha.auth /\ mecha'.at = mecha.at /\ mecha'.peer = mecha.peer
         /\ mecha'.got = mecha.got /\ mecha'.left = mecha.left /\ mecha'.op = mecha.op
         /\ mecha'.mode = mecha.mode /\ mecha'.nth = mecha.nth
         /\ mecha'.calc \in {mecha.calc, "ok"}
  PROVE  CleanInv'
<1> SUFFICES ASSUME due, hit = "no" PROVE CleanInv'
  BY DEF CleanInv
<1>1. fn \in {"idle", "auth", "sign", "boot"} /\ fn' = fn
  BY DEF CleanInv
<1>2. CASE fn = "auth"
  <2>1. PICK n \in 0 .. P + 21 : AuthClean(n)
    BY <1>2 DEF CleanInv
  <2>2. P' = P /\ Handshake' = Handshake
    BY SameHandshake
  <2>3. ASSUME NEW m, Answering(m) PROVE Answering(m)'
    <3>1. CardDone' = CardDone /\ MechaDone' = MechaDone
      BY DEF CardDone, MechaDone
    <3>2. Known(m)'
      BY <2>3 DEF Answering, Known
    <3> QED
      BY <2>3, <3>1, <3>2 DEF Answering
  <2>4. Lead' = Lead
    BY <2>2 DEF Lead
  <2>5. AuthClean(n)'
    <3>1. (todo = After(Handshake, n))' /\ (n = 1 => card.at = 0)'
      BY <2>1, <2>2 DEF AuthClean
    <3>2. (n = 2 => Answering(0))'
      BY <2>1, <2>3 DEF AuthClean
    <3>3. \A m \in 0 .. 31 : n = Lead' + m => Answering(m)'
      BY <2>1, <2>3, <2>4 DEF AuthClean
    <3> QED
      BY <3>1, <3>2, <3>3 DEF AuthClean
  <2> QED
    BY <1>2, <2>2, <2>5 DEF CleanInv
<1>3. ASSUME NEW op, NEW from, NEW size, NEW g, Pouring(op, from, size, g) PROVE Pouring(op, from, size, g)'
  BY <1>3 DEF Pouring
<1>4. ASSUME NEW mode, NEW k, HeaderClean(mode, k) PROVE HeaderClean(mode, k)'
  <2>1. HeaderChunks(file)' = HeaderChunks(file) /\ KELF_header_size(file)' = KELF_header_size(file)
    OBVIOUS
  <2> QED
    BY <1>3, <1>4, <2>1 DEF HeaderClean
<1>5. ASSUME NEW mode, NEW from, NEW size, NEW n, NEW k, BlockClean(mode, from, size, n, k)
      PROVE  BlockClean(mode, from, size, n, k)'
  BY <1>3, <1>5 DEF BlockClean
<1>6. ASSUME NEW mode, Prepared(mode) PROVE Prepared(mode)'
  BY <1>6 DEF Prepared
<1>7. CASE fn = "sign"
  <2>0. card.auth /\ mecha.auth /\ Signable(file) /\ SignClean
    BY <1>7 DEF CleanInv
  <2>1. \A i : Loop(i)' = Loop(i)
    BY DEF Loop
  <2>2. ASSUME NEW n \in Nat, SignHeaderClean(n) PROVE SignHeaderClean(n)'
    BY <1>4, <2>1, <2>2 DEF SignHeaderClean
  <2>3. ASSUME NEW i, SignLoopClean(i) PROVE SignLoopClean(i)'
    BY <1>6, <2>1, <2>3 DEF SignLoopClean
  <2>4. ASSUME NEW i, NEW n \in Nat, SignBlockClean(i, n) PROVE SignBlockClean(i, n)'
    <3>1. (todo = After(SecrDownloadBlock(file, i), n) \o Loop(i + 1))' /\ (buf = Content(file))'
      BY <2>1, <2>4 DEF SignBlockClean
    <3>2. (n = 0 => BlockClean(2, BlockOffset(file, i), file.blocks[i].size, Before(Signed(file), i), 0))'
      BY <1>5, <2>4 DEF SignBlockClean
    <3>3. (\A k \in Nat : n = k + 1 => BlockClean(2, BlockOffset(file, i), file.blocks[i].size, Before(Signed(file), i), k))'
      BY <1>5, <2>4 DEF SignBlockClean
    <3> QED
      BY <3>1, <3>2, <3>3 DEF SignBlockClean
  <2>5. ASSUME NEW n, KeysClean(n) PROVE KeysClean(n)'
    BY <2>5 DEF KeysClean
  <2>6. SignClean'
    BY <2>0, <2>2, <2>3, <2>4, <2>5 DEF SignClean
  <2>7. card'.auth /\ mecha'.auth /\ Signable(file)'
    BY <2>0
  <2> QED
    BY <1>7, <2>6, <2>7 DEF CleanInv
<1>8. CASE fn = "boot"
  <2>0. card.auth /\ mecha.auth /\ Evens(file) /\ BootClean
    BY <1>8 DEF CleanInv
  <2>1. ASSUME NEW u, NEW h, NEW e, NEW last, NEW n, HalfState(u, h, e, last, n) PROVE HalfState(u, h, e, last, n)'
    BY <2>1 DEF HalfState, Bound
  <2>2. ASSUME NEW n \in Nat, BootHeaderClean(n) PROVE BootHeaderClean(n)'
    <3>1. HalvesClean(n)'
      BY <2>1, <2>2 DEF BootHeaderClean, HalvesClean
    <3>2. (todo = After(SecrCardBootHeader(file), n) \o <<Blocks(1)>>)'
      BY <2>2 DEF BootHeaderClean, Blocks
    <3>3. (\A k \in Nat : n = k + 19 => HeaderClean(1, k))'
      BY <1>4, <2>2 DEF BootHeaderClean
    <3> QED
      BY <3>1, <3>2, <3>3 DEF BootHeaderClean
  <2>3. ASSUME NEW i, BootLoopClean(i) PROVE BootLoopClean(i)'
    BY <1>6, <2>3 DEF BootLoopClean, Blocks
  <2>4. ASSUME NEW i, NEW n, BootBlockClean(i, n) PROVE BootBlockClean(i, n)'
    BY <1>5, <2>4 DEF BootBlockClean, Blocks
  <2>5. (Kept(buf, file) /\ Icv(buf, file))'
    BY <2>0 DEF BootClean
  <2>6. BootClean'
    BY <2>0, <2>2, <2>3, <2>4, <2>5 DEF BootClean
  <2>7. card'.auth /\ mecha'.auth /\ Evens(file)'
    BY <2>0
  <2> QED
    BY <1>8, <2>6, <2>7 DEF CleanInv
<1> QED
  BY <1>1, <1>2, <1>7, <1>8 DEF CleanInv

(* An operation that has to succeed starts where it should: an authentication at its first exchange,
   whatever the last operation has left in the devices, ... *)
LEMMA CleanAuth ==
  ASSUME SecrAuthCard
  PROVE  CleanInv'
<1>1. UNCHANGED isDEX /\ (fn' = "idle" \/ (fn' = "auth" /\ todo' = Handshake))
  BY DEF SecrAuthCard, Start
<1>2. CASE fn' = "auth" /\ todo' = Handshake
  <2>1. P' = P /\ Handshake' = Handshake
    BY <1>1, SameHandshake
  <2>2. Handshake = After(Handshake, 0) /\ P \in Nat
    BY HandshakeAt, SuffixEnds
  <2>3. Lead \in 2 .. 3 /\ Lead' = Lead
    BY <2>1, TurnAt DEF Lead
  <2>4. \A m \in 0 .. 31 : 0 # Lead + m
    BY <2>3
  <2>5. AuthClean(0)'
    BY <1>2, <2>1, <2>2, <2>3, <2>4 DEF AuthClean
  <2>6. 0 \in 0 .. P' + 21
    BY <2>1, <2>2
  <2> QED
    BY <1>2, <2>5, <2>6 DEF CleanInv
<1> QED
  BY <1>1, <1>2 DEF CleanInv

(* ... a signing at its header, the two devices paired, ... *)
LEMMA CleanSign ==
  ASSUME NEW f \in Files, Start("sign", SecrDownloadFile(f), Paired /\ Signable(f)), file' = f, buf' = Content(f)
  PROVE  CleanInv'
<1>1. /\ card' = card /\ mecha' = mecha /\ (due' => Paired /\ Signable(f))
      /\ fn' = "idle" \/ (fn' = "sign" /\ todo' = SecrDownloadFile(f))
  BY DEF Start, devices
<1>2. CASE fn' = "sign" /\ todo' = SecrDownloadFile(f) /\ due'
  <2> PICK h, a, k : h = SecrDownloadHeader(f) /\ a = <<Blocks(1)>> /\ k = SecrDownloadKeys(f)
    OBVIOUS
  <2>1. IsSeq(h) /\ Len(h) \in Nat /\ Len(h) > 2 /\ IsSeq(a) /\ IsSeq(k)
    <3>1. IsSeq(h) /\ Len(h) \in Nat /\ Len(h) > 2
      BY SignHeaderAt
    <3> QED
      BY <3>1, KeyScript, SeqFacts
  <2>2. todo' = (h \o a) \o k
    BY <1>2 DEF SecrDownloadFile
  <2>3. (h \o a) \o k = h \o (a \o k)
    BY ONLY <2>1, ConcatThrice
  <2>4. After(h, 0) = h
    BY <2>1, Fronts
  <2>5. Loop(1)' = a \o k
    BY DEF Loop
  <2>6. (todo = After(SecrDownloadHeader(file), 0) \o Loop(1))'
    BY <2>2, <2>3, <2>4, <2>5
  <2>7. SignHeaderClean(0)'
    BY <2>6 DEF SignHeaderClean
  <2>8. SignClean'
    <3>1. 0 < Len(SecrDownloadHeader(file'))
      BY <2>1
    <3> QED
      BY <2>7, <3>1 DEF SignClean
  <2>9. card'.auth /\ mecha'.auth /\ Signable(file)'
    BY <1>1, <1>2 DEF Paired
  <2> QED
    BY <1>2, <2>8, <2>9 DEF CleanInv
<1> QED
  BY <1>1, <1>2 DEF CleanInv

(* ... and a boot at its header, on the card that the file was signed for. *)
LEMMA CleanBoot ==
  ASSUME HInv, KInv, IcvInv, BootSigned
  PROVE  CleanInv'
<1>1. /\ signed.card # "none" /\ card' = card /\ mecha' = mecha
      /\ file' = signed.file /\ buf' = signed.buf /\ signed.file \in Files
      /\ due' => Paired /\ signed.card = card.id /\ Evens(signed.file)
      /\ fn' = "idle" \/ (fn' = "boot" /\ todo' = SecrCardBootFile(signed.file))
  BY DEF BootSigned, Start, devices, HInv, TypeInv, Evens
<1>2. CASE fn' = "boot" /\ todo' = SecrCardBootFile(signed.file) /\ due'
  <2> PICK f, c : f = signed.file /\ c = SecrCardBootHeader(f)
    OBVIOUS
  <2>1. IsSeq(c) /\ Len(c) > 21 + HeaderChunks(f) /\ HeaderChunks(f) \in Nat
    <3>1. BootStand(f, c)
      BY <1>1, BootAre
    <3> QED
      BY <1>1, <3>1, Sizes DEF BootStand, HeaderChunks
  <2>2. After(c, 0) = c /\ Len(c) \in Nat
    BY <2>1, Fronts
  <2>3. (todo = After(SecrCardBootHeader(file), 0) \o <<Blocks(1)>>)'
    BY <1>1, <1>2, <2>2 DEF SecrCardBootFile, Blocks
  <2>4. Kept(signed.buf, signed.file) /\ \A u \in 1 .. 4 : BoundAt(signed.buf, u, signed.file, signed.card)
    BY <1>1 DEF KInv, SignedInv
  <2>5. Icv(signed.buf, signed.file)
    BY <1>1 DEF IcvInv
  <2>6. ASSUME NEW u \in 1 .. 4, NEW h, h = Halves[u], NEW e \in {1, 5, 9, 13}, NEW last \in {18, 19}
        PROVE  HalfState(u, h, e, last, 0)'
    <3>1. ~(1 <= 0) /\ ~(e + 4 <= 0) /\ ~(last <= 0) /\ 0 # e + 1 /\ 0 # e + 2 /\ 0 # e + 3
      OBVIOUS
    <3>2. (buf[KbitOffset(file) + u] = Bound(h, card.id, file))'
      BY <1>1, <1>2, <2>4, <2>6 DEF BoundAt, Bound
    <3> QED
      BY <3>1, <3>2 DEF HalfState
  <2>7. HalvesClean(0)'
    <3>1. Halves[1] = "Kbit1" /\ Halves[2] = "Kbit2" /\ Halves[3] = "Kc1" /\ Halves[4] = "Kc2"
      BY DEF Halves
    <3> QED
      BY <2>6, <3>1 DEF HalvesClean
  <2>8. BootHeaderClean(0)'
    BY <2>3, <2>7 DEF BootHeaderClean
  <2>9. BootClean'
    <3>1. (Kept(buf, file) /\ Icv(buf, file))'
      BY <1>1, <2>4, <2>5
    <3>2. 0 < Len(SecrCardBootHeader(file'))
      BY <1>1, <2>1, <2>2
    <3> QED
      BY <2>8, <3>1, <3>2 DEF BootClean
  <2>10. card'.auth /\ mecha'.auth /\ Evens(file)'
    BY <1>1, <1>2 DEF Paired
  <2> QED
    BY <1>2, <2>9, <2>10 DEF CleanInv
<1> QED
  BY <1>1, <1>2 DEF CleanInv

(* Every step keeps it there. *)
LEMMA CleanStep == HInv /\ KInv /\ IcvInv /\ CleanInv /\ [Next]_vars => CleanInv'
<1> SUFFICES ASSUME HInv, KInv, IcvInv, CleanInv, [Next]_vars PROVE CleanInv'
  OBVIOUS
<1>1. CASE SetMcHandlers \/ Calculated \/ UNCHANGED vars
  <2>1. /\ UNCHANGED <<isDEX, card, fn, todo, loc, tries, file, buf, due, hit>>
        /\ mecha' = mecha \/ mecha' = [mecha EXCEPT !.calc = "ok"]
    BY <1>1 DEF SetMcHandlers, Calculated, vars, authVars, fileVars, devices, bounds
  <2>2. /\ mecha'.auth = mecha.auth /\ mecha'.at = mecha.at /\ mecha'.peer = mecha.peer
        /\ mecha'.got = mecha.got /\ mecha'.left = mecha.left /\ mecha'.op = mecha.op
        /\ mecha'.mode = mecha.mode /\ mecha'.nth = mecha.nth
        /\ mecha'.calc \in {mecha.calc, "ok"}
    BY <2>1 DEF HInv, TypeInv, IsMecha
  <2> QED
    BY <2>1, <2>2, CleanStays
<1>2. CASE \E id \in Cards : SwapCard(id)
  BY <1>2 DEF SwapCard, CleanInv
<1>3. CASE SecrAuthCard
  BY <1>3, CleanAuth
<1>4. ASSUME NEW f \in Files, NEW g, TwinSignKELF(f, g) PROVE CleanInv'
  BY <1>4, CleanSign DEF TwinSignKELF
<1>5. ASSUME NEW f \in Files, SignKELF(f) PROVE CleanInv'
  BY <1>5, CleanSign DEF SignKELF
<1>6. ASSUME NEW f, NEW g, SecrResetAuthCard \/ TwinUnreadable(f, g) PROVE CleanInv'
  BY <1>6 DEF SecrResetAuthCard, TwinUnreadable, Start, CleanInv
<1>7. CASE BootSigned
  BY <1>7, CleanBoot
<1>8. CASE \E how \in {"done", "lost", "unheard", "garbled"} : Exchange(how)
  BY <1>8, CleanExchange
<1>9. CASE (\E ok \in BOOLEAN : RpcStep(ok)) \/ SelfStep \/ NextBlock
  BY <1>9, CleanInner
<1>10. CASE Return
  BY <1>10 DEF Return, CleanInv
<1>11. \A p \in Twins : p[1] \in Files
  BY TwinsAssumption
<1> QED
  BY <1>1, <1>2, <1>3, <1>4, <1>5, <1>6, <1>7, <1>8, <1>9, <1>10, <1>11 DEF Next, Step

(* An operation that meets no fault and no swap succeeds (CleanTrySucceeds), whatever the operations
   before it have left in the two devices: an authentication, a signing of a file that secrsif can
   carry, and a boot on the card that the file was signed for. *)
THEOREM CleanTriesSucceed == Spec => CleanTrySucceeds
<1>1. Init => HInv /\ KInv /\ IcvInv /\ CleanInv
  <2>1. Init => CleanInv
    BY DEF Init, CleanInv
  <2> QED
    BY <2>1, HInit, KInit, IcvInit
<1>2. HInv /\ KInv /\ IcvInv /\ CleanInv /\ [Next]_vars => HInv' /\ KInv' /\ IcvInv' /\ CleanInv'
  BY HStep, KStep, IcvStep, CleanStep
<1>3. HInv /\ CleanInv /\ [Next]_vars => [fn # "idle" /\ fn' = "idle" /\ due /\ hit = "no" => result' = 1]_vars
  <2> SUFFICES ASSUME HInv, CleanInv, [Next]_vars, fn # "idle", fn' = "idle", due, hit = "no" PROVE result' = 1
    OBVIOUS
  <2>1. Return
    BY OnlyReturn
  <2> QED
    BY <2>1 DEF Return, CleanInv
<1> QED
  BY <1>1, <1>2, <1>3, PTL DEF Spec, CleanTrySucceeds
===============================================================================
