------------------------------ MODULE Secrman -------------------------------
(***************************************************************************)
(* The security manager: authentication (CardAuth), the signing of a KELF  *)
(* file for one memory card, as the installer asks for it through libsecr  *)
(* and SECRSIF, and the boot of a signed file from a card.                 *)
(*                                                                         *)
(* A KELF is a header and blocks.  The buffer is a sequence of 8 byte      *)
(* units: a chunk of 16 bytes is two.  Signing leaves the file's four key  *)
(* halves, Kbit and Kc, encrypted by the card in the slot, at a place the  *)
(* header's flags decide.  Booting has the card decrypt them again.        *)
(***************************************************************************)
EXTENDS CardAuth, FiniteSets, SequencesExt

CONSTANTS
    Files,      \* the KELF headers: see FilesAssumption
    OldFiles,   \* those that may lie on the other cards, signed, at the start
    Twins,      \* pairs <<f, g>>: the PS2 file whose keys the PSX file g is given
    RpcUnits    \* units in SECRSIF's block buffer (0x400 bytes)

VARIABLES
    file,       \* the file being signed or booted
    buf,        \* its buffer: header units, then block units
    twin,       \* the PSX file that waits for the keys, or the file itself
    start,      \* the card in the slot when the operation began
    due,        \* TRUE when the operation has to succeed unless hit
    signed      \* the last signed file: [file, buf, card, all], card "none" before

fileVars == <<file, buf, twin>>
vars == <<authVars, fileVars, start, due, signed>>

----------------------------------------------------------------------------
(* The layout of a header, which is the mechacon's: BIT_count entries, an  *)
(* optional part, padding, Kbit, Kc, the bit table, ICVPS2 last.           *)

KbitOffset(f) == 4 + 2 * f.BIT_count + (IF f.flag1 THEN f.opt ELSE 0)
                   + (IF f.flagF000 THEN 0 ELSE 1)
BitLength(f) == 1 + 2 * Len(f.blocks)
Uses_ICVPS2(f) == f.icvps2
KELF_header_size(f) == KbitOffset(f) + 4 + BitLength(f) + (IF f.icvps2 THEN 1 ELSE 0)

(* The code works the places of Kbit and Kc out eight times over: libsecr  *)
(* to store them, keyman to get and to store them, and system.c for the    *)
(* keys of a twin, which come Kbit first.                                  *)
LibsecrKbit(f) == 4 + 2 * f.BIT_count + (IF f.flag1 THEN f.opt ELSE 0) + (IF f.flagF000 THEN 0 ELSE 1)
(* a bug: the padding is left out in one of the copies                     *)
LibsecrKcUnpadded(f) == 4 + 2 * f.BIT_count + (IF f.flag1 THEN f.opt ELSE 0) + 2
LibsecrKc(f) == 4 + 2 * f.BIT_count + (IF f.flag1 THEN f.opt ELSE 0) + (IF f.flagF000 THEN 0 ELSE 1) + 2
get_Kbit(f) == 4 + 2 * f.BIT_count + (IF f.flag1 THEN f.opt ELSE 0) + (IF f.flagF000 THEN 0 ELSE 1)
get_Kc(f) == 4 + 2 * f.BIT_count + (IF f.flag1 THEN f.opt ELSE 0) + (IF f.flagF000 THEN 0 ELSE 1) + 2
KeymanKbit(f) == 4 + 2 * f.BIT_count + (IF f.flag1 THEN f.opt ELSE 0) + (IF f.flagF000 THEN 0 ELSE 1)
KeymanKc(f) == 4 + 2 * f.BIT_count + (IF f.flag1 THEN f.opt ELSE 0) + (IF f.flagF000 THEN 0 ELSE 1) + 2
TwinGet(f) == 4 + 2 * f.BIT_count + (IF f.flag1 THEN f.opt ELSE 0) + (IF f.flagF000 THEN 0 ELSE 1)
TwinSet(f) == 4 + 2 * f.BIT_count + (IF f.flag1 THEN f.opt ELSE 0) + (IF f.flagF000 THEN 0 ELSE 1)

BlockOffset(f, i) ==
    LET offset[j \in 1..Len(f.blocks) + 1] ==
            IF j = 1 THEN KELF_header_size(f) ELSE offset[j - 1] + f.blocks[j - 1].size
    IN  offset[i]
Content(f) == [u \in 1..f.units |-> [n |-> "unit", f |-> f.name, i |-> u]]
KeyPlaces(f) == KbitOffset(f) + 1 .. KbitOffset(f) + 4
Signed(f) == {i \in DOMAIN f.blocks : f.blocks[i].flags \in {2, 3}}
Booted(f) == {i \in DOMAIN f.blocks : f.blocks[i].flags # 0}
Before(marked, i) == Cardinality({j \in marked : j < i})

ASSUME FilesAssumption ==
    /\ Files # {}
    /\ \A f \in Files : /\ {f.BIT_count, f.opt, f.units} \subseteq Nat
                        /\ {f.flag1, f.flagF000, f.icvps2} \subseteq BOOLEAN
                        /\ f.blocks \in Seq([flags : 0..3, size : Nat \ {0}])
                        /\ {KELF_header_size(f), BlockOffset(f, Len(f.blocks) + 1)} \subseteq 0..f.units
ASSUME OldFilesAssumption == OldFiles \subseteq Files
ASSUME RpcUnitsAssumption == RpcUnits \in Nat
ASSUME CardsAssumption == Cards # {} /\ "none" \notin Cards
ASSUME TwinsAssumption == /\ Twins \subseteq Files \X Files
                          /\ \A p \in Twins : p[1].keys = p[2].keys

(* What SECRSIF and the S command 8D can carry of a block.                 *)
Signable(f) == \A i \in Signed(f) : f.blocks[i].size <= RpcUnits /\ f.blocks[i].size % 2 = 0

----------------------------------------------------------------------------
(* The scripts.                                                            *)

Rpc(call) == Exchanged("rpc", call, <<>>, <<>>)
Self(what) == Exchanged("self", what, <<>>, <<>>)
Numbered(cmd, arg) == [ToMecha(cmd, <<>>, <<>>) EXCEPT !.arg = arg]

write_HD_start(mode, f) == Numbered("90", <<mode, KELF_header_size(f)>>)
mechacon_set_block_size(size) == Numbered("92", <<size>>)
mechacon_read_block_size(size) == Numbered("93", <<size>>)
get_BIT_length == ToMecha("91", <<>>, <<>>)
write_data(units) == [ToMecha("8D", <<>>, <<>>) EXCEPT !.units = units]
read_data == ToMecha("8E", <<>>, <<>>)
kbit1 == ToMecha("94", <<>>, <<"Kbit1">>)
kbit2 == ToMecha("95", <<>>, <<"Kbit2">>)
kc1 == ToMecha("96", <<>>, <<"Kc1">>)
kc2 == ToMecha("97", <<>>, <<"Kc2">>)
get_icvps2 == ToMecha("98", <<>>, <<"icvps2">>)

(* The units from+1 .. from+size, two at a time; the remainder on its own. *)
Chunks(from, size) ==
    [k \in 1..(size + 1) \div 2 |->
        IF 2 * k <= size THEN <<from + 2 * k - 1, from + 2 * k>> ELSE <<from + size>>]

secr_set_header(mode, f) ==
    <<write_HD_start(mode, f)>>
    \o [k \in 1..(KELF_header_size(f) + 1) \div 2 |-> write_data(Chunks(0, KELF_header_size(f))[k])]
    \o <<pol_cal_cmplt>>

Read_BIT(f) == <<get_BIT_length>> \o [k \in 1..(BitLength(f) + 1) \div 2 |-> read_data]

(* func_00000b5c cuts a remainder into one chunk too many, then comes to   *)
(* a length that write_data refuses: the step "toolong".                   *)
func_00000b5c(from, size) ==
    <<mechacon_set_block_size(size)>>
    \o [k \in 1..(size + 1) \div 2 |->
          write_data(<<from + 2 * k - 1, IF 2 * k <= size THEN from + 2 * k ELSE 0>>)]
    \o (IF size % 2 = 1 THEN <<Self("toolong")>> ELSE <<>>)
    \o <<pol_cal_cmplt>>

func_00000bfc(from, size) ==
    <<mechacon_read_block_size(size)>>
    \o [k \in 1..(size + 1) \div 2 |-> [read_data EXCEPT !.units = Chunks(from, size)[k]]]

(* The card encrypts (F2) or decrypts (F1) one half of a key.              *)
card_encrypt(v) ==
    <<card_auth("50"), card_auth_write(v, "51"), card_auth("52"), card_auth_read(v, "53")>>
func_0000077c(v) ==
    <<card_auth("40"), card_auth_write(v, "41"), card_auth("42"), card_auth_read(v, "43")>>

SecrDownloadHeader(f) == <<Rpc("header")>> \o secr_set_header(2, f) \o Read_BIT(f)
SecrDownloadGetKbit == <<Rpc("kbit"), kbit1, kbit2>> \o card_encrypt("Kbit1") \o card_encrypt("Kbit2")
SecrDownloadGetKc == <<Rpc("kc"), kc1, kc2>> \o card_encrypt("Kc1") \o card_encrypt("Kc2")
SecrDownloadGetICVPS2 == <<Rpc("icvps2"), get_icvps2>>

(* SECRSIF's buffer holds RpcUnits units; what lies behind is not the file *)
SecrDownloadBlock(f, i) ==
    LET carry(x) == [x EXCEPT !.units = [j \in DOMAIN @ |->
                        IF @[j] > BlockOffset(f, i) + RpcUnits THEN 0 ELSE @[j]]]
        steps == func_00000b5c(BlockOffset(f, i), f.blocks[i].size)
    IN  <<Rpc("block")>> \o [k \in DOMAIN steps |-> carry(steps[k])]

(* The loop of both SecrDownloadFile and SecrCardBootFile comes to block i. *)
Blocks(i) == [Self("block") EXCEPT !.arg = <<i>>]

SecrDownloadKeys(f) ==
    SecrDownloadGetKbit \o SecrDownloadGetKc
    \o <<Self("store_kbit"), Self("store_kc")>>
    \o (IF Uses_ICVPS2(f) THEN SecrDownloadGetICVPS2 \o <<Self("store_icvps2")>> ELSE <<>>)
SecrDownloadFile(f) == SecrDownloadHeader(f) \o <<Blocks(1)>> \o SecrDownloadKeys(f)

SecrCardBootHeader(f) ==
    <<Self("get_keys")>>
    \o func_0000077c("Kbit1") \o func_0000077c("Kbit2")
    \o func_0000077c("Kc1") \o func_0000077c("Kc2")
    \o <<Self("store_kc"), Self("store_kbit")>>
    \o secr_set_header(1, f) \o Read_BIT(f)

SecrCardBootBlock(f, i) ==
    func_00000b5c(BlockOffset(f, i), f.blocks[i].size)
    \o func_00000bfc(BlockOffset(f, i), f.blocks[i].size)

SecrCardBootFile(f) == SecrCardBootHeader(f) \o <<Blocks(1)>>

----------------------------------------------------------------------------
(* The two devices when they work on a file.                               *)

Half(name, s, keys) == [n |-> name, s |-> s, keys |-> keys]
Enc(half, id) == [n |-> half.n, card |-> id, keys |-> half.keys]
Halves == <<"Kbit1", "Kbit2", "Kc1", "Kc2">>

EncryptFor(c, v) ==
    IF v.n \in ToSet(Halves) /\ "s" \in DOMAIN v /\ v.s = c.s THEN Enc(v, c.id) ELSE Noise
DecryptFor(c, v) ==
    IF v.n \in ToSet(Halves) /\ "card" \in DOMAIN v /\ v.card = c.id
    THEN Half(v.n, c.s, v.keys) ELSE Noise

CardCrypto(c, cmd, in) ==
    LET starts == cmd \in {"40", "50"}
        stage == CASE starts -> 1 [] cmd \in {"41", "51"} -> 2
                   [] cmd \in {"42", "52"} -> 3 [] OTHER -> 0
        value == CASE cmd \in {"41", "51"} -> in[1]
                   [] cmd = "42" -> DecryptFor(c, c.val)
                   [] cmd = "52" -> EncryptFor(c, c.val)
                   [] OTHER -> Unset
    IN  IF c.auth /\ (starts \/ (c.stage + 1) % 4 = stage)
        THEN [dev |-> [c EXCEPT !.stage = stage, !.val = value], ok |-> TRUE,
              out |-> IF stage = 0 THEN <<c.val>> ELSE <<>>]
        ELSE [dev |-> c, ok |-> FALSE, out |-> <<>>]

CardDoes(c, cmd, in) ==
    IF cmd \in {"40", "41", "42", "43", "50", "51", "52", "53"}
    THEN CardCrypto(c, cmd, in)
    ELSE CardProtocol(c, cmd, in)

(* The mechacon checks the header, in mode 1 with the keys for its own     *)
(* session, and the signed blocks against it.                              *)
HeaderGood(m, units) ==
    /\ \A u \in DOMAIN units \ KeyPlaces(file) :
          units[u].n = "icvps2" \/ units[u] = Content(file)[u]
    /\ m.mode = 1 =>
          \A k \in 1..4 : LET v == units[KbitOffset(file) + k]
                          IN  v = Half(Halves[k], m.peer, file.keys)
BlockGood(m, units) ==
    LET marked == IF m.mode = 2 THEN Signed(file) ELSE Booted(file)
        i == CHOOSE j \in marked : Before(marked, j) = m.nth
    IN  units = SubSeq(Content(file), BlockOffset(file, i) + 1, BlockOffset(file, i + 1))

MechaTakes(m, in) ==
    LET all == m.got \o in
        good == IF m.op = "header" THEN HeaderGood(m, all) ELSE BlockGood(m, all)
    IN  IF m.op \in {"header", "block"} /\ Len(all) <= m.left
        THEN [dev |-> [m EXCEPT !.got = all,
                                !.calc = IF Len(all) < m.left THEN @
                                         ELSE IF good THEN "busy" ELSE "fails",
                                !.nth = IF Len(all) = m.left /\ m.op = "block" THEN @ + 1 ELSE @],
              ok |-> TRUE, out |-> <<>>]
        ELSE [dev |-> m, ok |-> FALSE, out |-> <<>>]

MechaOpens(m, op, mode, size) ==
    [dev |-> [m EXCEPT !.op = op, !.mode = mode, !.left = size, !.got = <<>>], ok |-> TRUE,
     out |-> <<>>]

MechaReady(m, cmd) ==
    CASE cmd = "90" -> m.auth
      [] cmd = "91" -> m.op = "header" /\ m.calc = "ok"
      [] cmd = "92" -> m.op \in {"header", "block"}
      [] cmd = "93" -> m.op = "block"
      [] cmd \in {"94", "95", "96", "97"} -> m.mode = 2 /\ m.calc = "ok"
      [] cmd = "98" -> m.mode = 2
      [] OTHER -> TRUE

MechaGets(m, cmd) ==
    CASE cmd = "94" -> <<Half("Kbit1", m.peer, file.keys)>>
      [] cmd = "95" -> <<Half("Kbit2", m.peer, file.keys)>>
      [] cmd = "96" -> <<Half("Kc1", m.peer, file.keys)>>
      [] cmd = "97" -> <<Half("Kc2", m.peer, file.keys)>>
      [] cmd = "98" -> <<[n |-> "icvps2"]>>
      [] OTHER -> <<>>

FileCommands == {"8D", "8E", "90", "91", "92", "93", "94", "95", "96", "97", "98"}

MechaDoes(m, cmd, arg, in) ==
    IF cmd \notin FileCommands THEN MechaProtocol(m, cmd, in)
    ELSE IF ~MechaReady(m, cmd) THEN [dev |-> m, ok |-> FALSE, out |-> <<>>]
    ELSE CASE cmd = "90" -> MechaOpens([m EXCEPT !.nth = 0, !.calc = "ok"], "header", arg[1], arg[2])
           [] cmd = "92" -> MechaOpens(m, "block", m.mode, arg[1])
           [] cmd = "8D" -> MechaTakes(m, in)
           [] OTHER -> [dev |-> m, ok |-> TRUE, out |-> MechaGets(m, cmd)]

----------------------------------------------------------------------------
Stored(b, at, vs) == [u \in DOMAIN b |-> IF u - at \in DOMAIN vs THEN vs[u - at] ELSE b[u]]

(* A file signed for card id, as it may lie there when the program starts. *)
SignedFor(f, id) ==
    [file |-> f, card |-> id, all |-> TRUE,
     buf |-> Stored(Content(f), KbitOffset(f),
                    [k \in 1..4 |-> [n |-> Halves[k], card |-> id, keys |-> f.keys]])]

Init ==
    /\ isDEX \in BOOLEAN
    /\ handler = FALSE
    /\ card = NewCard(CHOOSE id \in Cards : TRUE)
    /\ mecha = ResetMecha
    /\ fn = "idle" /\ todo = <<>> /\ result = 0
    /\ loc = [v \in Locals \cup ToSet(Halves) \cup {"icvps2"} |-> Unset]
    /\ tries = 0 /\ faults = 0 /\ swaps = 0 /\ hit = "no"
    /\ file = (CHOOSE f \in Files : TRUE) /\ buf = <<>> /\ twin = file
    /\ start = card.id /\ due = FALSE
    /\ \/ signed = [file |-> file, buf |-> <<>>, card |-> "none", all |-> FALSE]
       \/ \E f \in OldFiles, id \in Cards \ {card.id} : Signable(f) /\ signed = SignedFor(f, id)

(* _start left both callbacks NULL; MCMAN registers its own.               *)
SetMcHandlers ==
    /\ handler' = TRUE
    /\ handler = FALSE /\ fn = "idle"
    /\ UNCHANGED <<isDEX, devices, fn, todo, loc, result, bounds, hit, fileVars, start, due, signed>>

(* An operation starts: without the handler it returns 0 at once.          *)
Start(f, script, mustSucceed) ==
    /\ fn = "idle" /\ tries < MaxTries
    /\ tries' = tries + 1
    /\ start' = card.id
    /\ hit' = "no"
    /\ result' = 0
    /\ loc' = [v \in DOMAIN loc |-> Unset]
    /\ fn' = (IF handler THEN f ELSE "idle")
    /\ todo' = (IF handler THEN script ELSE <<>>)
    /\ due' = (handler /\ mustSucceed)
    /\ UNCHANGED <<isDEX, handler, devices, faults, swaps, signed>>

SecrAuthCard == Start("auth", Handshake, TRUE) /\ UNCHANGED fileVars

(* This one does not look at the handler before it calls it; MCMAN, whose  *)
(* entry it is, has registered it by then.                                 *)
SecrResetAuthCard ==
    handler /\ Start("reset", <<card_auth_60, mechacon_auth_80>>, FALSE) /\ UNCHANGED fileVars

SignKELF(f) ==
    /\ Start("sign", SecrDownloadFile(f), Paired /\ Signable(f))
    /\ file' = f /\ twin' = f /\ buf' = Content(f)

(* For a PSX file the PS2 file is read and signed first.                   *)
TwinSignKELF(f, g) ==
    /\ Start("sign", SecrDownloadFile(f), Paired /\ Signable(f))
    /\ file' = f /\ twin' = g /\ buf' = Content(f)

TwinUnreadable(f, g) ==
    /\ Start("failed", <<>>, FALSE)
    /\ UNCHANGED fileVars

BootSigned ==
    /\ signed.card # "none"
    /\ Start("boot", SecrCardBootFile(signed.file),
             Paired /\ signed.card = card.id
                    /\ \A i \in DOMAIN signed.file.blocks : signed.file.blocks[i].size % 2 = 0)
    /\ file' = signed.file /\ twin' = signed.file /\ buf' = signed.buf

----------------------------------------------------------------------------
(* The steps of an operation.                                              *)

x == Head(todo)
Sent == [i \in DOMAIN x.units |-> IF x.units[i] = 0 THEN Noise ELSE buf[x.units[i]]]
        \o [i \in DOMAIN x.put |-> loc[x.put[i]]]
Device == IF x.to = "card" THEN CardDoes(card, x.cmd, Sent)
                           ELSE MechaDoes(mecha, x.cmd, x.arg, Sent)

(* The rest of the script, or what the function does when one has failed.  *)
Next_(ok) ==
    IF ok \/ fn \in {"reset", "cleanup"}
    THEN /\ todo' = Tail(todo) /\ UNCHANGED fn
    ELSE /\ fn' = (IF fn = "auth" THEN "cleanup" ELSE "failed")
         /\ todo' = (IF fn = "auth" THEN ErrorEnd(x) ELSE <<>>)

(* a bug: the loop waits for 0, and an error is never 0                    *)
PollsForever(m) == x.cmd = "8F" /\ m.calc # "ok"
(* pol_cal_cmplt asks again as long as the answer is 1.                    *)
PollsAgain(m) == x.cmd = "8F" /\ m.calc = "busy"

(* An exchange: done; lost before or after the device acted; or its        *)
(* answer garbled.                                                         *)
Exchange(how) ==
    /\ todo # <<>> /\ x.to \in {"card", "mecha"}
    /\ ~(PollsAgain(mecha) /\ how = "done")
    /\ how # "done" => faults < MaxFaults
    /\ how = "garbled" => x.to = "card" /\ x.get # <<>>
    /\ LET acts == how # "lost"
           r == [heard |-> how \in {"done", "garbled"}, refused |-> ~Device.ok,
                 intact |-> how # "garbled"]
           ok == IF x.cmd = "8E" THEN r.heard ELSE Accepted(x, r)
           got(j) == IF how = "garbled" \/ j \notin DOMAIN Device.out THEN Noise ELSE Device.out[j]
       IN  /\ card' = (IF acts /\ x.to = "card" THEN Device.dev ELSE card)
           /\ mecha' = (IF acts /\ x.to = "mecha" THEN Device.dev ELSE mecha)
           /\ loc' = [v \in DOMAIN loc |->
                        IF ok /\ \E j \in DOMAIN x.get : x.get[j] = v
                        THEN got(CHOOSE j \in DOMAIN x.get : x.get[j] = v) ELSE loc[v]]
           /\ Next_(ok)
    /\ faults' = (IF how = "done" THEN faults ELSE faults + 1)
    /\ hit' = (IF how = "done" THEN hit ELSE "yes")
    /\ UNCHANGED <<isDEX, handler, result, tries, swaps, fileVars, start, due, signed>>

(* An RPC of libsecr reaches SECRSIF, or SifCallRpc fails.                 *)
RpcStep(ok) ==
    /\ todo # <<>> /\ x.to = "rpc"
    /\ ~ok => faults < MaxFaults
    /\ Next_(ok)
    /\ faults' = (IF ok THEN faults ELSE faults + 1)
    /\ hit' = (IF ok THEN hit ELSE "yes")
    /\ UNCHANGED <<isDEX, handler, devices, loc, result, tries, swaps, fileVars, start, due, signed>>

(* libsecr stores the keys of a signing, keyman those of a boot.           *)
store_kbit(b) ==
    Stored(b, IF fn = "sign" THEN LibsecrKbit(file) ELSE KeymanKbit(file), <<loc["Kbit1"], loc["Kbit2"]>>)
store_kc(b) == Stored(b, IF fn = "sign" THEN LibsecrKc(file) ELSE KeymanKc(file), <<loc["Kc1"], loc["Kc2"]>>)
KeyUnit(f, k) == IF k <= 2 THEN get_Kbit(f) + k ELSE get_Kc(f) + k - 2
store_icvps2(b) == Stored(b, KELF_header_size(file) - 1, <<loc["icvps2"]>>)

(* What the function does by itself between two exchanges.                 *)
SelfStep ==
    /\ todo # <<>> /\ x.to = "self" /\ x.cmd # "block"
    /\ buf' = (CASE x.cmd = "store_kbit" -> store_kbit(buf)
                 [] x.cmd = "store_kc" -> store_kc(buf)
                 [] x.cmd = "store_icvps2" -> store_icvps2(buf)
                 [] OTHER -> buf)
    /\ loc' = (IF x.cmd = "get_keys"
               THEN [v \in DOMAIN loc |->
                       IF v \in ToSet(Halves)
                       THEN buf[KeyUnit(file, CHOOSE k \in 1..4 : Halves[k] = v)]
                       ELSE loc[v]]
               ELSE loc)
    /\ Next_(x.cmd # "toolong")
    /\ UNCHANGED <<isDEX, handler, devices, result, bounds, hit, file, twin, start, due, signed>>

(* One round of the loop over the blocks.                                  *)
BlockCalls(i) ==
    IF fn = "sign" THEN IF i \in Signed(file) THEN SecrDownloadBlock(file, i) ELSE <<>>
                   ELSE IF i \in Booted(file) THEN SecrCardBootBlock(file, i) ELSE <<>>
NextBlock ==
    /\ todo # <<>> /\ x.to = "self" /\ x.cmd = "block"
    /\ LET i == x.arg[1]
       IN  todo' = (IF i \in DOMAIN file.blocks THEN BlockCalls(i) \o <<Blocks(i + 1)>> ELSE <<>>)
                   \o Tail(todo)
    /\ UNCHANGED <<isDEX, handler, devices, fn, loc, result, bounds, hit, fileVars, start, due, signed>>

(* GetKbitAndKc of the PS2 file, SetKbitAndKc of the PSX file.             *)
GetKbitAndKc(b) == SubSeq(b, TwinGet(file) + 1, TwinGet(file) + 4)
SetKbitAndKc(g, keys) == Stored(Content(g), TwinSet(g), keys)

Return ==
    /\ fn # "idle" /\ todo = <<>>
    /\ result' = (IF fn \in {"cleanup", "failed", "reset"} THEN 0 ELSE 1)
    /\ signed' = (IF fn # "sign" THEN signed
                  ELSE [file |-> twin, card |-> start, all |-> mecha.nth = Cardinality(Signed(file)),
                        buf |-> IF twin = file THEN buf ELSE SetKbitAndKc(twin, GetKbitAndKc(buf))])
    /\ fn' = "idle"
    /\ UNCHANGED <<isDEX, handler, devices, todo, loc, bounds, hit, fileVars, start, due>>

----------------------------------------------------------------------------
(* Outside the code.                                                       *)

Calculated ==
    /\ mecha.calc = "busy"
    /\ mecha' = [mecha EXCEPT !.calc = "ok"]
    /\ UNCHANGED <<isDEX, handler, card, fn, todo, loc, result, bounds, hit, fileVars, start, due, signed>>

SwapCard(id) ==
    /\ swaps < MaxSwaps /\ id # card.id
    /\ card' = NewCard(id)
    /\ swaps' = swaps + 1
    /\ hit' = (IF fn = "auth" /\ Len(todo) < 2 THEN "late" ELSE "yes")
    /\ UNCHANGED <<isDEX, handler, mecha, fn, todo, loc, result, tries, faults, fileVars, start, due, signed>>

Step == \/ \E how \in {"done", "lost", "unheard", "garbled"} : Exchange(how)
        \/ \E ok \in BOOLEAN : RpcStep(ok)
        \/ SelfStep
        \/ NextBlock
        \/ Return

Next == \/ SetMcHandlers
        \/ SecrAuthCard
        \/ SecrResetAuthCard
        \/ \E f \in Files : SignKELF(f)
        \/ \E p \in Twins : TwinSignKELF(p[1], p[2]) \/ TwinUnreadable(p[1], p[2])
        \/ BootSigned
        \/ Step
        \/ Calculated
        \/ \E id \in Cards : SwapCard(id)

(* The IOP runs the operation on, and the mechacon ends its calculations.  *)
Spec == Init /\ [][Next]_vars /\ WF_vars(Step) /\ WF_vars(Calculated)

----------------------------------------------------------------------------
TypeOK ==
    /\ fn \in {"idle", "auth", "cleanup", "reset", "sign", "boot", "failed"}
    /\ fn = "idle" => todo = <<>>
    /\ card.id \in Cards /\ card.at \in 0..21 /\ card.stage \in 0..3
    /\ mecha.calc \in {"ok", "busy", "fails"} /\ Len(mecha.got) <= mecha.left
    /\ result \in {0, 1} /\ hit \in {"no", "late", "yes"}
    /\ file \in Files /\ twin \in Files

(* A card reported as authenticated is paired with the mechacon: a lost or *)
(* garbled exchange is never passed over, and a card swapped in during the *)
(* handshake is not taken for the one that began it.  Only a swap after    *)
(* the card's last command goes unnoticed until the card is next used.     *)
AuthMeansBoth == [][fn = "auth" /\ fn' = "idle" => Paired \/ hit = "late"]_vars

(* A failed authentication leaves no pair of this handshake behind, though *)
(* its own clean-up may be lost too: it takes the last answer and both     *)
(* resets, three faults, to leave one.                                     *)
FailedTryLeavesNoPair ==
    [][fn = "cleanup" /\ fn' = "idle" /\ faults < 3 => ~(Paired /\ card.s = tries)]_vars

(* An operation that meets no fault and no swap succeeds, whatever earlier *)
(* operations left behind in the two devices when they were cut short.     *)
CleanTrySucceeds ==
    [][fn # "idle" /\ fn' = "idle" /\ due /\ hit = "no" => result' = 1]_vars

(* A file reported as signed has all four key halves encrypted by the one  *)
(* card that was in the slot when the signing began, each at the place the *)
(* file's own header names, and nothing else in it is disturbed; the       *)
(* mechacon saw every block the bit table marks.                           *)
SignedIsBound ==
    signed.card # "none" =>
        LET f == signed.file IN
        /\ signed.all
        /\ \A u \in DOMAIN signed.buf :
              IF u \in KeyPlaces(f)
              THEN signed.buf[u] = [n |-> Halves[u - KbitOffset(f)], card |-> signed.card,
                                    keys |-> f.keys]
              ELSE \/ signed.buf[u] = Content(f)[u]
                   \/ f.icvps2 /\ u = KELF_header_size(f)

(* A signed file boots from no card but the one it was signed for.         *)
BootsOnlyOnItsCard ==
    [][fn = "boot" /\ fn' = "idle" /\ result' = 1 => signed.card = start]_vars

(* Every operation returns: pol_cal_cmplt's loop ends with an answer       *)
(* other than 1.                                                           *)
Returns == (fn # "idle") ~> (fn = "idle")

=============================================================================
