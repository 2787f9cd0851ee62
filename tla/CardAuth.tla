------------------------------ MODULE CardAuth ------------------------------
(***************************************************************************)
(* SECRMAN's authentication of a memory card: SecrAuthCard carries values  *)
(* between two devices, the card behind SIO2 and the mechacon behind the   *)
(* CD/DVD S commands, until each has proved itself to the other.           *)
(*                                                                         *)
(* An operation is a script: the sequence of exchanges its nested ifs      *)
(* make, each with the locals it sends and the locals it fills.  One       *)
(* action, Exchange, runs the next one.  The two devices are outside the   *)
(* sources: they follow their own protocol and accept only what belongs to *)
(* the session they are in.  Any exchange may be lost before or after the  *)
(* device acts, a card's answer may be garbled, and the card may be        *)
(* swapped at any time.                                                    *)
(***************************************************************************)
EXTENDS Naturals, Sequences

CONSTANTS
    Cards,      \* the cards that may be in the slot
    MaxTries,   \* bound: operations started
    MaxFaults,  \* bound: exchanges that go wrong
    MaxSwaps    \* bound: cards swapped

ASSUME BoundsAssumption == {MaxTries, MaxFaults, MaxSwaps} \subseteq Nat

VARIABLES
    isDEX,      \* the flag SECRMAN's _start reads from rom0:ROMVER
    handler,    \* TRUE once MCMAN has registered its two callbacks
    card,       \* the card in the slot
    mecha,      \* the mechacon
    fn,         \* the operation SECRMAN is in, "idle" when in none
    todo,       \* the exchanges the operation has still to make
    loc,        \* the locals of the operation
    result,     \* what the last operation returned
    tries,      \* operations started
    hit,        \* did a fault or a swap touch the operation: "no", "yes", or
                \* "late" when the card's part of an authentication was over
    faults,     \* exchanges that went wrong
    swaps       \* cards swapped

devices == <<card, mecha>>
bounds == <<tries, faults, swaps>>
authVars == <<isDEX, handler, card, mecha, fn, todo, loc, result, tries, hit, faults, swaps>>

----------------------------------------------------------------------------
(* The values exchanged: s is the number of the operation that made one.   *)

Value(name, s) == [n |-> name, s |-> s]
Unset == [n |-> "unset"]
Noise == [n |-> "noise"]

Locals == {"CardIV", "CardMaterial", "CardNonce", "MechaChallenge1", "MechaChallenge2lo",
           "MechaChallenge2hi", "MechaChallenge3", "CardResponse1", "CardResponse2",
           "CardResponse3"}

----------------------------------------------------------------------------
(* The exchanges.  put and get are the locals sent and filled; units and   *)
(* arg, places in the file's buffer and numbers, are for the exchanges     *)
(* module Secrman adds.                                                    *)

Exchanged(to, cmd, put, get) ==
    [to |-> to, cmd |-> cmd, put |-> put, get |-> get, units |-> <<>>, arg |-> <<>>]
ToCard(cmd, put, get) == Exchanged("card", cmd, put, get)
ToMecha(cmd, put, get) == Exchanged("mecha", cmd, put, get)

card_auth_60 == ToCard("60", <<>>, <<>>)
card_auth_key_change == ToCard("F7", <<>>, <<>>)
card_auth(cmd) == ToCard(cmd, <<>>, <<>>)
card_auth2(cmd) == ToCard(cmd, <<>>, <<>>)
card_auth_write(v, cmd) == ToCard(cmd, <<v>>, <<>>)
card_auth_read(v, cmd) == ToCard(cmd, <<>>, <<v>>)

mechacon_auth_80 == ToMecha("80", <<>>, <<>>)
mechacon_auth_81 == ToMecha("81", <<>>, <<>>)
mechacon_auth_82 == ToMecha("82", <<"CardIV", "CardMaterial">>, <<>>)
mechacon_auth_83 == ToMecha("83", <<"CardNonce">>, <<>>)
mechacon_auth_84 == ToMecha("84", <<>>, <<"MechaChallenge1", "MechaChallenge2lo">>)
mechacon_auth_85 == ToMecha("85", <<>>, <<"MechaChallenge2hi", "MechaChallenge3">>)
mechacon_auth_86 == ToMecha("86", <<"CardResponse1", "CardResponse2">>, <<>>)
mechacon_auth_87 == ToMecha("87", <<"CardResponse3">>, <<>>)
mechacon_auth_88 == ToMecha("88", <<>>, <<>>)
pol_cal_cmplt == ToMecha("8F", <<>>, <<>>)

(* a bug: a card's refusal, or the mechacon's status, is not looked at     *)
RefusalUnchecked(x, r) == r.heard /\ (x.to = "card" /\ x.get # <<>> => r.intact)
(* Is the answer r of exchange x taken as a success?  Every card exchange  *)
(* wants the transfer to have worked, the ID byte and no refusal; a read   *)
(* alone also checks the sum of the eight bytes.                           *)
Accepted(x, r) == r.heard /\ ~r.refused /\ (x.to = "card" /\ x.get # <<>> => r.intact)

----------------------------------------------------------------------------
(* SecrAuthCard's nested ifs, in the order they run.                       *)

(* a bug: the mechacon is not reset first                                  *)
OpeningWithoutReset ==
    <<card_auth_60, card_auth_key_change, card_auth("00"), mechacon_auth_81,
      card_auth_read("CardIV", "01"), card_auth_read("CardMaterial", "02"), mechacon_auth_82,
      card_auth("03"), card_auth_read("CardNonce", "04"), mechacon_auth_83,
      card_auth("05"), pol_cal_cmplt>>

Opening ==
    <<card_auth_60, mechacon_auth_80>>
    \o (IF isDEX THEN <<>> ELSE <<card_auth_key_change>>)
    \o <<card_auth("00"), mechacon_auth_81,
         card_auth_read("CardIV", "01"), card_auth_read("CardMaterial", "02"), mechacon_auth_82,
         card_auth("03"), card_auth_read("CardNonce", "04"), mechacon_auth_83,
         card_auth("05"), pol_cal_cmplt>>

MechaChallenges ==
    <<mechacon_auth_84, mechacon_auth_85,
      card_auth_write("MechaChallenge3", "06"),
      ToCard("07", <<"MechaChallenge2lo", "MechaChallenge2hi">>, <<>>),
      card_auth("08"), card_auth2("09"), card_auth("0A"),
      card_auth_write("MechaChallenge1", "0B"), card_auth("0C"), card_auth2("0D")>>

CardResponses ==
    <<card_auth("0E"), card_auth_read("CardResponse1", "0F"), card_auth("10"),
      card_auth_read("CardResponse2", "11"), mechacon_auth_86, card_auth("12"),
      card_auth_read("CardResponse3", "13"), mechacon_auth_87, pol_cal_cmplt,
      card_auth("14"), mechacon_auth_88>>

Handshake == Opening \o MechaChallenges \o CardResponses

(* What SecrAuthCard still sends after exchange x failed; a bug: only the  *)
(* card is reset.                                                          *)
CardOnlyAfter(x) == IF x \in {card_auth_60, mechacon_auth_80} THEN <<>> ELSE <<card_auth_60>>
ErrorEnd(x) ==
    CASE x \in {card_auth_60, mechacon_auth_80} -> <<>>
      [] x \in {card_auth_key_change, card_auth("00"), mechacon_auth_81} -> <<card_auth_60>>
      [] OTHER -> <<card_auth_60, mechacon_auth_80>>

----------------------------------------------------------------------------
(* The two devices.  Each answers [dev, ok, out]: its next state, whether  *)
(* it accepts, and the values it hands over.                               *)

NewCard(id) == [id |-> id, at |-> 0, s |-> 0, auth |-> FALSE, stage |-> 0, val |-> Unset]
ResetMecha == [at |-> 0, peer |-> 0, auth |-> FALSE, calc |-> "ok",
               op |-> "none", mode |-> 0, left |-> 0, got |-> <<>>, nth |-> 0]

CardOrder == <<"00", "01", "02", "03", "04", "05", "06", "07", "08", "09", "0A",
               "0B", "0C", "0D", "0E", "0F", "10", "11", "12", "13", "14">>
MechaOrder == <<"81", "82", "83", "84", "85", "86", "87", "88">>

CardGives(c, cmd) ==
    CASE cmd = "01" -> <<Value("CardIV", c.s)>>
      [] cmd = "02" -> <<Value("CardMaterial", c.s)>>
      [] cmd = "04" -> <<Value("CardNonce", c.s)>>
      [] cmd = "0F" -> <<Value("CardResponse1", c.s)>>
      [] cmd = "11" -> <<Value("CardResponse2", c.s)>>
      [] cmd = "13" -> <<Value("CardResponse3", c.s)>>
      [] OTHER -> <<>>

(* The challenges must answer this card's nonce: the mechacon's are made   *)
(* in the same operation as the nonce it was given.                        *)
CardWants(c, cmd, in) ==
    CASE cmd = "06" -> in = <<Value("MechaChallenge3", c.s)>>
      [] cmd = "07" -> in = <<Value("MechaChallenge2lo", c.s), Value("MechaChallenge2hi", c.s)>>
      [] cmd = "0B" -> in = <<Value("MechaChallenge1", c.s)>>
      [] OTHER -> TRUE

CardHandshake(c, cmd, in) ==
    IF c.at < Len(CardOrder) /\ CardOrder[c.at + 1] = cmd /\ CardWants(c, cmd, in)
    THEN LET d == [c EXCEPT !.at = @ + 1, !.s = IF cmd = "00" THEN tries ELSE @,
                            !.auth = (cmd = "14")]
         IN  [dev |-> d, ok |-> TRUE, out |-> CardGives(d, cmd)]
    ELSE [dev |-> c, ok |-> FALSE, out |-> <<>>]

CardProtocol(c, cmd, in) ==
    CASE cmd = "60" -> [dev |-> NewCard(c.id), ok |-> TRUE, out |-> <<>>]
      [] cmd = "F7" -> [dev |-> c, ok |-> TRUE, out |-> <<>>]
      [] OTHER -> CardHandshake(c, cmd, in)

MechaGives(m, cmd) ==
    CASE cmd = "84" -> <<Value("MechaChallenge1", m.peer), Value("MechaChallenge2lo", m.peer)>>
      [] cmd = "85" -> <<Value("MechaChallenge2hi", m.peer), Value("MechaChallenge3", m.peer)>>
      [] OTHER -> <<>>

MechaWants(m, cmd, in) ==
    CASE cmd = "82" -> in[1].n = "CardIV" /\ in[2].n = "CardMaterial" /\ in[1].s = in[2].s
      [] cmd = "83" -> in[1].n = "CardNonce"
      [] cmd = "86" -> in = <<Value("CardResponse1", m.peer), Value("CardResponse2", m.peer)>>
      [] cmd = "87" -> in = <<Value("CardResponse3", m.peer)>>
      [] OTHER -> TRUE

MechaHandshake(m, cmd, in) ==
    IF /\ m.at < Len(MechaOrder) /\ MechaOrder[m.at + 1] = cmd /\ m.calc = "ok"
    THEN LET good == MechaWants(m, cmd, in)
             n == [m EXCEPT !.at = @ + 1, !.auth = (cmd = "88"),
                            !.peer = IF cmd = "83" /\ good THEN in[1].s ELSE @,
                            !.calc = IF cmd \in {"83", "87"}
                                     THEN IF good THEN "busy" ELSE "fails" ELSE @]
         IN  IF good \/ cmd \in {"83", "87"}
             THEN [dev |-> n, ok |-> TRUE, out |-> MechaGives(n, cmd)]
             ELSE [dev |-> m, ok |-> FALSE, out |-> <<>>]
    ELSE [dev |-> m, ok |-> FALSE, out |-> <<>>]

(* "8F" reports the calculation: 1 while busy, 0 when it worked, another   *)
(* number when it did not.                                                 *)
MechaProtocol(m, cmd, in) ==
    CASE cmd = "80" -> [dev |-> ResetMecha, ok |-> TRUE, out |-> <<>>]
      [] cmd = "8F" -> [dev |-> m, ok |-> m.calc = "ok" /\ Len(m.got) = m.left, out |-> <<>>]
      [] OTHER -> MechaHandshake(m, cmd, in)

(* Both hold the key of one and the same handshake.                        *)
Paired == card.auth /\ mecha.auth /\ mecha.peer = card.s

=============================================================================
