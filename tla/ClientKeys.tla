---------------------------- MODULE ClientKeys ----------------------------
(* The keyboard filter of the client (mjolnir_client/src/connect.rs,          *)
(* KeyNormalizer): a terminal left in kitty or modifyOtherKeys mode sends a   *)
(* printable key as an escape sequence, and the filter turns it back into     *)
(* the one byte the guest understands.  It works on a stream: a read may end  *)
(* anywhere inside a sequence.  Bytes are their ASCII codes.                  *)
EXTENDS Integers, Sequences, SequencesExt, TLC

CONSTANTS
    HoldMax,     \* the 48 bytes scan_legacy_key looks at
    KeyInputs    \* what is typed, whole

VARIABLES
    typing,      \* [whole, rest]: what was typed and what has not been read yet
    pending,     \* KeyNormalizer.pending
    keysOut,     \* what went to the guest
    flushed      \* the hold ran out and pending was sent as it was

keyVars == <<typing, pending, keysOut, flushed>>

ESC == 27
OpenBracket == 91
Colon == 58
Semicolon == 59
Tilde == 126
LetterU == 117
Digits == 48 .. 57
Printable == 32 .. 126

----------------------------------------------------------------------------
(* The scanner.  Positions are 1-based; a scan answers [tag, n, at]: what was *)
(* read and the position after it.                                            *)

More == [tag |-> "more", n |-> 0, at |-> 0]
Bad == [tag |-> "bad", n |-> 0, at |-> 0]
Ok(n, at) == [tag |-> "ok", n |-> n, at |-> at]

\* A scan goes on from where the one before it stopped, or gives its verdict.
Then(r, Op(_, _)) == IF r.tag = "ok" THEN Op(r.n, r.at) ELSE r

DigitsAt(s, i) == IF i > Len(s) THEN 0
                  ELSE CHOOSE k \in 0 .. (Len(s) - i + 1) :
                          /\ \A j \in 1 .. k : s[i + j - 1] \in Digits
                          /\ i + k <= Len(s) => s[i + k] \notin Digits

\* The number the k digits from i on make.
Decimal(s, i, k) ==
    LET upTo[j \in 0 .. k] == IF j = 0 THEN 0 ELSE 10 * upTo[j - 1] + (s[i + j - 1] - 48)
    IN  upTo[k]

\* Mutant: the end of the buffer ends the number.
NumberCutShort(s, i) ==
    LET k == DigitsAt(s, i) IN
    CASE i > Len(s) -> More
      [] i <= Len(s) /\ (k = 0 \/ k > 8) -> Bad
      [] OTHER -> Ok(Decimal(s, i, k), i + k)

\* More than eight digits are no number; digits up to the end may go on.
number(s, i) ==
    LET k == DigitsAt(s, i) IN
    CASE i > Len(s) -> More
      [] i <= Len(s) /\ (k = 0 \/ k > 8) -> Bad
      [] OTHER -> IF i + k > Len(s) THEN More
                  ELSE Ok(Decimal(s, i, k), i + k)

ByteAt(s, i, byte) == i <= Len(s) /\ s[i] = byte

\* Any run of ":<number>" sub-parameters.
RECURSIVE skip_colons(_, _)
skip_colons(s, i) ==
    IF ByteAt(s, i, Colon)
    THEN Then(number(s, i + 1), LAMBDA n, at : skip_colons(s, at))
    ELSE Ok(0, i)

\* One parameter: a number and the sub-parameters after it.
Parameter(s, i) ==
    Then(number(s, i), LAMBDA n, at : Then(skip_colons(s, at), LAMBDA z, end : Ok(n, end)))

plain_mod(mods) == mods \in {1, 2}

ShiftOf == (49 :> 33) @@ (50 :> 64) @@ (51 :> 35) @@ (52 :> 36) @@ (53 :> 37)
        @@ (54 :> 94) @@ (55 :> 38) @@ (56 :> 42) @@ (57 :> 40) @@ (48 :> 41)
        @@ (96 :> 126) @@ (45 :> 95) @@ (61 :> 43) @@ (91 :> 123) @@ (93 :> 125)
        @@ (92 :> 124) @@ (59 :> 58) @@ (39 :> 34) @@ (44 :> 60) @@ (46 :> 62)
        @@ (47 :> 63)

apply_shift(key) == CASE key \in 97 .. 122 -> key - 32
                      [] key \in DOMAIN ShiftOf -> ShiftOf[key]
                      [] OTHER -> key

\* The final byte, then the key when it is printable and unmodified.
Final(s, i, byte, key, mods) ==
    CASE i > Len(s) -> More
      [] ByteAt(s, i, byte) /\ plain_mod(mods) /\ key \in Printable -> Ok(key, i + 1)
      [] OTHER -> Bad

\* ESC [ 27 ; mods ; code ~
ModifyPrefix == <<50, 55, Semicolon>>

modify_other_keys(s) ==
    IF Len(s) < 3 THEN More
    ELSE Then(number(s, 4), LAMBDA mods, i :
            IF ~ByteAt(s, i, Semicolon) THEN Bad
            ELSE Then(number(s, i + 1), LAMBDA code, j : Final(s, j, Tilde, code, mods)))

\* ESC [ key (; mods (; text)) u: the text wins over the key, Shift is
\* applied to a key without text.
kitty_printable(s) ==
    Then(Parameter(s, 1), LAMBDA key, i :
      IF ~ByteAt(s, i, Semicolon) THEN Final(s, i, LetterU, key, 1)
      ELSE Then(Parameter(s, i + 1), LAMBDA mods, j :
             IF ~ByteAt(s, j, Semicolon)
             THEN Final(s, j, LetterU, IF mods = 2 /\ key \in Printable
                                       THEN apply_shift(key) ELSE key, mods)
             ELSE Then(Parameter(s, j + 1), LAMBDA text, k :
                         Final(s, k, LetterU, text, mods))))

csi_printable(s) ==
    IF IsPrefix(ModifyPrefix, s) \/ IsPrefix(s, ModifyPrefix)
    THEN modify_other_keys(s)
    ELSE kitty_printable(s)

\* What the front of a buffer is: n bytes to pass on, a key, or a sequence
\* that may still go on.
Forward(n) == [tag |-> "forward", n |-> n, at |-> n + 1]

\* The verdict on what follows ESC [ as one on the whole.
AfterBracket(csi) ==
    CASE csi.tag = "ok" -> Ok(csi.n, csi.at + 2)
      [] csi.tag = "more" -> More
      [] csi.tag = "bad" -> Forward(1)

scan_legacy_key(buf) ==
    LET escapes == {i \in 1 .. Len(buf) : buf[i] = ESC} IN
    CASE buf[1] # ESC -> Forward(IF escapes = {} THEN Len(buf)
                                 ELSE (CHOOSE i \in escapes : \A j \in escapes : i <= j) - 1)
      [] buf = <<ESC>> \/ buf = <<ESC, OpenBracket>> -> More
      [] buf[1] = ESC /\ Len(buf) > 1 /\ (buf[2] # OpenBracket \/ Len(buf) > HoldMax) -> Forward(1)
      [] OTHER -> AfterBracket(csi_printable(SubSeq(buf, 3, Len(buf))))

\* KeyNormalizer::drain: [out, pending].
RECURSIVE drain_keys(_, _)
drain_keys(buf, force) ==
    IF buf = <<>> THEN [out |-> <<>>, pending |-> <<>>]
    ELSE LET scan == scan_legacy_key(buf)
             rest == drain_keys(SubSeq(buf, scan.at, Len(buf)), force)
         IN  CASE scan.tag = "forward" -> [rest EXCEPT !.out = SubSeq(buf, 1, scan.n) \o @]
               [] scan.tag = "ok" -> [rest EXCEPT !.out = <<scan.n>> \o @]
               [] scan.tag = "more" /\ force -> [out |-> buf, pending |-> <<>>]
               [] OTHER -> [out |-> <<>>, pending |-> buf]

----------------------------------------------------------------------------
(* The stream.                                                                *)

KeyInit ==
    /\ \E s \in KeyInputs : typing = [whole |-> s, rest |-> s]
    /\ pending = <<>>
    /\ keysOut = <<>>
    /\ flushed = FALSE

\* One read of stdin, of any length.
push ==
    /\ \E n \in 1 .. Len(typing.rest) :
          LET d == drain_keys(pending \o SubSeq(typing.rest, 1, n), FALSE)
          IN  /\ typing' = [typing EXCEPT !.rest = SubSeq(@, n + 1, Len(@))]
              /\ pending' = d.pending
              /\ keysOut' = keysOut \o d.out
    /\ UNCHANGED flushed

\* KEY_HOLD_MS went by with the prefix still unfinished.
flush ==
    /\ pending # <<>>
    /\ LET d == drain_keys(pending, TRUE)
       IN  /\ pending' = d.pending
           /\ keysOut' = keysOut \o d.out
    /\ flushed' = TRUE
    /\ UNCHANGED typing

KeyNext == push \/ flush

----------------------------------------------------------------------------

\* What the guest receives does not depend on where the reads cut the input:
\* at every moment the bytes sent, the bytes held and the bytes still to be
\* read make the same keys as the input read in one piece.  Beyond HoldMax
\* buffered bytes the scanner gives a sequence up by design, and a flush has
\* already sent a prefix (KeyNormalizer::push, drain, scan_legacy_key).
SplitsDoNotShow ==
    flushed \/ Len(typing.whole) > HoldMax
    \/ keysOut \o drain_keys(pending \o typing.rest, TRUE).out = drain_keys(typing.whole, TRUE).out
============================================================================
