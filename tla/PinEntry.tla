------------------------------ MODULE PinEntry -------------------------------
(***************************************************************************)
(* The PIN of the wallet: the rules that a new PIN must satisfy, and the   *)
(* private key that is derived from it.                                    *)
(*                                                                         *)
(* A PIN is a sequence of characters, each with the digit that it stands   *)
(* for, if any, and the number of bytes that it takes in UTF-8.  The       *)
(* numbers of the key derivation are scaled down: a curve of a small order *)
(* and integers of a few bits.                                             *)
(***************************************************************************)
EXTENDS Integers, Sequences, SequencesExt, FiniteSetsExt

CONSTANTS EXACT_LENGTH,         \* of a PIN, in bytes
          MIN_UNIQUE_DIGITS,
          RADIX,
          ORDER,                \* the order of the curve
          ScalarBits,           \* bits of a scalar (U256)
          WideBits,             \* bits of the wider integers (U384)
          HkdfBits              \* bits that hkdf is asked for

ASSUME PinEntryAssumption ==
    /\ EXACT_LENGTH >= 2 /\ RADIX >= 2
    /\ 2 < ORDER /\ ORDER < 2 ^ ScalarBits
    /\ ScalarBits < HkdfBits /\ HkdfBits <= WideBits

VARIABLES entered,      \* the PIN that was entered last, and what was said of it
          derived       \* the output of hkdf, and the private key made of it

pinVars == <<entered, derived>>

-----------------------------------------------------------------------------
(* Validation.                                                              *)

NonDigit == RADIX
Char(digit, bytes) == [digit |-> digit, bytes |-> bytes]

\* The digits, a letter, and a character of two bytes.
Chars == {Char(d, 1) : d \in 0..(RADIX - 1)} \cup {Char(NonDigit, 1), Char(NonDigit, 2)}

\* str::len counts bytes.
ByteLength(pin) == FoldLeft(LAMBDA sum, c : sum + c.bytes, 0, pin)

pin_length_should_be_correct(pin) == ByteLength(pin) = EXACT_LENGTH

AllDigits(pin) == \A i \in DOMAIN pin : pin[i].digit # NonDigit
parse_pin_to_digits(pin) == [i \in DOMAIN pin |-> pin[i].digit]

pin_should_contain_enough_unique_digits(digits) ==
    LET count == [d \in 0..(RADIX - 1) |-> Cardinality({i \in DOMAIN digits : digits[i] = d})]
    IN  Cardinality({d \in DOMAIN count : count[d] > 0}) >= MIN_UNIQUE_DIGITS

\* The loop over the digits but the first, which is prev to begin with.
Runs(digits) ==
    FoldLeft(LAMBDA run, d : [ascending |-> run.ascending /\ d = run.prev + 1,
                              descending |-> run.descending /\ d = run.prev - 1, prev |-> d],
             [ascending |-> TRUE, descending |-> TRUE, prev |-> digits[1]], Tail(digits))

\* Mutant: a run down is not looked for.
validate_pin_lenient(pin) ==
    IF ~pin_length_should_be_correct(pin) THEN "InvalidLength"
    ELSE IF ~AllDigits(pin) THEN "NonDigits"
    ELSE IF ~pin_should_contain_enough_unique_digits(parse_pin_to_digits(pin)) THEN "TooFewUniqueDigits"
    ELSE IF Runs(parse_pin_to_digits(pin)).ascending THEN "AscendingDigits" ELSE "Ok"

validate_pin(pin) ==
    IF ~pin_length_should_be_correct(pin) THEN "InvalidLength"
    ELSE IF ~AllDigits(pin) THEN "NonDigits"
    ELSE LET digits == parse_pin_to_digits(pin)
         IN  IF ~pin_should_contain_enough_unique_digits(digits) THEN "TooFewUniqueDigits"
             ELSE IF Runs(digits).ascending THEN "AscendingDigits"
             ELSE IF Runs(digits).descending THEN "DescendingDigits" ELSE "Ok"

\* What the app shows: From<Result<(), PinValidationError>> for PinValidationResult.
PinValidationResult(verdict) ==
    CASE verdict = "Ok" -> "Ok"
      [] verdict = "TooFewUniqueDigits" -> "TooFewUniqueDigits"
      [] verdict \in {"AscendingDigits", "DescendingDigits"} -> "SequentialDigits"
      [] verdict \in {"NonDigits", "InvalidLength"} -> "OtherIssue"

-----------------------------------------------------------------------------
(* From the output of hkdf to a private key.                                *)

u256_to_u384(x) == x
u384_to_u256(x) == x % 2 ^ ScalarBits

add_mod(x, y, p) == (x + y) % p
sub_mod(x, y, p) == (x - y) % p

bytes_to_ecdsa_scalar(int) ==
    LET q == u256_to_u384(ORDER)
    IN  u384_to_u256(add_mod(int % sub_mod(q, 1, q), 1, q))

\* Scalar::reduce
pin_private_key(hkdf) == bytes_to_ecdsa_scalar(hkdf) % ORDER

-----------------------------------------------------------------------------

PinInit == entered = [pin |-> <<>>, shown |-> "none"] /\ derived = [hkdf |-> 0, key |-> 1]

\* is_valid_pin
EnterPin(pin) ==
    entered' = [pin |-> pin, shown |-> PinValidationResult(validate_pin(pin))] /\ UNCHANGED derived

DeriveKey(hkdf) == derived' = [hkdf |-> hkdf, key |-> pin_private_key(hkdf)] /\ UNCHANGED entered

\* The two have nothing to do with each other: a behaviour shows one of them.
PinNext ==
    /\ entered.shown = "none" /\ derived.hkdf = 0
    /\ \/ \E length \in 0..(EXACT_LENGTH + 1) : \E pin \in [1..length -> Chars] : EnterPin(pin)
       \/ \E hkdf \in 0..(2 ^ HkdfBits - 1) : DeriveKey(hkdf)

-----------------------------------------------------------------------------
(* Properties.                                                              *)

Constant == {[i \in 1..EXACT_LENGTH |-> d] : d \in 0..(RADIX - 1)}
Rising == {[i \in 1..EXACT_LENGTH |-> d + i] : d \in (-1)..(RADIX - 1 - EXACT_LENGTH)}
Sequential == Rising \cup {Reverse(digits) : digits \in Rising}
WellFormedPin(pin) ==
    Len(pin) = EXACT_LENGTH /\ \A i \in DOMAIN pin : pin[i].digit \in 0..(RADIX - 1)

\* The app is told what is wrong with a PIN: the same digit throughout, a run up or
\* down, or otherwise not EXACT_LENGTH digits, and nothing if none of these is the
\* case.  validate_pin measures the length in bytes, counts digits by value and
\* looks for the runs in a single pass.
StrongPins ==
    LET digits == parse_pin_to_digits(entered.pin)
    IN  entered.shown # "none" =>
            entered.shown = IF ~WellFormedPin(entered.pin) THEN "OtherIssue"
                            ELSE IF digits \in Constant THEN "TooFewUniqueDigits"
                            ELSE IF digits \in Sequential THEN "SequentialDigits" ELSE "Ok"

Derivations ==
    [key \in 0..(ORDER - 1) |-> Cardinality({hkdf \in 0..(2 ^ HkdfBits - 1) : pin_private_key(hkdf) = key})]

\* The derived key is a valid private key, and as good as uniformly distributed: it
\* is from 1 up to the order, and no key is made from more than one output of hkdf
\* more than another key is.
KeysAreEven ==
    /\ derived.key \in 1..(ORDER - 1)
    /\ \A other \in 1..(ORDER - 1) : Derivations[derived.key] <= Derivations[other] + 1

\* From PIN to private key: a PIN is refused exactly for what is wrong with it, and
\* the key made of it is a valid one, no likelier than others (validate_pin,
\* pin_private_key).
PinIsSound == StrongPins /\ KeysAreEven
=============================================================================
