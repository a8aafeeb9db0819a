------------------------------ MODULE EnumFlags ------------------------------
(***************************************************************************)
(* o2::utils::EnumFlags<E> (src/Common/Utils/include/CommonUtils/          *)
(* EnumFlags.h): a set of on/off flags kept as the bits of E's unsigned    *)
(* underlying type U.  One object is modelled; every member that changes   *)
(* mBits is an action, the const members are operators on mBits.           *)
(*                                                                         *)
(* The enum is what the EnumFlag concept admits: members 0..NFlags-1,      *)
(* continuous, at most as many as U has digits.  mBits, a U, is kept as    *)
(* the set of its 1-bits (a subset of 0..Width-1, one-to-one with U): the  *)
(* bitwise operators are set operations, and the number is formed where    *)
(* the code does arithmetic on it (stoul, MaxRep, to_string).  Strings are *)
(* abstracted to what setImpl and std::stoul tell                           *)
(* apart: a string of decimal digits, a '|'-separated list of tokens (a    *)
(* member name or a token that names none), the words "all" and "none" in *)
(* any case, and anything else.  Digit strings are parsed digit by digit.  *)
(***************************************************************************)
EXTENDS Naturals, SequencesExt

CONSTANTS
  NFlags,      \* number of enum members (H::count())
  Width,       \* digits of U (std::numeric_limits<U>::digits)
  Base,        \* the base argument of set(const std::string&, int)
  StrInputs,   \* strings given to set(const std::string&)
  DataInputs,  \* digit strings given to deserialize, besides serialized ones
  ObjInputs    \* the bits of other objects (initializer lists, EnumFlags(U))

ASSUME EnumFlagsAssumption ==
  /\ NFlags \in 1..Width
  /\ Width \in {8, 16, 32, 64}
  /\ Base \in 2..16
  /\ DataInputs \subseteq Seq(0..9)
  /\ ObjInputs \subseteq SUBSET (0..(Width - 1))

Flags == 0..(NFlags - 1)             \* H::Values
MinU == 0                            \* H::Min_u_v
MaxU == NFlags - 1                   \* H::Max_u_v
MaxRep == IF MaxU >= 64 THEN 2^64 - 1 ELSE 2^MaxU - 1

Positions == 0..(Width - 1)           \* the bits of U

\* The bits of a natural number (its value converted to U keeps the low
\* Width of them), and the value of a set of bits.
BitsOf(x) == {i \in Positions : (x \div 2^i) % 2 = 1}
ValOf(S) == MapThenSumSet(LAMBDA i : 2^i, S)

\* U(1) << e
to_bit(e) == {e}
\* ~x is computed on the promoted int; converted back to U it keeps the
\* low Width bits.
BitNot(x) == Positions \ x

\* The abstract strings.
DigitStr(d) == [kind |-> "digits", d |-> d]
NameStr(t) == [kind |-> "names", toks |-> t]   \* a token outside Flags names no member
WordStr(w) == [kind |-> w]                     \* "all", "none" or "junk"

\* std::stoul(s, nullptr, b): the longest prefix of digits below b, in base b;
\* no such digit throws invalid_argument.
StoulPrefix(d, b) ==
  LET bad == {i \in DOMAIN d : d[i] >= b}
  IN  IF bad = {} THEN d ELSE SubSeq(d, 1, Min(bad) - 1)
DigitsValue(d, b) == FoldLeft(LAMBDA acc, x : acc * b + x, 0, d)

\* deserialize(data): stoul in base 10, range check against MaxRep.
\* The outcome: the new bits, or the exception with the bits untouched.
Deserialized(data, bits) ==
  LET v == DigitsValue(StoulPrefix(data, 10), 10)
  IN  IF StoulPrefix(data, 10) = <<>> THEN [bits |-> bits, err |-> "invalid_argument"]
      ELSE IF v > MaxRep THEN [bits |-> bits, err |-> "out_of_range"]
      ELSE [bits |-> BitsOf(v), err |-> "ok"]

\* Names path of setImpl: OR the bit of each token in turn; the first token
\* that names no member throws, with the bits of the earlier ones written.
OrTokens(toks, start) ==
  FoldLeft(LAMBDA r, t :
             IF r.err # "ok" THEN r
             ELSE IF t \in Flags THEN [r EXCEPT !.bits = @ \cup to_bit(t)]
             ELSE [r EXCEPT !.err = "invalid_argument"],
           [bits |-> start, err |-> "ok"], toks)

\* setImpl(s, base) on bits `start`: the bits it leaves and what it throws.
SetImpl(s, start) ==
  CASE s.kind = "digits" ->
         IF Base = 2 /\ \E i \in DOMAIN s.d : s.d[i] > 1
           THEN [bits |-> start, err |-> "invalid_argument"]
           ELSE LET p == StoulPrefix(s.d, Base)
                IN  IF p = <<>> THEN [bits |-> start, err |-> "invalid_argument"]
                    ELSE IF DigitsValue(p, Base) > MaxRep
                      THEN [bits |-> start, err |-> "out_of_range"]
                    ELSE [bits |-> BitsOf(DigitsValue(p, Base)), err |-> "ok"]
    [] s.kind = "all"   -> [bits |-> BitsOf(MaxRep), err |-> "ok"]   \* mBits = All
    [] s.kind = "none"  -> [bits |-> {}, err |-> "ok"]               \* mBits = None
    [] s.kind = "names" -> OrTokens(s.toks, start)
    [] s.kind = "junk"  -> [bits |-> start, err |-> "invalid_argument"]

\* std::to_string(n): the decimal digits of n.
ToDecimal[n \in Nat] ==
  IF n < 10 THEN <<n>> ELSE Append(ToDecimal[n \div 10], n % 10)

\* The const queries.
test(bits, e) == e \in bits
any(bits) == bits # {}
count(bits) == Cardinality({i \in MinU..(MaxU - 1) : i \in bits})


VARIABLES
  mBits,   \* the flags
  err,     \* what the last call threw: "ok", "invalid_argument", "out_of_range"
  saved    \* the string the last serialize() returned (<<>>: none yet)

vars == <<mBits, err, saved>>

TypeOK ==
  /\ mBits \subseteq Positions
  /\ err \in {"ok", "invalid_argument", "out_of_range"}
  /\ saved \in Seq(0..9)

\* Default constructor: no flag set.
Init ==
  /\ mBits = {}
  /\ err = "ok"
  /\ saved = <<>>
-----------------------------------------------------------------------------
(* The members that change the flags.  The noexcept ones never throw.      *)

Update(v) == mBits' = v /\ err' = "ok" /\ UNCHANGED saved

\* set(T) and operator|=(T): mBits |= to_bit(t).
SetFlag(e) == Update(mBits \cup to_bit(e))

\* reset(T): mBits &= ~to_bit(t).
ResetFlag(e) == Update(mBits \cap BitNot(to_bit(e)))

\* toggle(T): mBits ^= to_bit(t).
Toggle(e) == Update(SymDiff(mBits, to_bit(e)))

\* operator&=(T): mBits &= to_bit(t).
AndFlag(e) == Update(mBits \cap to_bit(e))

\* reset(): mBits = 0.
Reset == Update({})

\* flags = ~flags: operator~ builds EnumFlags(~mBits).
Complement == Update(BitNot(mBits))

\* flags |= o, flags = flags | o, flags = flags.union_with(o).
OrWith(o) == Update(mBits \cup o)

\* flags = flags.intersection_with(o).
AndWith(o) == Update(mBits \cap o)

\* flags ^= o.
XorWith(o) == Update(SymDiff(mBits, o))

\* flags = o: copy or move assignment from a constructed object.
Assign(o) == Update(o)

\* Mutant: set(string) does not restore the previous bits when setImpl throws.
SetStringNoRestore(s) ==
  LET r == SetImpl(s, {})
  IN  /\ mBits' = r.bits
      /\ err' = r.err
      /\ UNCHANGED saved

\* Mutant: set(string) parses onto the old bits (the reset() is missing).
SetStringNoReset(s) ==
  LET r == SetImpl(s, mBits)
  IN  /\ mBits' = IF r.err = "ok" THEN r.bits ELSE mBits
      /\ err' = r.err
      /\ UNCHANGED saved

\* set(const std::string&, base): remember the bits, reset(), setImpl; on an
\* exception restore the remembered bits and rethrow.
SetString(s) ==
  LET r == SetImpl(s, {})
  IN  /\ mBits' = IF r.err = "ok" THEN r.bits ELSE mBits
      /\ err' = r.err
      /\ UNCHANGED saved

\* serialize(): std::to_string(mBits).
Serialize ==
  /\ saved' = ToDecimal[ValOf(mBits)]
  /\ err' = "ok"
  /\ UNCHANGED mBits

\* deserialize(data): stoul, range check, assignment.
Deserialize(data) ==
  LET r == Deserialized(data, mBits)
  IN  /\ mBits' = r.bits
      /\ err' = r.err
      /\ UNCHANGED saved

\* The strings deserialize is given: the inputs, and what serialize returned.
DataSources == DataInputs \cup (IF saved = <<>> THEN {} ELSE {saved})

Next ==
  \/ \E e \in Flags : SetFlag(e) \/ ResetFlag(e) \/ Toggle(e) \/ AndFlag(e)
  \/ Reset \/ Complement
  \/ \E o \in ObjInputs : OrWith(o) \/ AndWith(o) \/ XorWith(o) \/ Assign(o)
  \/ \E s \in StrInputs : SetString(s)
  \/ Serialize
  \/ \E d \in DataSources : Deserialize(d)

\* Any member may be called at any time; nothing has to happen.
Spec == Init /\ [][Next]_vars

-----------------------------------------------------------------------------
(* Properties.                                                             *)

\* The flags a string names: the bits of the number it spells, the listed
\* members, every member for "all", none for "none".
Denotes(s) ==
  CASE s.kind = "digits" -> BitsOf(DigitsValue(StoulPrefix(s.d, Base), Base))
    [] s.kind = "names"  -> {s.toks[i] : i \in DOMAIN s.toks}
    [] s.kind = "all"    -> Flags
    [] s.kind = "none"   -> {}
    [] s.kind = "junk"   -> {}

\* set(string) replaces the flags: after a call that does not throw, the
\* flags set are exactly those the string names, whatever was set before
\* (the reset() before setImpl, the "none" word, the token loop, the digit
\* parse). Checked for digit strings, token lists, "none" and junk; "all"
\* sets the bits of MaxRep, which leave out the last member, so the run
\* leaves it out. A digit string naming the last member throws (the same
\* MaxRep bound) and is therefore outside the claim.
SetStringExact ==
  [][\A s \in StrInputs :
       SetString(s) /\ err' = "ok" => mBits' = Denotes(s)]_vars

\* A call that throws leaves the flags as they were before it, even when
\* setImpl had already written the bits of earlier tokens (the restore in
\* set(string)'s catch, and deserialize's check before the assignment).
ThrowLeavesFlags ==
  [][err' # "ok" => mBits' = mBits]_vars
=============================================================================
