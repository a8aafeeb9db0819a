---------------------------- MODULE MC_EnumFlags ----------------------------
(* EnumFlags for the TestEnum of testEnumFlags.cxx: five members Bit1 .. *)
(* Bit5VeryLongName (bits 0..4) over uint8_t.                             *)
EXTENDS EnumFlags

\* Strings given to set(): binary numbers, the test's "101" and the
\* out-of-range "100000000", a digit that is not binary, the empty string,
\* token lists, one with a token (9) that names no member, the words, junk.
MCStrNoAll ==
  { DigitStr(<<1, 0, 1>>), DigitStr(<<1, 0, 0, 0, 0>>), DigitStr(<<1, 1, 1, 1>>),
    DigitStr(<<1, 0, 0, 0, 0, 0, 0, 0, 0>>), DigitStr(<<2>>), DigitStr(<< >>),
    NameStr(<<3, 1, 0>>), NameStr(<<4>>), NameStr(<<1, 9>>),
    WordStr("none"), WordStr("junk") }

\* Strings given to deserialize: the test's "999999" and "5", and "".
MCData == { <<9, 9, 9, 9, 9, 9>>, <<5>>, << >> }

\* Other objects: the initializer lists of the test ({Bit1, Bit2},
\* {Bit3, Bit4}, {Bit2, Bit3, Bit4}, {Bit5VeryLongName}) and EnumFlags(U(255)).
MCObjects == {{0, 1}, {2, 3}, {1, 2, 3}, {4}, 0..7}
=============================================================================
