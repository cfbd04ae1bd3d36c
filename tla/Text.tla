-------------------------------- MODULE Text --------------------------------
(***************************************************************************)
(* The functions on character strings: interpolate(), strings_split(),     *)
(* strings_join() and string() of src/strings.c, and the base-16 coding of *)
(* src/basex.c.  A string grows character by character; whatever it is,    *)
(* the algorithms are compared with what they stand for.                   *)
(***************************************************************************)
EXTENDS StringSeqs

CONSTANTS
  Alphabet,    \* the characters of the strings
  VarValue,    \* hash_get() of every name that is set in vars: a string
  Delims,      \* delimiters that callers split on
  ByteOf,      \* the byte that a character is, when taken as data
  BufferSize,  \* of the buffer in string(), 256 in the code
  Residues,    \* strings that may follow the NUL of a string in memory
  MaxText      \* bound: length of a string

NUL == "NUL"

ASSUME TextAssumption ==
  /\ NUL \notin Alphabet
  /\ \A n \in DOMAIN VarValue : VarValue[n] \in Seq(Alphabet)
  /\ Delims \subseteq Seq(Alphabet) \ {<<>>} /\ Residues \subseteq Seq(Alphabet)
  /\ ByteOf \in [Alphabet -> 0..255]
  /\ BufferSize \in Nat \ {0} /\ MaxText \in Nat

VARIABLES
  text,   \* a string of a caller
  beyond  \* what is in memory behind its NUL

textVars == <<text, beyond>>

TextInit == text = <<>> /\ beyond \in Residues

\* The caller has a longer string.
TextGrow ==
  /\ Len(text) < MaxText
  /\ \E c \in Alphabet : text' = Append(text, c)
  /\ UNCHANGED beyond

\* ... or another one.
TextNew == text # <<>> /\ text' = <<>> /\ UNCHANGED beyond

TextNext == TextGrow \/ TextNew

TextSpec == TextInit /\ [][TextNext]_textVars

\* The characters of s from a to b, as far as there are any.
Cut(s, a, b) == SubSeq(s, a, Min({b, Len(s)}))

\* The string that begins in mem at 1.
CString(mem) ==
  LET ends == {i \in DOMAIN mem : mem[i] = NUL}
  IN IF ends = {} THEN mem ELSE SubSeq(mem, 1, Min(ends) - 1)

\* string("%s", s): printed into a buffer, or if it is too small, once more.
StringOf(s) ==
  LET n == Len(s) + 1 IN
  IF n > BufferSize THEN s ELSE Cut(s, 1, BufferSize - 1)

-----------------------------------------------------------------------------
(* interpolate()                                                           *)

Alnum(c) == c \in {"a", "b", "0", "1"}

\* What a name stands for; nothing if it is not set.
Deref(name) == IF name \in DOMAIN VarValue THEN VarValue[name] ELSE <<>>

\* The limit of the pass that only counts.
NoLimit == -1

CharAt(mem, i) == IF i <= Len(mem) THEN mem[i] ELSE NUL

\* s is put out behind out, as far as there is room for it.
Put(out, s, limit) == out \o (IF limit = NoLimit THEN s ELSE Cut(s, 1, limit - Len(out)))

\* The reference in c is put out.
PutRef(mem, limit, c) == Put(c.out, Deref(Cut(mem, c.ref, c.s - 1)), limit)

\* A reference that ends at s.
Resolve(mem, limit, c) ==
  IF c.state = "SREF" /\ ~Alnum(CharAt(mem, c.s))
    THEN [c EXCEPT !.state = "COPY", !.out = PutRef(mem, limit, c)]
  ELSE IF c.state = "CREF" /\ CharAt(mem, c.s) = "}"
    THEN [c EXCEPT !.state = "COPY", !.out = PutRef(mem, limit, c), !.s = @ + 1]
  ELSE c

\* The character at s.
Take(mem, limit, c) ==
  LET char == CharAt(mem, c.s)
      copied == [c EXCEPT !.state = "COPY", !.out = Put(@, <<char>>, limit), !.s = @ + 1]
  IN IF c.state = "COPY" /\ char = "\\" THEN [c EXCEPT !.state = "ESC", !.s = @ + 1]
     ELSE IF c.state = "COPY" /\ char = "$" THEN
       LET brace == CharAt(mem, c.s + 1) = "{"
           next == c.s + (IF brace THEN 2 ELSE 1)
       IN [c EXCEPT !.state = IF brace THEN "CREF" ELSE "SREF", !.s = next, !.ref = next]
     ELSE IF c.state \in {"COPY", "ESC"} THEN copied
     ELSE [c EXCEPT !.s = @ + 1]

Done(mem, limit, c) == CharAt(mem, c.s) = NUL \/ (limit # NoLimit /\ Len(c.out) >= limit)

\* Either pass over the string, up to its NUL or until it has put `limit'
\* characters out.  Each round may end a reference, and then goes on with the
\* character behind it; behind a "}" at the end of the string that is the NUL,
\* and the pass goes on beyond it.
Pass(mem, limit) ==
  LET round[n \in 0..Len(mem) + 1] ==
        IF n = 0 THEN [s |-> 1, state |-> "COPY", ref |-> 1, out |-> <<>>]
        ELSE IF Done(mem, limit, round[n - 1]) THEN round[n - 1]
        ELSE Take(mem, limit, Resolve(mem, limit, round[n - 1]))
      last == round[Len(mem) + 1]
  IN IF last.state \in {"SREF", "CREF"} THEN PutRef(mem, limit, last) ELSE last.out

\* Mutant: the buffer is as long as the string with its references.
InterpolateUnsized(mem) == CString(Pass(mem, Len(CString(mem))))

\* The first pass counts, the second fills a buffer of that size.
Interpolate(mem) == CString(Pass(mem, Len(Pass(mem, NoLimit))))

\* Where a reference that begins at i ends.
NameEnd(i) == Min({j \in i..Len(text) : ~Alnum(text[j])} \cup {Len(text) + 1})
BraceEnd(i) == Min({j \in i..Len(text) : text[j] = "}"} \cup {Len(text) + 1})

\* What the string stands for: from its i-th character on.
Expansion ==
  LET from[i \in 1..Len(text) + 2] ==
        IF i > Len(text) THEN <<>>
        ELSE IF text[i] = "\\" THEN Cut(text, i + 1, i + 1) \o from[i + 2]
        ELSE IF text[i] = "$" /\ i < Len(text) /\ text[i + 1] = "{" THEN
          Deref(Cut(text, i + 2, BraceEnd(i + 2) - 1)) \o from[BraceEnd(i + 2) + 1]
        ELSE IF text[i] = "$" THEN
          Deref(Cut(text, i + 1, NameEnd(i + 1) - 1)) \o from[NameEnd(i + 1)]
        ELSE <<text[i]>> \o from[i + 1]
  IN from[1]

-----------------------------------------------------------------------------
(* strings_split(), strings_join()                                         *)

\* Where the delimiter is next, from a on, or the end.
NextDelim(s, delim, a) ==
  Min({i \in a..Len(s) : Cut(s, i, i + Len(delim) - 1) = delim} \cup {Len(s) + 1})

\* The items from a on, each up to the next delimiter or the end; SPLIT_GREEDY
\* drops the empty ones, and one behind the last delimiter is never there.
Split(s, delim, greedy) ==
  LET from[a \in 1..Len(s) + Len(delim) + 1] ==
        IF a > Len(s) THEN <<>>
        ELSE LET b == NextDelim(s, delim, a)
             IN (IF greedy /\ a = b THEN <<>> ELSE <<Cut(s, a, b - 1)>>) \o from[b + Len(delim)]
  IN from[1]

Join(list, delim) ==
  LET joined[i \in 0..Len(list)] ==
        IF i = 0 THEN <<>> ELSE joined[i - 1] \o (IF i = 1 THEN <<>> ELSE delim) \o list[i]
  IN joined[Len(list)]

-----------------------------------------------------------------------------
(* base16_encode(), base16_decode()                                        *)

Failed == <<-1>>

BASE16_ENCODE == <<"0","1","2","3","4","5","6","7","8","9","a","b","c","d","e","f">>
BASE16_UPPER  == <<"0","1","2","3","4","5","6","7","8","9","A","B","C","D","E","F">>

\* 255 for what is no digit.
BASE16_DECODE(c) ==
  IF \E d \in 1..16 : c \in {BASE16_ENCODE[d], BASE16_UPPER[d]}
    THEN (CHOOSE d \in 1..16 : c \in {BASE16_ENCODE[d], BASE16_UPPER[d]}) - 1
    ELSE 255

Base16Encode(dlen, src) ==
  IF dlen < 2 * Len(src) /\ src # <<>> THEN Failed
  ELSE [k \in 1..2 * Len(src) |->
          LET byte == src[(k + 1) \div 2]
          IN BASE16_ENCODE[(IF k % 2 = 1 THEN byte \div 16 ELSE byte % 16) + 1]]

\* slen characters of mem; of an odd number the last has the one behind it for
\* its partner.
Base16Decode(dlen, mem, slen) ==
  LET pairs == (slen + 1) \div 2
      hi(i) == BASE16_DECODE(mem[2 * i - 1])
      lo(i) == BASE16_DECODE(mem[2 * i])
  IN IF dlen < slen \div 2 \/ \E i \in 1..pairs : 255 \in {hi(i), lo(i)}
       THEN Failed
       ELSE [i \in 1..pairs |-> hi(i) * 16 + lo(i)]

\* base16_encodestr(), base16_decodestr(): NULL for an empty string.
Base16EncodeStr(src) == IF src = <<>> THEN Failed ELSE Base16Encode(2 * Len(src), src)
Base16DecodeStr(mem, slen) ==
  IF slen = 0 THEN Failed ELSE Base16Decode(slen \div 2, mem, slen)

-----------------------------------------------------------------------------
(* Properties                                                              *)

Memory == text \o <<NUL>> \o beyond

\* Both passes over a string with references agree on how long the result is,
\* and it is what the string stands for, whatever lies behind the string where
\* a closing brace at its end leads them (src/strings.c:96-209).
Interpolated == Interpolate(Memory) = Expansion

\* What split takes apart join puts together again, but for a delimiter at the
\* end; no item has a delimiter in it (src/strings.c:731-766, 673-706), and a
\* string that fills the buffer of string() is not cut (src/strings.c:35-53).
SplitJoined ==
  /\ \A delim \in Delims :
       LET list == Split(text, delim, FALSE) IN
       /\ text \in {Join(list, delim), Join(list, delim) \o delim}
       /\ \A i \in DOMAIN list : \A j \in DOMAIN list[i] :
            Cut(list[i], j, j + Len(delim) - 1) # delim
       /\ Split(text, delim, TRUE) = Kept(list, Seq(Alphabet) \ {<<>>})
  /\ StringOf(text) = text

\* Data survives base 16, in lower and upper case; what is no even number of
\* digits is refused (src/basex.c:103-246).
Base16Right ==
  LET data == [i \in DOMAIN text |-> ByteOf[text[i]]]
      digits == Base16Encode(2 * Len(data), data)
      upper == [i \in DOMAIN digits |-> BASE16_UPPER[BASE16_DECODE(digits[i]) + 1]]
  IN /\ \A s \in {digits, upper} : Base16Decode(Len(data), s, Len(s)) = data
     /\ data # <<>> => /\ Base16DecodeStr(Base16EncodeStr(data), Len(digits)) = data
                       /\ Base16Encode(2 * Len(data) - 1, data) = Failed
     /\ Base16Decode(MaxText, text \o <<NUL>>, Len(text)) # Failed
          <=> Len(text) % 2 = 0 /\ \A i \in DOMAIN text : BASE16_DECODE(text[i]) # 255

\* The three of them, of every text.
TextRight == Interpolated /\ SplitJoined /\ Base16Right
=============================================================================
