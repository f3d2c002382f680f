------------------------------ MODULE SQLString -------------------------------
(***************************************************************************)
(* The string class of src/SQLString.cpp, which wraps a std::string.       *)
(*                                                                         *)
(* A string is a sequence of symbols: a character, or one of the words the *)
(* host parser compares whole.  Positions are the 0-based size_t           *)
(* positions of the code, and std::string::npos is -1.  A member that      *)
(* changes the string (toLowerCase, ltrim, append, ...) is an operator     *)
(* giving the new value.  Outcomes are Ok(value) or Err(exception).  The   *)
(* null state of a string (StringImp) is not under src/; every string here *)
(* holds a value.  No symbol is NUL, so substr(...).c_str() loses nothing. *)
(***************************************************************************)
EXTENDS Integers, Sequences, SequencesExt, FiniteSets

Npos == -1

Ok(v)  == [err |-> "none", val |-> v]
Err(e) == [err |-> e, val |-> <<>>]
Failed(r) == r.err # "none"

\* The unsigned char code of a character, by which std::char_traits<char>
\* orders strings.  A word symbol is put after every character; two
\* different symbols never compare equal.
Ascii == " " :> 32 @@ "(" :> 40 @@ ")" :> 41 @@ "," :> 44 @@
         "0" :> 48 @@ "1" :> 49 @@ "2" :> 50 @@ "3" :> 51 @@ "4" :> 52 @@
         "5" :> 53 @@ "6" :> 54 @@ "7" :> 55 @@ "8" :> 56 @@ "9" :> 57 @@
         ":" :> 58 @@ "=" :> 61 @@ "A" :> 65 @@ "B" :> 66 @@ "[" :> 91 @@ "]" :> 93 @@
         "a" :> 97 @@ "b" :> 98
Code(c) == IF c \in DOMAIN Ascii THEN Ascii[c] ELSE 256

\* std::isspace, std::toupper and std::tolower over those characters.
IsSpace(c) == c = " "
Upper == "a" :> "A" @@ "b" :> "B"
Lower == "A" :> "a" @@ "B" :> "b"
MapChars(s, f) == [i \in DOMAIN s |-> IF s[i] \in DOMAIN f THEN f[s[i]] ELSE s[i]]

ToUpperCase(s) == MapChars(s, Upper)
ToLowerCase(s) == MapChars(s, Lower)

\* ltrim: erase up to the first character that is not a space.
RECURSIVE LTrim(_)
LTrim(s) == IF s # <<>> /\ IsSpace(Head(s)) THEN LTrim(Tail(s)) ELSE s

\* Variant: rtrim erasing one trailing space only.
RTrimOnce(s) == IF s # <<>> /\ IsSpace(Last(s)) THEN Front(s) ELSE s

\* rtrim: erase from after the last character that is not a space.
RTrim(s) == Reverse(LTrim(Reverse(s)))

Trim(s) == RTrim(LTrim(s))

\* The sign of std::char_traits<char>::compare over the shorter length,
\* and when that is 0 the sign of the difference of the lengths.
RECURSIVE LexCompare(_, _)
LexCompare(a, b) ==
  IF a = <<>> \/ b = <<>> THEN (IF Len(a) < Len(b) THEN -1
                              ELSE IF Len(a) = Len(b) THEN 0 ELSE 1)
  ELSE IF Head(a) # Head(b) THEN (IF Code(Head(a)) < Code(Head(b)) THEN -1 ELSE 1)
  ELSE LexCompare(Tail(a), Tail(b))

\* std::string::substr(pos, count), for pos <= size(): count is clamped to
\* what is left, and npos means "to the end".
SubStr(s, pos, count) ==
  SubSeq(s, pos + 1, IF count = Npos \/ pos + count > Len(s)
                     THEN Len(s) ELSE pos + count)

\* std::string::compare(pos1, count1, str, count2) for pos1 <= size():
\* count1 characters from pos1 against the first count2 of str.
StdCompare(s, pos1, count1, str, count2) ==
  LexCompare(SubStr(s, pos1, count1), SubSeq(str, 1, count2))

\* Variant: compare() with the two strings swapped.
CompareSwapped(s, str) == StdCompare(str, 0, Len(str), s, Len(s))

Compare(s, str) == StdCompare(s, 0, Len(s), str, Len(str))

StartsWith(s, str) == StdCompare(s, 0, Len(str), str, Len(str)) = 0

\* Variant: endsWith refusing a suffix as long as the string.
EndsWithRejectsEqual(s, str) ==
  IF Len(str) >= Len(s) THEN FALSE
  ELSE StdCompare(s, Len(s) - Len(str), Len(str), str, Len(str)) = 0

EndsWith(s, str) ==
  IF Len(str) > Len(s) THEN FALSE
  ELSE StdCompare(s, Len(s) - Len(str), Len(str), str, Len(str)) = 0

\* std::string::find(str, pos, n): the first position from pos at which
\* str occurs; an empty str is found at pos itself when pos <= size().
Find(s, str, pos) ==
  LET hits == {i \in 0..(Len(s) - Len(str)) :
                 i >= pos /\ SubSeq(s, i + 1, i + Len(str)) = str}
  IN IF hits = {} THEN Npos ELSE Min(hits)

\* std::string::find_first_of / find_last_of: the first position from pos,
\* or the last up to pos (npos: the end), holding a character of str.
FindFirstOf(s, str, pos) ==
  LET hits == {i \in 0..(Len(s) - 1) : i >= pos /\ s[i + 1] \in ToSet(str)}
  IN IF hits = {} THEN Npos ELSE Min(hits)

FindFirstOfChar(s, ch, pos) == FindFirstOf(s, <<ch>>, pos)

FindLastOf(s, str, pos) ==
  LET hits == {i \in 0..(Len(s) - 1) :
                 (pos = Npos \/ i <= pos) /\ s[i + 1] \in ToSet(str)}
  IN IF hits = {} THEN Npos ELSE Max(hits)

\* at(pos): std::out_of_range past the end.
At(s, pos) == IF pos < Len(s) THEN Ok(s[pos + 1]) ELSE Err("OutOfRange")

\* operator<, operator== and operator!= between two strings.
Less(s, str) == Compare(s, str) < 0
Eq(s, str)   == Compare(s, str) = 0
Neq(s, str)  == Compare(s, str) # 0

\* operator== and operator!= against a const char*: the code tests for a
\* null pointer only together with a null SQLString and otherwise passes
\* it to std::strlen.  With a string that holds a value, == reaches
\* strlen(nullptr) while != stops at its first disjunct.
CStr(chars) == [null |-> FALSE, chars |-> chars]
NullPtr == [null |-> TRUE, chars |-> <<>>]
EqCStr(s, cstr) ==
  IF cstr.null THEN Err("NullDereference")
  ELSE Ok(StdCompare(s, 0, Len(s), cstr.chars, Len(cstr.chars)) = 0)
NeqCStr(s, cstr) ==
  IF cstr.null THEN Ok(TRUE)
  ELSE Ok(StdCompare(s, 0, Len(s), cstr.chars, Len(cstr.chars)) # 0)

\* Variant: caseCompare lowering only this string.
CaseCompareOneSide(s, other) == Compare(ToLowerCase(s), other)

\* caseCompare: compare of the lower-cased copies of both strings.
CaseCompare(s, other) == Compare(ToLowerCase(s), ToLowerCase(other))

-----------------------------------------------------------------------------
(* Reference definitions, stated without the library calls.              *)
DiffersFirstAt(a, b, i) ==
  i <= Len(a) /\ i <= Len(b) /\ a[i] # b[i] /\ SubSeq(a, 1, i - 1) = SubSeq(b, 1, i - 1)
LexLess(a, b) ==
  \/ IsStrictPrefix(a, b)
  \/ \E i \in 1..Len(a) : DiffersFirstAt(a, b, i) /\ Code(a[i]) < Code(b[i])

====
