----------------------------- MODULE HostAddress ------------------------------
(***************************************************************************)
(* The host-list parser and printer of src/HostAddress.cpp, over the       *)
(* string operations of src/SQLString.cpp (module SQLString).             *)
(*                                                                         *)
(* A string is a sequence of symbols.  Punctuation, space and digits are   *)
(* one symbol each, as in the code; the words the parser compares whole    *)
(* ("address", "host", "port", "type", "master", "slave") are one symbol   *)
(* each, and host names are made of the letters "a", "b" and ":".          *)
(* Positions are the C++ 0-based size_t positions; std::string::npos is    *)
(* -1, so that npos + k is k - 1 as in size_t arithmetic.  The outcome of  *)
(* a call is Ok(value) or Err(exception): IllegalArgumentException,        *)
(* std::out_of_range (from std::string::at), or Hang for a loop that       *)
(* never leaves.  Outside src/ are split() (a sequence split at every      *)
(* delimiter, empty pieces kept) and the constants DefaultPort = 3306,     *)
(* TYPE_MASTER = "master", TYPE_SLAVE = "slave".                           *)
(***************************************************************************)
EXTENDS SQLString

CONSTANTS Urls,      \* host lists given in connection URLs
          HaModes,   \* HaMode values the parser is called with
          Texts      \* short strings the host list is compared and searched
                     \* with in the checks of the SQLString operations

Digits == <<"0", "1", "2", "3", "4", "5", "6", "7", "8", "9">>
IsDigit(c) == c \in ToSet(Digits)
DigitValue(c) == CHOOSE d \in 0..9 : Digits[d + 1] = c

DefaultPort == 3306
Master == <<"master">>
Slave  == <<"slave">>

\* split(s, d): the pieces between delimiters, empty pieces kept.
RECURSIVE Split(_, _)
Split(s, d) ==
  LET i == FindFirstOfChar(s, d, 0)
  IN IF i = Npos THEN <<s>>
     ELSE <<SubSeq(s, 1, i)>> \o Split(SubSeq(s, i + 2, Len(s)), d)

\* std::to_string of a non-negative port.
RECURSIVE ToDigits(_)
ToDigits(n) == IF n < 10 THEN <<Digits[n + 1]>>
               ELSE ToDigits(n \div 10) \o <<Digits[(n % 10) + 1]>>

\* getPort: std::stoi skips leading whitespace and reads the longest run
\* of digits; no digit is std::invalid_argument, which getPort turns into
\* IllegalArgumentException.  Ports stay far below INT_MAX here.
RECURSIVE DigitRun(_)
DigitRun(s) == IF s # <<>> /\ IsDigit(Head(s))
               THEN <<Head(s)>> \o DigitRun(Tail(s)) ELSE <<>>
\* Variant: getPort without its catch block.
GetPortUncaught(s) ==
  LET run == DigitRun(LTrim(s))
  IN IF run = <<>> THEN Err("InvalidArgument")
     ELSE Ok(FoldLeft(LAMBDA acc, c : 10 * acc + DigitValue(c), 0, run))

GetPort(s) ==
  LET run == DigitRun(LTrim(s))
  IN IF run = <<>> THEN Err("IllegalArgument")
     ELSE Ok(FoldLeft(LAMBDA acc, c : 10 * acc + DigitValue(c), 0, run))

Address(h, p, t) == [host |-> h, port |-> p, type |-> t]

\* HostAddress::equals: same port, host and type.
Equals(a, b) == a.port = b.port /\ a.host = b.host /\ a.type = b.type

\* HostAddress(): host "", DefaultPort, no type.
Default == Address(<<>>, DefaultPort, <<>>)

-----------------------------------------------------------------------------
(* HostAddress::parseSimpleHostAddress: "[host]:port", "host:port" or    *)
(* "host".  The bracket form takes substr(1, ind), ind characters from   *)
(* position 1; with no ']' ind is npos and at(ind + 1) reads position 0. *)
ParseSimpleHostAddress(str) ==
  IF str = <<>> THEN Err("OutOfRange")
  ELSE IF Head(str) = "["
  THEN LET ind  == FindFirstOfChar(str, "]", 0)
           host == SubStr(str, 1, ind)
           port == GetPort(SubStr(str, ind + 2, Npos))
       IN IF ind # Len(str) - 1 /\ str[ind + 2] = ":"
          THEN IF Failed(port) THEN port ELSE Ok(Address(host, port.val, <<>>))
          ELSE Ok(Address(host, DefaultPort, <<>>))
  ELSE IF FindFirstOfChar(str, ":", 0) # Npos
  THEN LET hostPort == Split(str, ":")
           port     == GetPort(hostPort[2])
       IN IF Failed(port) THEN port
          ELSE Ok(Address(hostPort[1], port.val, <<>>))
  ELSE Ok(Address(str, DefaultPort, <<>>))

\* One pass of the while loop of parseParameterHostAddress on the "(key=
\* value)" pair at parenthesis.  The "host" key strips brackets from
\* result.host (replaceAny), not from value.
ParamPass(s, parenthesis, result) ==
  LET closing == FindFirstOfChar(s, ")", parenthesis + 1)
      token   == Split(Trim(SubSeq(s, parenthesis + 2, closing)), "=")
      key     == ToLowerCase(token[1])
      value   == ToLowerCase(token[2])
      port    == GetPort(value)
  IN IF closing = Npos THEN Err("IllegalArgument")
     ELSE IF Len(token) # 2 THEN Err("IllegalArgument")
     ELSE IF key = <<"host">>
     THEN Ok([result EXCEPT !.host = SelectSeq(@, LAMBDA c : c \notin {"[", "]"})])
     ELSE IF key = <<"port">>
     THEN IF Failed(port) THEN port ELSE Ok([result EXCEPT !.port = port.val])
     ELSE IF key = <<"type">> /\ value \in {Master, Slave}
     THEN Ok([result EXCEPT !.type = value])
     ELSE Ok(result)

\* HostAddress::parseParameterHostAddress.  Each pass searches for '('
\* from the start of the unchanged token, so a pass that leaves result as
\* it was is followed by the same pass for ever.
RECURSIVE ParamLoop(_, _)
ParamLoop(s, result) ==
  LET parenthesis == FindFirstOfChar(s, "(", 0)
      next        == ParamPass(s, parenthesis, result)
  IN IF parenthesis = Npos THEN Ok(result)
     ELSE IF Failed(next) THEN next
     ELSE IF next.val = result THEN Err("Hang")
     ELSE ParamLoop(s, next.val)

ParseParameterHostAddress(s) == ParamLoop(s, Default)

\* The REPLICATION pass of parse: an address without a type is the master
\* when it comes first and a slave otherwise.
AssignRoles(arr) ==
  [i \in DOMAIN arr |->
     IF arr[i].type = <<>>
     THEN [arr[i] EXCEPT !.type = IF i = 1 THEN Master ELSE Slave]
     ELSE arr[i]]

\* prepareCapiFailoverHost: the whole list as one address,
\* HostAddress(spec, 3306), whose type is TYPE_MASTER.
PrepareCapiFailoverHost(spec) == <<Address(spec, 3306, Master)>>

\* HostAddress::parse.  SEQUENTIAL hands the whole list to Connector/C as
\* one master address; otherwise each comma-separated token is parsed in
\* turn, the first that throws (or never returns) ending the call.
Parse(spec, haMode) ==
  LET tokens == Split(Trim(spec), ",")
      each   == [i \in 1..Len(tokens) |->
                   IF StartsWith(tokens[i], <<"address", "=">>)
                   THEN ParseParameterHostAddress(tokens[i])
                   ELSE ParseSimpleHostAddress(tokens[i])]
      bad    == {i \in DOMAIN each : Failed(each[i])}
      arr    == [i \in DOMAIN each |-> each[i].val]
  IN IF spec = <<>> THEN Err("IllegalArgument")
     ELSE IF haMode = "SEQUENTIAL" THEN Ok(PrepareCapiFailoverHost(spec))
     ELSE IF bad # {} THEN each[Min(bad)]
     ELSE Ok(IF haMode = "REPLICATION" THEN AssignRoles(arr) ELSE arr)

\* HostAddress::toString(std::vector<HostAddress>): a typed address in the
\* "address=(host=..)(port=..)(type=..)" form, an untyped one as
\* host:port with a host containing ':' put in brackets; commas between.
Render(a) ==
  IF a.type # <<>>
  THEN <<"address", "=", "(", "host", "=">> \o a.host \o
       <<")", "(", "port", "=">> \o ToDigits(a.port) \o
       <<")", "(", "type", "=">> \o a.type \o <<")">>
  ELSE (IF a.host # <<>> /\ Contains(a.host, ":")
        THEN <<"[">> \o a.host \o <<"]">> ELSE a.host)
       \o <<":">> \o ToDigits(a.port)

\* Variant: a comma after every address, the last included.
ToStringTrailingComma(addrs) ==
  FlattenSeq([i \in DOMAIN addrs |-> Render(addrs[i]) \o <<",">>])

HostsToString(addrs) ==
  FlattenSeq([i \in DOMAIN addrs |->
                Render(addrs[i]) \o (IF i < Len(addrs) THEN <<",">> ELSE <<>>)])

-----------------------------------------------------------------------------
(* A connection parses the host list of its URL; a parsed list is printed *)
(* back with toString and parsed again in the same mode, as a URL rebuilt *)
(* from its addresses is.                                                  *)
VARIABLES
  url,       \* the host list being parsed
  haMode,    \* the HaMode of the connection
  outcome,   \* Pending, or what parse returned or threw
  printed    \* <<>>, or <<addrs>> when url is toString(addrs)

vars == <<url, haMode, outcome, printed>>

Pending == Err("pending")

Init ==
  /\ url \in Urls
  /\ haMode \in HaModes
  /\ outcome = Pending
  /\ printed = <<>>

ParseUrl ==
  /\ outcome = Pending
  /\ outcome' = Parse(url, haMode)
  /\ UNCHANGED <<url, haMode, printed>>

PrintHosts ==
  /\ ~Failed(outcome)
  /\ printed = <<>>
  /\ url' = HostsToString(outcome.val)
  /\ printed' = <<outcome.val>>
  /\ outcome' = Pending
  /\ UNCHANGED haMode

\* Parsing ended in an exception, or the printed list was parsed again.
Finished ==
  /\ outcome # Pending
  /\ Failed(outcome) \/ printed # <<>>
  /\ UNCHANGED vars

Next == ParseUrl \/ PrintHosts \/ Finished

Spec == Init /\ [][Next]_vars

-----------------------------------------------------------------------------
Symbols == {"a", "b", "A", "B", ":", "[", "]", ",", "(", ")", "=", " ",
            "address", "host", "port", "type", "master", "slave"}
            \cup ToSet(Digits)
Outcomes == {"none", "pending", "IllegalArgument", "OutOfRange", "Hang"}
HostAddresses == [host : Seq(Symbols), port : Nat, type : {<<>>, Master, Slave}]

TypeOK ==
  /\ url \in Seq(Symbols)
  /\ haMode \in HaModes
  /\ outcome.err \in Outcomes
  /\ ~Failed(outcome) => outcome.val \in Seq(HostAddresses)
  /\ printed \in Seq(Seq(HostAddresses)) /\ Len(printed) <= 1

\* A list of untyped addresses whose hosts are names of letters and
\* digits is printed in the plain host:port form.
PlainHost(h) == ToSet(h) \subseteq {"a", "b", "A", "B"} \cup ToSet(Digits)
Plain(addrs) ==
  \A i \in DOMAIN addrs : addrs[i].type = <<>> /\ PlainHost(addrs[i].host)

\* HostAddress::toString and HostAddress::parse are inverse on plain lists:
\* printing a list of host:port addresses and parsing the text again, in
\* the mode it was parsed in, gives back the same hosts and ports in the
\* same order.
RoundTripPlain ==
  (printed # <<>> /\ outcome # Pending /\ Plain(printed[1]))
    => /\ ~Failed(outcome)
     /\ Len(outcome.val) = Len(printed[1])
     /\ \A i \in DOMAIN outcome.val : Equals(outcome.val[i], printed[1][i])

\* HostAddress::parse either returns the addresses of a host list or
\* rejects it with IllegalArgumentException: it neither runs for ever in
\* parseParameterHostAddress nor lets std::out_of_range escape.
ParseReturnsOrRejects ==
  outcome.err \in {"none", "pending", "IllegalArgument"}
-----------------------------------------------------------------------------
(* The SQLString operations, on the host list under parse (every string  *)
(* the parser is given, and every toString result) against each short    *)
(* string of Texts, and on the host list itself.                         *)
Others == Texts \cup {url}

\* compare(), operator<, == and != order strings lexicographically by the
\* characters' unsigned codes, a proper prefix first, and call two strings
\* equal exactly when they are the same string, also against a non-null
\* const char*.
CompareIsLexicographic ==
  \A t \in Others :
     /\ Less(url, t) <=> LexLess(url, t)
     /\ Less(t, url) <=> LexLess(t, url)
     /\ Eq(url, t) <=> url = t
     /\ Neq(url, t) <=> url # t
     /\ EqCStr(url, CStr(t)) = Ok(url = t) /\ NeqCStr(url, CStr(t)) = Ok(url # t)

\* startsWith, endsWith, find, find_first_of and find_last_of answer what
\* their names say for every start position, including the boundary cases
\* of an empty argument and an argument as long as the string.
SearchAgrees ==
  \A t \in Others :
     /\ StartsWith(url, t) <=> IsPrefix(t, url)
     /\ EndsWith(url, t) <=> IsSuffix(t, url)
     /\ \A pos \in 0..Len(url) :
          LET at    == {i \in pos..Len(url) : IsPrefix(t, SubSeq(url, i + 1, Len(url)))}
              first == SelectInSubSeq(url, pos + 1, Len(url), LAMBDA c : c \in ToSet(t))
              last  == SelectLastInSeq(SubSeq(url, 1, Min({pos + 1, Len(url)})),
                                       LAMBDA c : c \in ToSet(t))
          IN /\ Find(url, t, pos) = IF at = {} THEN Npos ELSE Min(at)
             /\ FindFirstOf(url, t, pos) = first - 1
             /\ FindLastOf(url, t, pos) = last - 1

\* caseCompare ignores the case of letters on both sides: two strings are
\* equal to it exactly when their upper-case forms are the same.
CaseCompareIgnoresCase ==
  \A t \in Others :
     CaseCompare(url, t) = 0 <=> ToUpperCase(url) = ToUpperCase(t)

\* trim() leaves the part of the string from its first to its last
\* character that is not a space: every leading and every trailing space
\* goes, and nothing between them.
TrimStripsBlankEnds ==
  \A s \in Others :
     LET kept == {i \in DOMAIN s : ~IsSpace(s[i])}
     IN Trim(s) = IF kept = {} THEN <<>> ELSE SubSeq(s, Min(kept), Max(kept))
====
