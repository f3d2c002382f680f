---------------------------- MODULE MC_HostAddress ----------------------------
(* Host lists for the runs of HostAddress.                                  *)
EXTENDS HostAddress

(* Every host list of up to three symbols over host letters, port digits  *)
(* and the separators the parser looks for.                                *)
ShortUrls == BoundedSeq({"a", "1", ":", "[", "]", ",", " "}, 3)

(* Longer lists in each form parse accepts: several plain addresses, a    *)
(* bracketed IPv6 address with a port, and the key=value form.            *)
FormUrls ==
  { <<"a", ":", "1", ",", "b">>,
    <<"A", "b", ":", " ", "1", "2", ",", "a", ":", "0">>,
    <<"[", "a", ":", "b", "]", ":", "1">>,
    <<"address", "=", "(", "port", "=", "1", ")">>,
    <<"address", "=", "(", "type", "=", "slave", ")", ",", "a">> }

MCUrls == ShortUrls \cup FormUrls

(* Every URL given in the key=value form, and a plain one.                *)
KeyValueUrls ==
  { <<"a", ":", "1">>,
    <<"address", "=", "(", "host", "=", "a", ")", "(", "port", "=", "1", ")">> }

MCModes == {"NONE", "SEQUENTIAL", "REPLICATION"}

(* Every string of up to two characters over a space, a colon and a    *)
(* letter in both cases, for the checks of the SQLString operations.    *)
MCTexts == BoundedSeq({" ", "a", "A", ":"}, 2)
====
