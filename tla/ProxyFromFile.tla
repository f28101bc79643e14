---------------------------- MODULE ProxyFromFile ----------------------------
(***************************************************************************)
(* plugins/proxy-from-file: how a data file becomes a list of backends.    *)
(*                                                                         *)
(* A line is the sequence of its fields, split at each space, and a field  *)
(* the sequence of its parts, split at each colon.  An address is a host   *)
(* with a port, where 0 stands for none.                                   *)
(***************************************************************************)
EXTENDS Filtering

CONSTANTS
  ParseInt,  \* the number of every part that is one: strconv.ParseInt(_, 10, 32)
  Blanks,    \* parts of nothing but tabs and carriage returns, and the empty one
  NoFile,    \* content of a data file that is not there
  NoValue    \* JSON: a field that is missing or of another type

\* The error of a parser is the empty set, its result a set of one.
splitHostPort(field) ==
  CASE Len(field) = 1 -> {[host |-> field[1], port |-> 0]}
    [] Len(field) = 2 /\ field[2] \in DOMAIN ParseInt ->
         {[host |-> field[1], port |-> ParseInt[field[2]]]}
    [] OTHER -> {}

\* Mutant: what follows the weight is ignored.
splitHostPortWeight_Lax(line) ==
  LET weighted(w) == {[host |-> a.host, port |-> a.port, weight |-> w] : a \in splitHostPort(line[1])}
  IN  CASE Len(line) = 1 -> weighted(0)
        [] Len(line) >= 2 /\ Len(line[2]) = 1 /\ line[2][1] \in DOMAIN ParseInt ->
             weighted(ParseInt[line[2][1]])
        [] OTHER -> {}

splitHostPortWeight(line) ==
  LET weighted(w) == {[host |-> a.host, port |-> a.port, weight |-> w] : a \in splitHostPort(line[1])}
  IN  CASE Len(line) = 1 -> weighted(0)
        [] Len(line) = 2 /\ Len(line[2]) = 1 /\ line[2][1] \in DOMAIN ParseInt ->
             weighted(ParseInt[line[2][1]])
        [] OTHER -> {}

Blank(line) == \A i \in DOMAIN line : Len(line[i]) = 1 /\ line[i][1] \in Blanks

\* Blank and malformed lines are skipped; a weight of 0 becomes the default.
getDownwardDataText(lines, defaultWeight) ==
  LET parsed(line) == IF Blank(line) THEN {} ELSE splitHostPortWeight(line)
      backends(line) ==
        {[b EXCEPT !.weight = IF @ = 0 THEN defaultWeight ELSE @] : b \in parsed(line)}
      good == Filter(lines, {i \in DOMAIN lines : backends(lines[i]) # {}})
  IN  [i \in DOMAIN good |-> CHOOSE b \in backends(good[i]) : TRUE]

\* json is what the file holds as JSON: "invalid", "other" than a list, or a list of
\* maps, in which ip and weight have their types or are NoValue.  The ip is taken as
\* it is; there is no default weight.
getDownwardDataJSON(json) ==
  IF json.kind # "list" THEN <<>>
  ELSE LET list == json.list
           usable == Filter(list, {i \in DOMAIN list :
                                     list[i].ip # NoValue /\ list[i].weight # NoValue})
       IN  [i \in DOMAIN usable |->
             [host |-> usable[i].ip.host, port |-> usable[i].ip.port,
              weight |-> usable[i].weight]]

\* GetDownwardData; with an error it returns the empty list.
FileData(file, spec) ==
  CASE file = NoFile -> <<>>
    [] file # NoFile /\ spec.type = "text" -> getDownwardDataText(file.lines, spec.defaultWeight)
    [] file # NoFile /\ spec.type = "json" -> getDownwardDataJSON(file.json)
    [] OTHER -> <<>>

=============================================================================
