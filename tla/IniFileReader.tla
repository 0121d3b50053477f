---------------------------- MODULE IniFileReader ----------------------------
(***************************************************************************)
(* framework/lib/ini_file_reader.cpp, which reads the server's             *)
(* configuration.  The constructor is one Line action for each line read;  *)
(* a line has been classified by the two patterns.  Section names and      *)
(* `key@section' are entries of one map, and the keys of a section are     *)
(* kept in it as one string, joined by commas.                             *)
(***************************************************************************)
EXTENDS StringAlgorithms

CONSTANTS Names,     \* names of sections, strings
          Keys,      \* keys, strings
          Values,    \* values, strings
          MaxLines   \* bound on the length of the file

VARIABLES lines,             \* the lines read, a history variable
          section_name,
          section_count,
          ini_kv_map,
          ini_kv_status_map,
          exited             \* the process has left with exit(1)

vars == <<lines, section_name, section_count, ini_kv_map, ini_kv_status_map,
          exited>>

Sections == {[kind |-> "section", name |-> n] : n \in Names \union {<<>>}}
Items    == {[kind |-> "item", key |-> k, value |-> v] : k \in Keys, v \in Values}
Others   == {[kind |-> "comment"], [kind |-> "bad"]}

Without == <<>>   \* the empty map

Init ==
  /\ lines = <<>>
  /\ section_name = <<>>
  /\ section_count = Without
  /\ ini_kv_map = Without
  /\ ini_kv_status_map = Without
  /\ exited = FALSE

With(map, k, v) == [x \in DOMAIN map \union {k} |-> IF x = k THEN v ELSE map[x]]

Count(map, k) == With(map, k, IF k \in DOMAIN map THEN map[k] + 1 ELSE 1)

KeyAt(key, section) == key \o <<"@">> \o section

Section(l) ==
  /\ section_name' = l.name
  /\ section_count' = Count(section_count, l.name)
  /\ UNCHANGED <<ini_kv_map, ini_kv_status_map, exited>>

\* The value first, then the key at the end of the section's list, then the
\* count of the pair.
ItemMap(l) ==
  LET kv == With(ini_kv_map, KeyAt(l.key, section_name), l.value)
  IN  With(kv, section_name,
           IF section_name \in DOMAIN kv
           THEN kv[section_name] \o <<",">> \o l.key ELSE l.key)

ItemCountFirst(l) ==
  LET k == l.key
  IN  IF k \in DOMAIN ini_kv_status_map THEN ini_kv_status_map
      ELSE With(ini_kv_status_map, k, With(Without, l.value, 1))

ItemCount(l) ==
  LET k == l.key
  IN  With(ini_kv_status_map, k,
           IF k \in DOMAIN ini_kv_status_map
           THEN Count(ini_kv_status_map[k], l.value)
           ELSE With(Without, l.value, 1))

ItemFirstWins(l) ==
  /\ section_name # <<>>
  /\ ini_kv_map' = IF KeyAt(l.key, section_name) \in DOMAIN ini_kv_map
                   THEN ini_kv_map ELSE ItemMap(l)
  /\ ini_kv_status_map' = ItemCount(l)
  /\ UNCHANGED <<section_name, section_count, exited>>

Item(l) ==
  /\ section_name # <<>>
  /\ ini_kv_map' = ItemMap(l)
  /\ ini_kv_status_map' = ItemCount(l)
  /\ UNCHANGED <<section_name, section_count, exited>>

\* an item before any section, or a line of no known form
Exit(l) ==
  /\ \/ l.kind = "bad"
     \/ l.kind = "item" /\ section_name = <<>>
  /\ exited' = TRUE
  /\ UNCHANGED <<section_name, section_count, ini_kv_map, ini_kv_status_map>>

Skip(l) ==
  /\ l.kind = "comment"
  /\ UNCHANGED <<section_name, section_count, ini_kv_map, ini_kv_status_map,
                 exited>>

Line(l) ==
  /\ ~exited /\ Len(lines) < MaxLines
  /\ lines' = Append(lines, l)
  /\ \/ Skip(l)
     \/ l.kind = "section" /\ Section(l)
     \/ l.kind = "item" /\ Item(l)
     \/ Exit(l)

Next == \E l \in Sections \union Items \union Others : Line(l)

Spec == Init /\ [][Next]_vars

(***************************************************************************)
(* The questions.  Nothing is <<>>, the empty string.                      *)
(***************************************************************************)
IniGetValue(section, key) ==
  IF KeyAt(key, section) \in DOMAIN ini_kv_map
  THEN ini_kv_map[KeyAt(key, section)] ELSE <<>>

\* the default is not returned for an empty section or key
IniGetStrValue(section, key, default) ==
  IF section = <<>> \/ key = <<>> THEN <<>>
  ELSE LET v == IniGetValue(section, key) IN IF v = <<>> THEN default ELSE v

IniGetSecOnce(section) ==
  IF section = <<>> \/ section \notin DOMAIN ini_kv_map THEN <<>>
  ELSE LET keys == SetToSeq(ToSet(SplitChar(ini_kv_map[section], ",")))
       IN  [i \in DOMAIN keys |-> <<keys[i], IniGetValue(section, keys[i])>>]

\* <<>> where the code returns -1
IniGetSecValues(section) ==
  IF section = <<>> \/ section \notin DOMAIN ini_kv_map THEN <<>>
  ELSE LET keys == SplitChar(ini_kv_map[section], ",")
       IN  [i \in DOMAIN keys |-> <<keys[i], IniGetValue(section, keys[i])>>]

HasSection(section) == section \in DOMAIN ini_kv_map

SectionIsUnique(section) ==
  section \in DOMAIN section_count /\ section_count[section] = 1

HasKeyValue(key, value) ==
  key \in DOMAIN ini_kv_status_map /\ value \in DOMAIN ini_kv_status_map[key]

KeyValueIsUnique(key, value) ==
  HasKeyValue(key, value) /\ ini_kv_status_map[key][value] = 1

(***************************************************************************)
(* The answers, from the lines of the file.                                *)
(***************************************************************************)
\* the section a line belongs to
SectionOf(i) ==
  LET heads == {j \in 1 .. i : lines[j].kind = "section"}
  IN  IF heads = {} THEN <<>> ELSE lines[Max(heads)].name

\* the lines that hold the items of a section, in order
ItemsOf(section) ==
  SetToSortSeq({i \in DOMAIN lines :
                  lines[i].kind = "item" /\ SectionOf(i) = section},
               LAMBDA i, j : i < j)

\* A name the two delimiters can be trusted with.
Plain(name) == name # <<>> /\ ~ \E i \in DOMAIN name : name[i] \in {"@", ","}

PlainFile ==
  \A i \in DOMAIN lines :
    /\ lines[i].kind = "section" => lines[i].name = <<>> \/ Plain(lines[i].name)
    /\ lines[i].kind = "item" => Plain(lines[i].key)

\* the value the last item of a key in a section gives it
LastValue(section, key) ==
  LET at == SelectSeq(ItemsOf(section), LAMBDA i : lines[i].key = key)
  IN  IF at = <<>> THEN <<>> ELSE lines[Last(at)].value

\* A section that is written in several places is one section, and an item that
\* is written again has the later value: the value got for a key is that of the
\* last such line of the file, and the default where there is none or it is
\* empty.
LastItemWins ==
  ~exited /\ PlainFile =>
    \A n \in Names, k \in Keys : Plain(n) /\ Plain(k) =>
      IniGetStrValue(n, k, <<"d">>) =
        LET v == LastValue(n, k) IN IF v = <<>> THEN <<"d">> ELSE v

\* The items of a section are all listed, in the order of the file, a key
\* written twice twice, each with the value that a question for it returns;
\* and a section is there exactly when it has an item.
SectionListed ==
  ~exited /\ PlainFile =>
    \A n \in {m \in Names : Plain(m)} :
      LET items == ItemsOf(n)
      IN  /\ IniGetSecValues(n) =
               [i \in DOMAIN items |->
                  <<lines[items[i]].key, LastValue(n, lines[items[i]].key)>>]
          /\ HasSection(n) <=> items # <<>>

\* The uniqueness tests count what the file holds, whatever its names are: a
\* section header once, a pair of key and value once over all sections.
CountsExact ==
  ~exited =>
    /\ \A n \in Names :
         SectionIsUnique(n) <=>
           Cardinality({i \in DOMAIN lines : lines[i].kind = "section"
                                             /\ lines[i].name = n}) = 1
    /\ \A k \in Keys, v \in Values :
         LET at == {i \in DOMAIN lines : lines[i].kind = "item"
                                         /\ lines[i].key = k /\ lines[i].value = v}
         IN  /\ HasKeyValue(k, v) <=> at # {}
             /\ KeyValueIsUnique(k, v) <=> Cardinality(at) = 1
=============================================================================
