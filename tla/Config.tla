------------------------------- MODULE Config -------------------------------
(***************************************************************************)
(* BrisaConfigurationManager: each process has one instance, with a state  *)
(* of its own, and all of them have one file.  With direct access every    *)
(* call that reads loads the file first, and every call that writes saves  *)
(* the whole state after it.                                               *)
(*                                                                         *)
(* A name is a sequence of words, which dots separate in the text, and the *)
(* key of a parameter is its section's name and its own, joined by a dot.  *)
(***************************************************************************)
EXTENDS Integers, Sequences, TLC

CONSTANTS
  Process,
  Section,      \* names of sections
  Parameter,    \* names of parameters
  Value         \* values other than the empty one

ASSUME ConfigAssumption ==
  /\ \A n \in Section \cup Parameter : n \in Seq(STRING) /\ n # <<>>
  /\ "" \notin Value

VARIABLES
  running,      \* processes that have their instance
  direct,       \* BrisaConfigurationManager::directAccess
  settings,     \* BrisaConfigurationManager::state: a map from keys to values
  file,         \* the map in the file; the empty one if there is no file
  saving,       \* processes that have truncated the file, and not written it
  fresh,        \* ghost: processes that read the file and nobody saved since
  expected,     \* ghost: for names without dots, what a process read and set
  stored,       \* ghost: what the process that saved last expected
  careful       \* ghost: so far every process that saved was fresh, every file
                \*   could be opened, and no process ended in save()

configVars == <<running, direct, settings, file, saving, fresh, expected, stored, careful>>

Key(section, parameter) == section \o parameter
EmptyMap == <<>>

\* Names without dots, and the value of a parameter: empty if it is not set.
Plain == {n \in Section : Len(n) = 1} \X {n \in Parameter : Len(n) = 1}
GetValue(map, key) == IF key \in DOMAIN map THEN map[key] ELSE ""
Seen(map) == [n \in Plain |-> GetValue(map, Key(n[1], n[2]))]
NothingSet == [n \in Plain |-> ""]

ConfigInit ==
  /\ running = {} /\ direct = {}
  /\ settings = [p \in Process |-> EmptyMap]
  /\ file = EmptyMap /\ saving = {}
  /\ fresh = {} /\ careful = TRUE
  /\ expected = [p \in Process |-> NothingSet] /\ stored = NothingSet

-----------------------------------------------------------------------------
\* getInstance(): an empty state, whatever the file holds.
StartProcess(p) ==
  /\ p \notin running
  /\ running' = running \cup {p}
  /\ settings' = [settings EXCEPT ![p] = EmptyMap]
  /\ expected' = [expected EXCEPT ![p] = NothingSet]
  /\ UNCHANGED <<direct, file, saving, fresh, stored, careful>>

\* The process ends, and its state goes with it.  In the middle of save() it leaves an
\* empty file.
EndProcess(p) ==
  /\ p \in running
  /\ running' = running \ {p} /\ direct' = direct \ {p}
  /\ settings' = [settings EXCEPT ![p] = EmptyMap]
  /\ expected' = [expected EXCEPT ![p] = NothingSet]
  /\ saving' = saving \ {p} /\ fresh' = fresh \ {p}
  /\ careful' = (careful /\ p \notin saving)
  /\ UNCHANGED <<file, stored>>

Able(p) == p \in running /\ p \notin saving

SetDirectAccess(p, access) ==
  /\ Able(p)
  /\ direct' = IF access THEN direct \cup {p} ELSE direct \ {p}
  /\ UNCHANGED <<running, settings, file, saving, fresh, expected, stored, careful>>

\* Mutant: what is read is added to what is there.
UpdateMerges(p, opens) ==
  /\ Able(p)
  /\ settings' = [settings EXCEPT ![p] = IF opens THEN file @@ @ ELSE @]
  /\ fresh' = IF opens /\ saving = {} THEN fresh \cup {p} ELSE fresh \ {p}
  /\ expected' = [expected EXCEPT ![p] = stored]
  /\ careful' = (careful /\ opens)
  /\ UNCHANGED <<running, direct, file, saving, stored>>

\* update(), and the calls that read with direct access.  A file that cannot be
\* opened reads as an empty one.
Update(p, opens) ==
  /\ Able(p)
  /\ settings' = [settings EXCEPT ![p] = IF opens THEN file ELSE EmptyMap]
  /\ fresh' = IF opens /\ saving = {} THEN fresh \cup {p} ELSE fresh \ {p}
  /\ expected' = [expected EXCEPT ![p] = stored]
  /\ careful' = (careful /\ opens)
  /\ UNCHANGED <<running, direct, file, saving, stored>>

\* save() opens the file, which truncates it.
SaveOpens(p, opens) ==
  /\ file' = IF opens THEN EmptyMap ELSE file
  /\ saving' = IF opens THEN saving \cup {p} ELSE saving
  /\ fresh' = fresh \cap {p}
  /\ careful' = (careful /\ opens /\ p \in fresh)

Save(p, opens) ==
  /\ Able(p)
  /\ SaveOpens(p, opens)
  /\ UNCHANGED <<running, direct, settings, expected, stored>>

\* And writes the state.
SaveWrites(p) ==
  /\ p \in saving
  /\ file' = settings[p] /\ stored' = expected[p]
  /\ saving' = saving \ {p}
  /\ fresh' = fresh \cap {p}
  /\ UNCHANGED <<running, direct, settings, expected, careful>>

SavedIfDirect(p, opens) ==
  IF p \in direct THEN SaveOpens(p, opens)
  ELSE opens /\ UNCHANGED <<file, saving, fresh, careful>>

\* getSectionNames and items: a key is a section's if its first word is the name, and
\* its second word is then the item.  Of several with the same, any may be listed.
SectionNames(map) == {<<Head(k)>> : k \in DOMAIN map}
ItemValues(map, section) ==
  LET of == {k \in DOMAIN map : <<Head(k)>> = section}
  IN [n \in {<<k[2]>> : k \in of} |-> {map[k] : k \in {l \in of : <<l[2]>> = n}}]

Without(map, keys) == [k \in DOMAIN map \ keys |-> map[k]]

\* An empty value takes a parameter away; one that is not there it adds, empty.
WithParameter(map, key, value) ==
  IF value = "" /\ key \in DOMAIN map THEN Without(map, {key})
  ELSE [k \in DOMAIN map \cup {key} |-> IF k = key THEN value ELSE map[k]]

SetParameter(p, section, parameter, value, opens) ==
  /\ Able(p)
  /\ settings' = [settings EXCEPT ![p] = WithParameter(@, Key(section, parameter), value)]
  /\ expected' = [expected EXCEPT ![p] = [n \in Plain |-> IF n = <<section, parameter>> THEN value ELSE @[n]]]
  /\ SavedIfDirect(p, opens)
  /\ UNCHANGED <<running, direct, stored>>

\* The keys whose first word is the name.
RemoveSection(p, section, opens) ==
  /\ Able(p)
  /\ settings' = [settings EXCEPT ![p] = Without(@, {k \in DOMAIN @ : <<k[1]>> = section})]
  /\ expected' = [expected EXCEPT ![p] = [n \in Plain |-> IF n[1] = section THEN "" ELSE @[n]]]
  /\ SavedIfDirect(p, opens)
  /\ UNCHANGED <<running, direct, stored>>

-----------------------------------------------------------------------------
ConfigNext ==
  \E p \in Process :
    \/ StartProcess(p) \/ EndProcess(p) \/ SaveWrites(p)
    \/ \E access \in BOOLEAN : SetDirectAccess(p, access)
    \/ \E opens \in BOOLEAN :
         \/ Update(p, opens) \/ Save(p, opens)
         \/ \E section \in Section :
              \/ RemoveSection(p, section, opens)
              \/ \E parameter \in Parameter, value \in Value \cup {""} :
                   SetParameter(p, section, parameter, value, opens)

ConfigSpec == ConfigInit /\ [][ConfigNext]_configVars

-----------------------------------------------------------------------------
(* Properties *)

\* The variables have their types.
ConfigTypeOK ==
  /\ direct \cup saving \cup fresh \subseteq running /\ running \subseteq Process
  /\ \A p \in Process : \A k \in DOMAIN settings[p] : settings[p][k] \in Value \cup {""}
  /\ \A k \in DOMAIN file : file[k] \in Value \cup {""}
  /\ {stored} \cup {expected[p] : p \in Process} \subseteq [Plain -> Value \cup {""}]
  /\ careful \in BOOLEAN

\* Processes that read before they write, with nobody else's save in between, share
\* one configuration: the file holds what was set last, a process that read it since
\* sees it, and sections do not get into each other's way, whatever dots the names
\* of others have in them, and however often processes end and start again.  What is
\* set is listed under its section.
SharedConfig ==
  careful => /\ saving = {} => Seen(file) = stored
             /\ \A p \in fresh :
                  /\ Seen(settings[p]) = expected[p]
                  /\ \A n \in Plain : expected[p][n] # "" =>
                       /\ n[1] \in SectionNames(settings[p])
                       /\ expected[p][n] \in ItemValues(settings[p], n[1])[n[2]]
=============================================================================
