------------------------------ MODULE KymaBinding ------------------------------
(***************************************************************************)
(* One call of kyma.Provider.Binding (binding/kyma/kyma.go) while the      *)
(* kubelet updates the mounted bindings.                                   *)
(*                                                                         *)
(* A binding directory shows one name per key, each a symlink through      *)
(* "..data" to the directory of the current version.  An update makes a    *)
(* new version directory, renames ..data in one step and later deletes the *)
(* old directory.  The provider lists a directory once and then reads its  *)
(* files one by one: each os.ReadFile resolves ..data on its own, and      *)
(* fails if the version it resolved is deleted before it opens the file.   *)
(*                                                                         *)
(* A file's value is its trimmed text and, for a JSON object, its fields;  *)
(* TLA+ equality stands for strings.EqualFold on type names.               *)
(***************************************************************************)
EXTENDS Integers, Sequences, FiniteSetsExt

CONSTANTS Root,      \* what os.ReadDir(root) lists, in order: [name, dir, dotted]
          Content,   \* Content[d][v]: the files of version v of directory d
          Dotted,    \* the names in a binding directory that start with ".."
          Types,     \* the service types asked for
          Names      \* the binding names asked for, "" for any

Dirs        == DOMAIN Content
Versions(d) == DOMAIN Content[d]

ASSUME ContentAssumption ==
  /\ Root \in Seq([name : STRING, dir : BOOLEAN, dotted : BOOLEAN])
  /\ \A d \in Dirs : /\ 1 \in Versions(d)
                     /\ \A v \in Versions(d) : DOMAIN Content[d][v] \cap Dotted = {}

VARIABLES
  arg,      \* the arguments: [type, name], and the state of the root
  pc,       \* where the call is
  todo,     \* the entries the loop has still to visit, by their places in Root
  names,    \* the files of the current directory still to read
  open,     \* the file being read and the version ..data resolved to
  out,      \* the map readBindingDir builds
  lastErr,  \* findBinding's lastErr is not nil
  result,   \* "none", "found", "not_found" or "error"
  current,  \* the version ..data points to
  live,     \* the versions whose directory exists
  present,  \* the directories that are mounted
  quiet     \* no volume has changed since the call began (history)

reader == <<arg, pc, todo, names, open, out, lastErr, result>>
volume == <<current, live, present>>
vars   == <<reader, volume, quiet>>

NoFile   == [key |-> "", version |-> 0]
EmptyMap == << >>

Init == /\ arg \in [type : Types, name : Names, root : {"mounted", "absent", "unreadable"}]
        /\ pc = "start"
        /\ todo = {}
        /\ names = {}
        /\ open = NoFile
        /\ out = EmptyMap
        /\ lastErr = FALSE
        /\ result = "none"
        /\ current = [d \in Dirs |-> 1]
        /\ live = [d \in Dirs |-> {1}]
        /\ present = Dirs
        /\ quiet = TRUE
-----------------------------------------------------------------------------
\* The entries findBinding does not skip.
Wanted(e) == e.dir /\ ~e.dotted /\ (arg.name = "" \/ e.name = arg.name)

Mounted(e) == ~e.dir \/ e.dotted \/ e.name \in present

Return(r) == pc' = "done" /\ result' = r

\* os.ReadDir(root), and the filter of the loop over its entries.  Only a root
\* that does not exist is ErrNotFound.
ListRoot ==
  /\ pc = "start"
  /\ \/ /\ arg.root = "mounted"
        /\ pc' = "next"
        /\ todo' = {i \in DOMAIN Root : Mounted(Root[i]) /\ Wanted(Root[i])}
        /\ UNCHANGED result
     \/ arg.root = "absent"     /\ Return("not_found") /\ UNCHANGED todo
     \/ arg.root = "unreadable" /\ Return("error")     /\ UNCHANGED todo
  /\ UNCHANGED <<arg, names, open, out, lastErr, volume, quiet>>

\* The loop takes the entries in their order.
Dir == Root[Min(todo)].name

\* What os.ReadDir lists of a binding directory.
Listed(d) == DOMAIN Content[d][current[d]] \cup Dotted

\* Mutant: the sentinels are not skipped.
AllNames(d) == Listed(d)

\* The names readBindingDir does not skip.
KeyNames(d) == Listed(d) \ Dotted

\* Mutant: the map is shared by all directories.
SharedMap == UNCHANGED out

\* readBindingDir makes a map of its own for each directory.
FreshMap == out' = EmptyMap

\* os.ReadDir of the next binding directory ...
ListDir ==
  /\ pc = "next" /\ todo # {} /\ Dir \in present
  /\ pc' = "files"
  /\ names' = KeyNames(Dir)
  /\ FreshMap
  /\ UNCHANGED <<arg, todo, open, lastErr, result, volume, quiet>>

\* The loop goes on with the next directory.
NextDir == todo' = todo \ {Min(todo)}

\* ... which fails if it has gone since the root was listed.
ListDirFails ==
  /\ pc = "next" /\ todo # {} /\ Dir \notin present
  /\ lastErr' = TRUE
  /\ NextDir
  /\ UNCHANGED <<arg, pc, names, open, out, result, volume, quiet>>

\* os.ReadFile of the next name: the path is resolved through ..data ...
Resolve ==
  /\ pc = "files"
  /\ \E k \in names : /\ open' = [key |-> k, version |-> current[Dir]]
                      /\ names' = names \ {k}
  /\ pc' = "open"
  /\ UNCHANGED <<arg, todo, out, lastErr, result, volume, quiet>>

Readable == /\ Dir \in present
            /\ open.version \in live[Dir]
            /\ open.key \in DOMAIN Content[Dir][open.version]

\* ... and the file is read, or the error ignored and the key left out.
ReadFile ==
  /\ pc = "open"
  /\ pc' = "files"
  /\ out' = IF Readable
              THEN [k \in DOMAIN out \cup {open.key} |->
                      IF k = open.key THEN Content[Dir][open.version][k] ELSE out[k]]
              ELSE out
  /\ open' = NoFile
  /\ UNCHANGED <<arg, todo, names, lastErr, result, volume, quiet>>

\* Mutant: the fields of the blob replace the separate files.
MergeOver(m) ==
  IF "credentials" \notin DOMAIN m THEN m
  ELSE LET fields == m["credentials"].fields
           scalar == {k \in DOMAIN fields : fields[k].scalar}
       IN [k \in DOMAIN m \cup scalar |-> IF k \in scalar THEN fields[k] ELSE m[k]]

\* The fields of a "credentials" blob that are strings, numbers or Booleans
\* are fallbacks for the keys without a file.
Merge(m) ==
  IF "credentials" \notin DOMAIN m THEN m
  ELSE LET fields == m["credentials"].fields
           added  == {k \in DOMAIN fields : fields[k].scalar} \ DOMAIN m
       IN [k \in DOMAIN m \cup added |-> IF k \in added THEN fields[k] ELSE m[k]]

HasType(m, type) == "type" \in DOMAIN m /\ m["type"].text = type

\* readBindingDir returns; findBinding returns its map if the type matches.
DirRead ==
  /\ pc = "files" /\ names = {}
  /\ out' = Merge(out)
  /\ IF HasType(Merge(out), arg.type)
       THEN Return("found") /\ UNCHANGED todo
       ELSE pc' = "next" /\ NextDir /\ UNCHANGED result
  /\ UNCHANGED <<arg, names, open, lastErr, volume, quiet>>

\* No directory is left: ErrNotFound, with or without lastErr.
NoneLeft ==
  /\ pc = "next" /\ todo = {}
  /\ Return("not_found")
  /\ UNCHANGED <<arg, todo, names, open, out, lastErr, volume, quiet>>
-----------------------------------------------------------------------------
\* What happens after the call has returned matters to nobody.
VolumeChanges == pc # "done" /\ quiet' = (pc = "start")

\* The kubelet makes the next version the current one ...
Rotate(d) ==
  /\ current[d] + 1 \in Versions(d)
  /\ current' = [current EXCEPT ![d] = @ + 1]
  /\ live' = [live EXCEPT ![d] = @ \cup {current[d] + 1}]
  /\ VolumeChanges
  /\ UNCHANGED <<reader, present>>

\* ... and deletes the directory of an older one.
Clean(d) ==
  /\ live[d] # {current[d]}
  /\ live' = [live EXCEPT ![d] = {current[d]}]
  /\ VolumeChanges
  /\ UNCHANGED <<reader, current, present>>

\* A binding is unmounted.
Unmount(d) ==
  /\ d \in present
  /\ present' = present \ {d}
  /\ VolumeChanges
  /\ UNCHANGED <<reader, current, live>>

Finished == pc = "done" /\ UNCHANGED vars

Next == \/ ListRoot \/ ListDir \/ ListDirFails \/ Resolve \/ ReadFile
        \/ DirRead \/ NoneLeft
        \/ \E d \in Dirs : Rotate(d) \/ Clean(d) \/ Unmount(d)
        \/ Finished

Spec == Init /\ [][Next]_vars
-----------------------------------------------------------------------------
\* Types of all variables; a sentinel is never among the files to read.
TypeOK ==
  /\ pc \in {"start", "next", "files", "open", "done"}
  /\ todo \subseteq DOMAIN Root
  /\ names \cap Dotted = {}
  /\ open.version \in Nat
  /\ lastErr \in BOOLEAN
  /\ result \in {"none", "found", "not_found", "error"}
  /\ \A d \in Dirs : current[d] \in Versions(d) /\ live[d] \subseteq Versions(d)
  /\ present \subseteq Dirs
  /\ quiet \in BOOLEAN

\* What version v of directory d says, by the layout of the package comment: a
\* key's own file, or else the scalar field of the credentials blob.
Says(d, v) ==
  LET files  == Content[d][v]
      fields == IF "credentials" \in DOMAIN files THEN files["credentials"].fields
                                                  ELSE EmptyMap
      keys   == DOMAIN files \cup {k \in DOMAIN fields : fields[k].scalar}
  IN [k \in keys |-> IF k \in DOMAIN files THEN files[k] ELSE fields[k]]

\* However the volumes change, a map that is returned never mixes two bindings:
\* every value is one that some version of one directory gives the key.
OneBinding ==
  result = "found" /\ out # EmptyMap =>
    \E d \in Dirs : \A k \in DOMAIN out : \E v \in Versions(d) :
      LET files == Content[d][v]
      IN \/ k \in DOMAIN files /\ out[k] = files[k]
         \/ /\ "credentials" \in DOMAIN files
            /\ k \in DOMAIN files["credentials"].fields
            /\ out[k] = files["credentials"].fields[k]

\* The comment at kyma.go:77-78: ErrNotFound means that "no such directory
\* exists", so not one that is mounted all the time with the wanted type.
NotFoundMeansAbsent ==
  result = "not_found" /\ arg.root = "mounted" =>
    ~ \E i \in DOMAIN Root :
        /\ Wanted(Root[i])
        /\ Root[i].name \in present
        /\ \A v \in Versions(Root[i].name) : HasType(Says(Root[i].name, v), arg.type)
=============================================================================
