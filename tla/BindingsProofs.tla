---------------------------- MODULE BindingsProofs ----------------------------
(***************************************************************************)
(* Proofs about Bindings and KymaBinding, for any directories, versions    *)
(* and files, and any changes of the volumes.                              *)
(***************************************************************************)
EXTENDS Bindings, WellFoundedInduction, TLAPS

Files(d) == Content[d][current[d]]

\* The current version of a directory exists.
VolumeOK ==
  /\ DOMAIN current = Dirs /\ DOMAIN live = Dirs
  /\ \A d \in Dirs : /\ current[d] \in Versions(d) /\ current[d] \in Nat
                     /\ live[d] \subseteq Versions(d) /\ current[d] \in live[d]
  /\ present \subseteq Dirs

\* Files are read of a directory that was listed, and the call ends with a
\* result.
ReaderOK ==
  /\ arg.type \in Types
  /\ pc \in {"start", "next", "files", "open", "done"}
  /\ todo \subseteq DOMAIN Root
  /\ names \cap Dotted = {}
  /\ open.version \in Nat
  /\ lastErr \in BOOLEAN /\ quiet \in BOOLEAN
  /\ result \in {"none", "found", "not_found", "error"}
  /\ result = "none" <=> pc # "done"
  /\ pc \in {"files", "open"} => todo # {} /\ Dir \in Dirs
  /\ pc = "open" => open.version \in Versions(Dir)

\* Some version of directory d gives key k the value x.
Gives(d, k, x) == \E v \in Versions(d) : k \in DOMAIN Content[d][v] /\ x = Content[d][v][k]

\* The map that is built is of the directory that is read.
OutOK ==
  /\ pc \in {"files", "open"} => \A k \in DOMAIN out : Gives(Dir, k, out[k])
  /\ OneBinding

\* The entries whose directories the loop visits if nothing changes.
Shown == {i \in DOMAIN Root : Mounted(Root[i]) /\ Wanted(Root[i])}

\* What the directory of an entry says now, and whether it is one to return.
Now(i)     == Says(Root[i].name, current[Root[i].name])
Matches(i) == HasType(Now(i), arg.type)

\* A directory is read as it is now.
ReadingOK ==
  /\ out = [k \in DOMAIN out |-> Files(Dir)[k]]
  /\ DOMAIN out \cup names \cup (IF pc = "open" THEN {open.key} ELSE {}) = DOMAIN Files(Dir)
  /\ pc = "open" => open.version = current[Dir]

\* While no volume changes, a call passes the directories that do not match
\* and returns what the first that does says.
QuietOK ==
  quiet =>
    /\ pc \in {"next", "files", "open"} =>
         /\ todo \subseteq Shown
         /\ \A i \in Shown \ todo : ~Matches(i) /\ \A j \in todo : i < j
    /\ pc \in {"files", "open"} => ReadingOK
    /\ result = "found" =>
         \E i \in Shown : /\ out = Now(i) /\ Matches(i)
                          /\ \A j \in Shown : j < i => ~Matches(j)
    /\ result = "not_found" /\ arg.root = "mounted" => \A j \in Shown : ~Matches(j)
    /\ result = "error" => arg.root # "mounted"

\* The struct is made of the map that the provider has returned.
TypedOK ==
  /\ provider \in {"none", "cf", "kyma", "error"}
  /\ provider # "kyma" => out = EmptyMap
  /\ provider \in {"none", "error"} => pc = "start" /\ typed = NoStruct
  /\ typed # NoStruct => result = "found" /\ DOMAIN typed = DOMAIN KeysOf[arg.type]
  /\ typed # NoStruct /\ provider = "kyma" => typed = Struct(out, arg.type)

\* The entries that VCAP_SERVICES has an instance for, of those asked for.
Bound == {i \in DOMAIN Root : /\ Wanted(Root[i]) /\ Root[i].name \in DOMAIN Meant
                              /\ Meant[Root[i].name][1].type = arg.type}

\* The CF provider's call gives what is meant by the first, or fails for want
\* of one.
VcapOK ==
  provider = "cf" =>
    /\ typed # NoStruct => \E i \in Bound : /\ \A j \in Bound : i =< j
                                            /\ typed = Meant[Root[i].name][1].struct
    /\ pc = "done" /\ result # "found" => Bound = {}

Inv == VolumeOK /\ ReaderOK /\ OutOK /\ (provider # "cf" => QuietOK) /\ TypedOK /\ VcapOK
-----------------------------------------------------------------------------
\* The places of the entries are numbers.
LEMMA RootType == DOMAIN Root \subseteq Nat
<1>1. DOMAIN Root = 1..Len(Root) /\ Len(Root) \in Nat
  BY ContentAssumption
<1> QED
  BY <1>1

\* A set of numbers that is not empty has a least one.
LEMMA LeastNumber == \A T \in SUBSET Nat : T # {} => \E n \in T : \A m \in T : n =< m
<1>1. IsWellFoundedOn(OpToRel(<, Nat), Nat)
  BY NatLessThanWellFounded
<1>2. SUFFICES ASSUME NEW T \in SUBSET Nat, T # {} PROVE \E n \in T : \A m \in T : n =< m
  OBVIOUS
<1>3. PICK n \in T : \A m \in T : ~(<<m, n>> \in OpToRel(<, Nat))
  BY <1>1, <1>2, WFMin
<1>4. \A m \in T : ~(m < n)
  BY <1>3 DEF OpToRel
<1> QED
  BY <1>4

\* The loop takes the first of the entries that are left.
LEMMA FirstEntry ==
  ASSUME NEW T \in SUBSET DOMAIN Root, T # {}
  PROVE  Min(T) \in T /\ \A j \in T : Min(T) =< j
<1>1. \E n \in T : \A j \in T : n =< j
  <2>1. T \in SUBSET Nat
    BY RootType
  <2> QED
    BY <2>1, LeastNumber
<1> QED
  BY <1>1 DEF Min

\* What the fields of a blob add to a map is of the same binding.
LEMMA MergeGives ==
  ASSUME NEW m, NEW d, \A k \in DOMAIN m : Gives(d, k, m[k]), NEW k \in DOMAIN Merge(m)
  PROVE  \E v \in Versions(d) :
           LET files == Content[d][v]
           IN \/ k \in DOMAIN files /\ Merge(m)[k] = files[k]
              \/ /\ "credentials" \in DOMAIN files
                 /\ k \in DOMAIN files["credentials"].fields
                 /\ Merge(m)[k] = files["credentials"].fields[k]
<1>1. CASE k \in DOMAIN m
  <2>1. Merge(m)[k] = m[k]
    BY <1>1 DEF Merge
  <2>2. Gives(d, k, m[k])
    BY <1>1
  <2> QED
    BY <2>1, <2>2 DEF Gives
<1>2. CASE k \notin DOMAIN m
  <2> DEFINE fields == m["credentials"].fields
  <2>1. "credentials" \in DOMAIN m /\ k \in DOMAIN fields /\ Merge(m)[k] = fields[k]
    BY <1>2 DEF Merge
  <2>2. Gives(d, "credentials", m["credentials"])
    BY <2>1
  <2> QED
    BY <2>1, <2>2 DEF Gives
<1> QED
  BY <1>1, <1>2

\* With all its files, a directory gives what its version says.
LEMMA MergeSays ==
  ASSUME NEW d, NEW v, NEW m, m = [k \in DOMAIN Content[d][v] |-> Content[d][v][k]]
  PROVE  Merge(m) = Says(d, v)
<1> DEFINE files == Content[d][v]
<1>0. DOMAIN m = DOMAIN files /\ \A k \in DOMAIN files : m[k] = files[k]
  OBVIOUS
<1>1. CASE "credentials" \notin DOMAIN files
  <2>1. DOMAIN EmptyMap = {}
    BY DEF EmptyMap
  <2>2. Says(d, v) = [k \in DOMAIN files |-> files[k]]
    BY <1>1, <2>1 DEF Says
  <2>3. Merge(m) = m
    BY <1>0, <1>1 DEF Merge
  <2> QED
    BY <2>2, <2>3
<1>2. CASE "credentials" \in DOMAIN files
  <2> DEFINE fields == files["credentials"].fields
             scalar == {k \in DOMAIN fields : fields[k].scalar}
  <2>1. Says(d, v) = [k \in DOMAIN files \cup scalar |-> IF k \in DOMAIN files THEN files[k] ELSE fields[k]]
    BY <1>2 DEF Says
  <2>2. Merge(m) = [k \in DOMAIN files \cup (scalar \ DOMAIN files) |->
                      IF k \in scalar \ DOMAIN files THEN fields[k] ELSE m[k]]
    BY <1>0, <1>2 DEF Merge
  <2>3. DOMAIN files \cup (scalar \ DOMAIN files) = DOMAIN files \cup scalar
    OBVIOUS
  <2>4. \A k \in DOMAIN files \cup scalar :
          (IF k \in scalar \ DOMAIN files THEN fields[k] ELSE m[k])
            = (IF k \in DOMAIN files THEN files[k] ELSE fields[k])
    BY <1>0
  <2>5. Merge(m) = [k \in DOMAIN files \cup scalar |->
                      IF k \in scalar \ DOMAIN files THEN fields[k] ELSE m[k]]
    BY <2>2, <2>3, Zenon
  <2> HIDE DEF files, fields, scalar
  <2> QED
    BY <2>1, <2>4, <2>5
<1> QED
  BY <1>1, <1>2

\* While no volume changes, every entry is shown and says what it did.
LEMMA ShownKept ==
  ASSUME UNCHANGED <<arg, current, present>>
  PROVE  /\ Shown' = Shown
         /\ \A i : Now(i)' = Now(i) /\ (Matches(i)' <=> Matches(i))
<1>1. Shown' = Shown
  BY DEF Shown, Mounted, Wanted
<1>2. \A i : Now(i)' = Now(i)
  BY DEF Now
<1> QED
  BY <1>1, <1>2 DEF Matches

\* The map that is returned stays what it is.
LEMMA OneBindingKept ==
  ASSUME UNCHANGED <<result, out>>, OneBinding
  PROVE  OneBinding'
  BY DEF OneBinding

\* What the provider's call keeps, the map it builds included.
CallOK == VolumeOK /\ ReaderOK /\ OutOK /\ QuietOK

\* The root is listed.
LEMMA ListRootKeeps == CallOK /\ ListRoot => CallOK'
<1> SUFFICES ASSUME CallOK, ListRoot PROVE CallOK'
  OBVIOUS
<1>0. VolumeOK /\ ReaderOK /\ OutOK /\ QuietOK
  BY DEF CallOK
<1>1. UNCHANGED <<arg, names, open, out, lastErr, current, live, present, quiet>> /\ pc = "start"
  BY DEF ListRoot, volume
<1>2. VolumeOK'
  BY <1>0, <1>1 DEF VolumeOK
<1>3. Shown' = Shown /\ \A i : Now(i)' = Now(i) /\ (Matches(i)' <=> Matches(i))
  BY <1>1, ShownKept
<1>4. CASE arg.root = "mounted" /\ pc' = "next" /\ todo' = Shown /\ UNCHANGED result
  <2>1. ReaderOK'
    BY <1>0, <1>1, <1>4 DEF ReaderOK, Shown
  <2>2. OutOK'
    BY <1>0, <1>1, <1>4, OneBindingKept DEF OutOK
  <2>3. result' = "none"
    BY <1>0, <1>1, <1>4 DEF ReaderOK
  <2>4. QuietOK'
    BY <1>3, <1>4, <2>3 DEF QuietOK
  <2> QED
    BY <1>2, <2>1, <2>2, <2>4 DEF CallOK
<1>5. CASE arg.root # "mounted" /\ pc' = "done" /\ result' \in {"not_found", "error"} /\ UNCHANGED todo
  <2>1. ReaderOK'
    BY <1>0, <1>1, <1>5 DEF ReaderOK
  <2>2. OutOK'
    BY <1>5 DEF OutOK, OneBinding
  <2>3. QuietOK'
    BY <1>1, <1>5 DEF QuietOK
  <2> QED
    BY <1>2, <2>1, <2>2, <2>3 DEF CallOK
<1> QED
  BY <1>4, <1>5 DEF ListRoot, Return, Shown

\* The next directory is listed: all its files, and no sentinel, are to be read.
LEMMA ListDirKeeps == CallOK /\ ListDir => CallOK'
<1> SUFFICES ASSUME CallOK, ListDir PROVE CallOK'
  OBVIOUS
<1>0. VolumeOK /\ ReaderOK /\ OutOK /\ QuietOK
  BY DEF CallOK
<1>1. /\ pc = "next" /\ todo # {} /\ Dir \in present
      /\ pc' = "files" /\ names' = KeyNames(Dir) /\ out' = EmptyMap
      /\ UNCHANGED <<arg, todo, open, lastErr, result, current, live, present, quiet>>
  BY DEF ListDir, FreshMap, volume
<1>2. VolumeOK'
  BY <1>0, <1>1 DEF VolumeOK
<1>3. Dir' = Dir /\ Dir \in Dirs /\ Files(Dir)' = Files(Dir) /\ DOMAIN out' = {}
  BY <1>0, <1>1 DEF Dir, VolumeOK, Files, EmptyMap
<1>4. names' = DOMAIN Files(Dir) /\ names' \cap Dotted = {}
  BY <1>0, <1>1, <1>3, ContentAssumption DEF KeyNames, Listed, Files, VolumeOK
<1>5. ReaderOK'
  BY <1>0, <1>1, <1>3, <1>4 DEF ReaderOK
<1>6. OutOK'
  <2>1. result' = "none"
    BY <1>0, <1>1 DEF ReaderOK
  <2> QED
    BY <1>3, <2>1 DEF OutOK, OneBinding
<1>7. QuietOK'
  <2>1. Shown' = Shown /\ \A i : Now(i)' = Now(i) /\ (Matches(i)' <=> Matches(i))
    BY <1>1, ShownKept
  <2>2. ReadingOK'
    <3>1. out' = [k \in {} |-> Files(Dir)[k]]
      BY <1>1 DEF EmptyMap
    <3> QED
      BY <1>1, <1>3, <1>4, <3>1 DEF ReadingOK
  <2> QED
    BY <1>0, <1>1, <2>1, <2>2 DEF QuietOK, ReaderOK
<1> QED
  BY <1>2, <1>5, <1>6, <1>7 DEF CallOK

\* A directory that cannot be listed has gone since the root was.
LEMMA ListDirFailsKeeps == CallOK /\ ListDirFails => CallOK'
<1> SUFFICES ASSUME CallOK, ListDirFails PROVE CallOK'
  OBVIOUS
<1>0. VolumeOK /\ ReaderOK /\ OutOK /\ QuietOK
  BY DEF CallOK
<1>1. /\ pc = "next" /\ todo # {} /\ Dir \notin present /\ lastErr' = TRUE
      /\ todo' = todo \ {Min(todo)}
      /\ UNCHANGED <<arg, pc, names, open, out, result, current, live, present, quiet>>
  BY DEF ListDirFails, NextDir, volume
<1>2. VolumeOK'
  BY <1>0, <1>1 DEF VolumeOK
<1>3. ReaderOK'
  BY <1>0, <1>1 DEF ReaderOK
<1>4. OutOK'
  BY <1>0, <1>1, OneBindingKept DEF OutOK
<1>5. ~quiet
  <2> SUFFICES ASSUME quiet PROVE FALSE
    BY <1>0 DEF ReaderOK
  <2>1. Min(todo) \in todo /\ todo \subseteq Shown
    BY <1>0, <1>1, FirstEntry DEF ReaderOK, QuietOK
  <2> QED
    BY <1>1, <2>1 DEF Shown, Mounted, Wanted, Dir
<1>6. QuietOK'
  BY <1>1, <1>5 DEF QuietOK
<1> QED
  BY <1>2, <1>3, <1>4, <1>6 DEF CallOK

\* A name is resolved to the current version.
LEMMA ResolveKeeps == CallOK /\ Resolve => CallOK'
<1> SUFFICES ASSUME CallOK, Resolve PROVE CallOK'
  OBVIOUS
<1>0. VolumeOK /\ ReaderOK /\ OutOK /\ QuietOK
  BY DEF CallOK
<1>1. /\ pc = "files" /\ pc' = "open"
      /\ UNCHANGED <<arg, todo, out, lastErr, result, current, live, present, quiet>>
  BY DEF Resolve, volume
<1>2. PICK k \in names : open' = [key |-> k, version |-> current[Dir]] /\ names' = names \ {k}
  BY DEF Resolve
<1>3. open'.key = k /\ open'.version = current[Dir]
  BY <1>2
<1>4. Dir' = Dir /\ Dir \in Dirs /\ Files(Dir)' = Files(Dir)
  BY <1>0, <1>1 DEF Dir, ReaderOK, Files
<1>5. VolumeOK'
  BY <1>0, <1>1 DEF VolumeOK
<1>6. ReaderOK'
  <2>1. current[Dir] \in Versions(Dir) /\ current[Dir] \in Nat
    BY <1>0, <1>4 DEF VolumeOK
  <2> QED
    BY <1>0, <1>1, <1>2, <1>3, <1>4, <2>1 DEF ReaderOK
<1>7. OutOK'
  BY <1>0, <1>1, <1>4, OneBindingKept DEF OutOK
<1>8. QuietOK'
  <2>1. Shown' = Shown /\ \A i : Now(i)' = Now(i) /\ (Matches(i)' <=> Matches(i))
    BY <1>1, ShownKept
  <2>2. ASSUME quiet PROVE ReadingOK'
    <3>1. ReadingOK
      BY <1>0, <1>1, <2>2 DEF QuietOK
    <3> QED
      BY <1>1, <1>2, <1>3, <1>4, <3>1 DEF ReadingOK
  <2> QED
    BY <1>0, <1>1, <2>1, <2>2 DEF QuietOK, ReaderOK
<1> QED
  BY <1>5, <1>6, <1>7, <1>8 DEF CallOK

\* A file is read, or left out if it cannot be: which is not so while no volume
\* changes.
LEMMA ReadFileKeeps == CallOK /\ ReadFile => CallOK'
<1> SUFFICES ASSUME CallOK, ReadFile PROVE CallOK'
  OBVIOUS
<1> DEFINE key == open.key
           x == Content[Dir][open.version][key]
<1>0. VolumeOK /\ ReaderOK /\ OutOK /\ QuietOK
  BY DEF CallOK
<1>1. /\ pc = "open" /\ pc' = "files" /\ open' = NoFile
      /\ UNCHANGED <<arg, todo, names, lastErr, result, current, live, present, quiet>>
  BY DEF ReadFile, volume
<1>2. out' = IF Readable THEN [k \in DOMAIN out \cup {key} |-> IF k = key THEN x ELSE out[k]] ELSE out
  BY DEF ReadFile
<1>3. Dir' = Dir /\ Dir \in Dirs /\ Files(Dir)' = Files(Dir) /\ result' = "none"
  BY <1>0, <1>1 DEF Dir, ReaderOK, Files
<1>4. VolumeOK'
  BY <1>0, <1>1 DEF VolumeOK
<1>5. ReaderOK'
  BY <1>0, <1>1, <1>3 DEF ReaderOK, NoFile
<1>6. OutOK'
  <2>1. ASSUME NEW k \in DOMAIN out' PROVE Gives(Dir, k, out'[k])
    <3>1. CASE k = key /\ Readable
      <4>1. out'[k] = x
        BY <1>2, <3>1
      <4>2. open.version \in Versions(Dir) /\ key \in DOMAIN Content[Dir][open.version]
        BY <1>0, <1>1, <3>1 DEF ReaderOK, Readable
      <4> QED
        BY <3>1, <4>1, <4>2 DEF Gives
    <3>2. CASE ~(k = key /\ Readable)
      <4>1. k \in DOMAIN out /\ out'[k] = out[k]
        BY <1>2, <2>1, <3>2
      <4> QED
        BY <1>0, <1>1, <4>1 DEF OutOK
    <3> QED
      BY <3>1, <3>2
  <2>2. OneBinding'
    BY <1>3 DEF OneBinding
  <2> QED
    BY <1>3, <2>1, <2>2 DEF OutOK
<1>7. QuietOK'
  <2>1. Shown' = Shown /\ \A i : Now(i)' = Now(i) /\ (Matches(i)' <=> Matches(i))
    BY <1>1, ShownKept
  <2>2. ASSUME quiet PROVE ReadingOK'
    <3>1. ReadingOK /\ todo \subseteq Shown /\ todo # {}
      BY <1>0, <1>1, <2>2 DEF QuietOK, ReaderOK
    <3>2. key \in DOMAIN Files(Dir) /\ open.version = current[Dir]
      BY <1>1, <3>1 DEF ReadingOK
    <3>3. Dir \in present
      <4>1. Min(todo) \in todo
        BY <1>0, <3>1, FirstEntry DEF ReaderOK
      <4> QED
        BY <3>1, <4>1 DEF Shown, Mounted, Wanted, Dir
    <3>4. Readable
      BY <1>0, <1>3, <3>2, <3>3 DEF Readable, VolumeOK, Files
    <3>5. x = Files(Dir)[key]
      BY <3>2 DEF Files
    <3>6. DOMAIN out' = DOMAIN out \cup {key} /\ out' = [k \in DOMAIN out \cup {key} |-> Files(Dir)[k]]
      <4>1. \A k \in DOMAIN out : out[k] = Files(Dir)[k]
        BY <3>1 DEF ReadingOK
      <4> HIDE DEF x, key
      <4> QED
        BY <1>2, <3>4, <3>5, <4>1
    <3> QED
      BY <1>1, <1>3, <3>1, <3>6 DEF ReadingOK
  <2> QED
    BY <1>0, <1>1, <1>3, <2>1, <2>2 DEF QuietOK, ReaderOK
<1> QED
  BY <1>4, <1>5, <1>6, <1>7 DEF CallOK

\* A directory has been read: its map is returned, or the loop goes on.
LEMMA DirReadKeeps == CallOK /\ DirRead => CallOK'
<1> SUFFICES ASSUME CallOK, DirRead PROVE CallOK'
  OBVIOUS
<1>0. VolumeOK /\ ReaderOK /\ OutOK /\ QuietOK
  BY DEF CallOK
<1>1. /\ pc = "files" /\ names = {} /\ out' = Merge(out)
      /\ UNCHANGED <<arg, names, open, lastErr, current, live, present, quiet>>
      /\ \/ HasType(Merge(out), arg.type) /\ pc' = "done" /\ result' = "found" /\ UNCHANGED todo
         \/ /\ ~HasType(Merge(out), arg.type) /\ pc' = "next" /\ todo' = todo \ {Min(todo)}
            /\ UNCHANGED result
  BY DEF DirRead, Return, NextDir, volume
<1>2. VolumeOK'
  BY <1>0, <1>1 DEF VolumeOK
<1>3. ReaderOK'
  BY <1>0, <1>1 DEF ReaderOK
<1>4. OutOK'
  <2>1. Dir \in Dirs /\ \A k \in DOMAIN out : Gives(Dir, k, out[k])
    BY <1>0, <1>1 DEF ReaderOK, OutOK
  <2>2. OneBinding'
    BY <1>1, <2>1, MergeGives DEF OneBinding
  <2> QED
    BY <1>1, <2>2 DEF OutOK
<1>5. QuietOK'
  <2> SUFFICES ASSUME quiet PROVE QuietOK'
    BY <1>1 DEF QuietOK
  <2>1. Shown' = Shown /\ \A i : Now(i)' = Now(i) /\ (Matches(i)' <=> Matches(i))
    BY <1>1, ShownKept
  <2>2. /\ ReadingOK /\ todo \subseteq Shown /\ result = "none"
        /\ \A i \in Shown \ todo : ~Matches(i) /\ \A j \in todo : i < j
    BY <1>0, <1>1 DEF QuietOK, ReaderOK
  <2>3. PICK first \in todo : first = Min(todo) /\ \A j \in todo : first =< j
    <3>1. todo \in SUBSET DOMAIN Root /\ todo # {}
      BY <1>0, <1>1 DEF ReaderOK
    <3>2. Min(todo) \in todo /\ \A j \in todo : Min(todo) =< j
      BY <3>1, FirstEntry
    <3> QED
      BY <3>2
  <2>4. Merge(out) = Now(first)
    <3>1. out = [k \in DOMAIN Files(Dir) |-> Files(Dir)[k]]
      BY <1>1, <2>2 DEF ReadingOK
    <3> QED
      BY <2>3, <3>1, MergeSays DEF Now, Dir, Files
  <2>5. first \in Nat /\ \A j \in Shown : j \in Nat
    BY <2>2, <2>3, RootType DEF Shown
  <2>6. CASE pc' = "done"
    <3>1. out' = Now(first)' /\ Matches(first)' /\ first \in Shown'
      BY <1>1, <2>1, <2>2, <2>3, <2>4, <2>6 DEF Matches
    <3>2. \A j \in Shown : j < first => ~Matches(j)
      BY <2>2, <2>3, <2>5
    <3>3. \E i \in Shown' : out' = Now(i)' /\ Matches(i)' /\ \A j \in Shown' : j < i => ~Matches(j)'
      BY <2>1, <3>1, <3>2
    <3>4. result' = "found"
      BY <1>1, <2>6
    <3> QED
      BY <2>6, <3>3, <3>4 DEF QuietOK
  <2>7. CASE pc' = "next"
    <3>1. ~Matches(first) /\ todo' = todo \ {first} /\ result' = "none"
      BY <1>1, <2>2, <2>3, <2>4, <2>7 DEF Matches
    <3>2. \A i \in Shown \ todo' : ~Matches(i) /\ \A j \in todo' : i < j
      BY <2>2, <2>3, <2>5, <3>1
    <3> QED
      BY <2>1, <2>2, <2>7, <3>1, <3>2 DEF QuietOK
  <2> QED
    BY <1>1, <2>6, <2>7
<1> QED
  BY <1>2, <1>3, <1>4, <1>5 DEF CallOK

\* No directory is left.
LEMMA NoneLeftKeeps == CallOK /\ NoneLeft => CallOK'
<1> SUFFICES ASSUME CallOK, NoneLeft PROVE CallOK'
  OBVIOUS
<1>0. VolumeOK /\ ReaderOK /\ OutOK /\ QuietOK
  BY DEF CallOK
<1>1. /\ pc = "next" /\ todo = {} /\ pc' = "done" /\ result' = "not_found"
      /\ UNCHANGED <<arg, todo, names, open, out, lastErr, current, live, present, quiet>>
  BY DEF NoneLeft, Return, volume
<1>2. VolumeOK'
  BY <1>0, <1>1 DEF VolumeOK
<1>3. ReaderOK'
  BY <1>0, <1>1 DEF ReaderOK
<1>4. OutOK'
  BY <1>1 DEF OutOK, OneBinding
<1>5. QuietOK'
  <2>1. Shown' = Shown /\ \A i : Now(i)' = Now(i) /\ (Matches(i)' <=> Matches(i))
    BY <1>1, ShownKept
  <2> QED
    BY <1>0, <1>1, <2>1 DEF QuietOK
<1> QED
  BY <1>2, <1>3, <1>4, <1>5 DEF CallOK

\* A volume changes: the call is not a quiet one unless it has yet to begin.
LEMMA VolumeKeeps ==
  ASSUME CallOK, VolumeOK', UNCHANGED reader, VolumeChanges
  PROVE  CallOK'
<1>0. VolumeOK /\ ReaderOK /\ OutOK /\ QuietOK
  BY DEF CallOK
<1>1. /\ UNCHANGED <<arg, pc, todo, names, open, out, lastErr, result>>
      /\ pc # "done" /\ quiet' = (pc = "start")
  BY DEF VolumeChanges, reader
<1>2. result = "none" /\ Dir' = Dir
  BY <1>0, <1>1 DEF ReaderOK, Dir
<1>3. ReaderOK'
  BY <1>0, <1>1, <1>2 DEF ReaderOK
<1>4. OutOK'
  BY <1>0, <1>1, <1>2, OneBindingKept DEF OutOK
<1>5. QuietOK'
  BY <1>1, <1>2 DEF QuietOK
<1> QED
  BY <1>3, <1>4, <1>5 DEF CallOK

\* The kubelet updates, cleans up and unmounts directories.
LEMMA KubeletKeeps ==
  ASSUME CallOK, NEW d \in Dirs, Rotate(d) \/ Clean(d) \/ Unmount(d)
  PROVE  CallOK'
<1>0. VolumeOK
  BY DEF CallOK
<1>1. CASE Rotate(d)
  <2>1. /\ current[d] + 1 \in Versions(d) /\ UNCHANGED reader /\ UNCHANGED present /\ VolumeChanges
        /\ current' = [current EXCEPT ![d] = @ + 1]
        /\ live' = [live EXCEPT ![d] = @ \cup {current[d] + 1}]
    BY <1>1 DEF Rotate
  <2>2. /\ DOMAIN current' = Dirs /\ DOMAIN live' = Dirs
        /\ current'[d] = current[d] + 1 /\ live'[d] = live[d] \cup {current[d] + 1}
        /\ \A e \in Dirs \ {d} : current'[e] = current[e] /\ live'[e] = live[e]
    BY <1>0, <2>1 DEF VolumeOK
  <2>3. current[d] + 1 \in Nat
    BY <1>0 DEF VolumeOK
  <2>4. VolumeOK'
    BY <1>0, <2>1, <2>2, <2>3 DEF VolumeOK
  <2> QED
    BY <2>1, <2>4, VolumeKeeps
<1>2. CASE Clean(d)
  <2>1. /\ UNCHANGED reader /\ UNCHANGED <<current, present>> /\ VolumeChanges
        /\ live' = [live EXCEPT ![d] = {current[d]}]
    BY <1>2 DEF Clean
  <2>2. VolumeOK'
    BY <1>0, <2>1 DEF VolumeOK
  <2> QED
    BY <2>1, <2>2, VolumeKeeps
<1>3. CASE Unmount(d)
  <2>1. /\ UNCHANGED reader /\ UNCHANGED <<current, live>> /\ VolumeChanges
        /\ present' = present \ {d}
    BY <1>3 DEF Unmount
  <2>2. VolumeOK'
    BY <1>0, <2>1 DEF VolumeOK
  <2> QED
    BY <2>1, <2>2, VolumeKeeps
<1> QED
  BY <1>1, <1>2, <1>3

\* Nothing happens to the call and the volumes.
LEMMA Stutters ==
  ASSUME VolumeOK, ReaderOK, OutOK, UNCHANGED vars
  PROVE  VolumeOK' /\ ReaderOK' /\ OutOK' /\ (QuietOK => QuietOK')
<1>1. UNCHANGED <<arg, pc, todo, names, open, out, lastErr, result, current, live, present, quiet>>
  BY DEF vars, reader, volume
<1>2. Dir' = Dir /\ Files(Dir)' = Files(Dir) /\ VolumeOK'
  BY <1>1 DEF Dir, Files, VolumeOK
<1>3. ReaderOK'
  BY <1>1, <1>2 DEF ReaderOK
<1>4. OutOK'
  BY <1>1, <1>2, OneBindingKept DEF OutOK
<1>5. QuietOK => QuietOK'
  <2>1. Shown' = Shown /\ \A i : Now(i)' = Now(i) /\ (Matches(i)' <=> Matches(i))
    BY <1>1, ShownKept
  <2>2. ReadingOK' <=> ReadingOK
    BY <1>1, <1>2 DEF ReadingOK
  <2> QED
    BY <1>1, <2>1, <2>2 DEF QuietOK
<1> QED
  BY <1>2, <1>3, <1>4, <1>5

\* Every step of a call of the provider, and of the kubelet meanwhile.
LEMMA CallStep == CallOK /\ Next => CallOK'
<1> SUFFICES ASSUME CallOK, Next PROVE CallOK'
  OBVIOUS
<1>1. CASE ListRoot \/ ListDir \/ ListDirFails \/ Resolve \/ ReadFile \/ DirRead \/ NoneLeft
  BY <1>1, ListRootKeeps, ListDirKeeps, ListDirFailsKeeps, ResolveKeeps, ReadFileKeeps,
     DirReadKeeps, NoneLeftKeeps
<1>2. ASSUME NEW d \in Dirs, Rotate(d) \/ Clean(d) \/ Unmount(d) PROVE CallOK'
  BY <1>2, KubeletKeeps
<1>3. CASE Finished
  BY <1>3, Stutters DEF Finished, CallOK
<1> QED
  BY <1>1, <1>2, <1>3 DEF Next

\* A call that has returned does nothing more, and the volumes are left alone.
LEMMA DoneStays == pc = "done" /\ Next => UNCHANGED vars
<1> SUFFICES ASSUME pc = "done", Next PROVE UNCHANGED vars
  OBVIOUS
<1>1. ~(ListRoot \/ ListDir \/ ListDirFails \/ Resolve \/ ReadFile \/ DirRead \/ NoneLeft)
  BY DEF ListRoot, ListDir, ListDirFails, Resolve, ReadFile, DirRead, NoneLeft
<1>2. ASSUME NEW d \in Dirs PROVE ~(Rotate(d) \/ Clean(d) \/ Unmount(d))
  BY DEF Rotate, Clean, Unmount, VolumeChanges
<1> QED
  BY <1>1, <1>2 DEF Next, Finished
-----------------------------------------------------------------------------
\* A program starts with the volumes at their first version.
LEMMA InvInit == BindingsInit => Inv
<1> SUFFICES ASSUME BindingsInit PROVE Inv
  OBVIOUS
<1>1. /\ arg.type \in Types /\ pc = "start" /\ todo = {} /\ names = {} /\ open = NoFile
      /\ out = EmptyMap /\ lastErr = FALSE /\ result = "none" /\ quiet = TRUE
      /\ current = [d \in Dirs |-> 1] /\ live = [d \in Dirs |-> {1}] /\ present = Dirs
      /\ provider = "none" /\ typed = NoStruct
  BY DEF BindingsInit, Init
<1>2. VolumeOK
  BY <1>1, ContentAssumption DEF VolumeOK
<1>3. ReaderOK
  BY <1>1 DEF ReaderOK, NoFile
<1>4. OutOK /\ QuietOK
  BY <1>1 DEF OutOK, OneBinding, QuietOK
<1>5. TypedOK
  BY <1>1 DEF TypedOK
<1>6. VcapOK
  BY <1>1 DEF VcapOK
<1> QED
  BY <1>2, <1>3, <1>4, <1>5, <1>6 DEF Inv

\* The provider is selected.
LEMMA NewProviderKeeps == Inv /\ NewProvider => Inv'
<1> SUFFICES ASSUME Inv, NewProvider PROVE Inv'
  OBVIOUS
<1>1. /\ provider = "none" /\ provider' \in {"cf", "kyma", "error"}
      /\ UNCHANGED vars /\ UNCHANGED typed
  BY DEF NewProvider, Detected
<1>2. VolumeOK' /\ ReaderOK' /\ OutOK' /\ QuietOK'
  BY <1>1, Stutters DEF Inv
<1>3. TypedOK'
  BY <1>1 DEF Inv, TypedOK, vars, reader
<1>4. VcapOK'
  BY <1>1 DEF Inv, TypedOK, VcapOK, vars, reader
<1> QED
  BY <1>2, <1>3, <1>4 DEF Inv

\* The instance that findCredentials takes is the first of those bound ...
LEMMA VcapFirst ==
  ASSUME arg.type \in Types, findCredentials # {}, Instance.object
  PROVE  \E i \in Bound :
           /\ \A j \in Bound : i =< j
           /\ Struct(Scalars(Instance.fields), arg.type) = Meant[Root[i].name][1].struct
<1> DEFINE list   == Instances(arg.type)
           places == {i \in DOMAIN Root : /\ Root[i].dir /\ ~Root[i].dotted
                                          /\ Root[i].name \in DOMAIN Meant
                                          /\ Meant[Root[i].name][1].type = arg.type}
           at(k)  == {i \in places : Root[i].name = list[k].name}
           named  == findCredentials
           first  == Min(findCredentials)
<1>1. /\ DOMAIN list \subseteq Nat
      /\ \A k \in DOMAIN list :
           list[k].object => /\ at(k) # {}
                             /\ Meant[list[k].name][1].struct
                                  = Struct(Scalars(list[k].fields), arg.type)
      /\ \A i \in places : \E k \in DOMAIN list : i \in at(k)
      /\ \A j, k \in DOMAIN list : j < k => \A m \in at(j), n \in at(k) : m < n
  BY VcapAssumption
<1>2. named \subseteq DOMAIN list /\ named \subseteq Nat
  BY <1>1 DEF findCredentials
<1>3. first \in named /\ \A k \in named : first =< k
  <2>1. \E n \in named : \A k \in named : n =< k
    BY <1>2, LeastNumber
  <2> QED
    BY <2>1 DEF Min
<1>4. Instance = list[first] /\ list[first].object
  BY DEF Instance
<1>5. at(first) # {}
  <2> HIDE DEF at, list, first
  <2> QED
    BY <1>1, <1>2, <1>3, <1>4
<1>6. PICK i \in at(first) : TRUE
  BY <1>5
<1>7. i \in Bound
  BY <1>3, <1>6 DEF Bound, Wanted, findCredentials
<1>8. Bound \in SUBSET Nat /\ Bound \subseteq places
  BY RootType DEF Bound, Wanted
<1>9. PICK m \in Bound : \A j \in Bound : m =< j
  BY <1>7, <1>8, LeastNumber
<1>10. PICK k \in DOMAIN list : m \in at(k)
  BY <1>1, <1>8, <1>9
<1>11. k \in named
  BY <1>9, <1>10 DEF findCredentials, Bound, Wanted
<1>12. k = first
  <2>1. first =< k /\ first \in Nat /\ k \in Nat /\ i \in Nat /\ m \in Nat /\ m =< i
    BY <1>2, <1>3, <1>7, <1>8, <1>9, <1>11
  <2>2. first < k => i < m
    <3> HIDE DEF at, list, first, named
    <3> QED
      BY <1>1, <1>2, <1>3, <1>6, <1>10
  <2> QED
    BY <2>1, <2>2
<1> QED
  BY <1>1, <1>2, <1>3, <1>4, <1>9, <1>10, <1>12

\* ... and where it fails nothing is bound.
LEMMA VcapNone ==
  ASSUME arg.type \in Types, findCredentials = {} \/ ~Instance.object
  PROVE  Bound = {}
<1> DEFINE list   == Instances(arg.type)
           places == {i \in DOMAIN Root : /\ Root[i].dir /\ ~Root[i].dotted
                                          /\ Root[i].name \in DOMAIN Meant
                                          /\ Meant[Root[i].name][1].type = arg.type}
<1> SUFFICES ASSUME NEW i \in Bound PROVE FALSE
  OBVIOUS
<1>1. /\ DOMAIN list \subseteq Nat
      /\ \A k \in DOMAIN list : ~list[k].object => places = {}
      /\ \A p \in places : \E k \in DOMAIN list : Root[p].name = list[k].name
  BY VcapAssumption
<1>2. i \in places
  BY DEF Bound, Wanted
<1>3. PICK k \in DOMAIN list : Root[i].name = list[k].name
  BY <1>1, <1>2
<1>4. k \in findCredentials
  BY <1>3 DEF findCredentials, Bound, Wanted
<1>5. findCredentials \in SUBSET Nat /\ findCredentials \subseteq DOMAIN list
  BY <1>1 DEF findCredentials
<1>6. Min(findCredentials) \in findCredentials
  <2>1. \E n \in findCredentials : \A j \in findCredentials : n =< j
    BY <1>4, <1>5, LeastNumber
  <2> QED
    BY <2>1 DEF Min
<1> QED
  BY <1>1, <1>2, <1>4, <1>5, <1>6 DEF Instance

\* The call of the CF provider.
LEMMA CFBindingKeeps == Inv /\ CFBinding => Inv'
<1> SUFFICES ASSUME Inv, CFBinding PROVE Inv'
  OBVIOUS
<1>0. VolumeOK /\ ReaderOK /\ OutOK /\ TypedOK
  BY DEF Inv
<1>1. /\ provider = "cf" /\ pc = "start" /\ pc' = "done" /\ provider' = provider
      /\ UNCHANGED <<arg, todo, names, open, out, lastErr, current, live, present, quiet>>
      /\ \/ /\ result' \in {"not_found", "error"} /\ typed' = typed
            /\ findCredentials = {} \/ ~Instance.object
         \/ /\ result' = "found" /\ findCredentials # {} /\ Instance.object
            /\ typed' = Struct(Scalars(Instance.fields), arg.type)
  BY DEF CFBinding, Return, volume
<1>2. VolumeOK'
  BY <1>0, <1>1 DEF VolumeOK
<1>3. ReaderOK'
  BY <1>0, <1>1 DEF ReaderOK
<1>4. out' = EmptyMap /\ typed = NoStruct
  BY <1>0, <1>1 DEF TypedOK, ReaderOK
<1>5. OutOK'
  BY <1>1, <1>4 DEF OutOK, OneBinding
<1>6. TypedOK'
  <2>1. typed' # NoStruct => result' = "found" /\ DOMAIN typed' = DOMAIN KeysOf[arg'.type]
    BY <1>1, <1>4 DEF Struct
  <2> QED
    BY <1>0, <1>1, <1>4, <2>1 DEF TypedOK
<1>7. VcapOK'
  <2>1. Bound' = Bound /\ arg.type \in Types
    BY <1>0, <1>1 DEF Bound, Wanted, ReaderOK
  <2>2. CASE result' = "found"
    BY <1>1, <2>1, <2>2, VcapFirst DEF VcapOK
  <2>3. CASE result' # "found"
    BY <1>1, <1>4, <2>1, <2>3, VcapNone DEF VcapOK
  <2> QED
    BY <2>2, <2>3
<1> QED
  BY <1>1, <1>2, <1>3, <1>5, <1>6, <1>7 DEF Inv

\* A step of the Kyma provider's call, or of the kubelet.
LEMMA KymaStepKeeps == Inv /\ KymaStep => Inv'
<1> SUFFICES ASSUME Inv, KymaStep PROVE Inv'
  OBVIOUS
<1>1. provider = "kyma" /\ Next /\ provider' = provider /\ typed' = typed
  BY DEF KymaStep
<1>2. CallOK'
  BY <1>1, CallStep DEF Inv, CallOK
<1>3. VcapOK'
  BY <1>1 DEF VcapOK
<1>4. CASE typed = NoStruct
  <2>1. TypedOK'
    BY <1>1, <1>4 DEF TypedOK
  <2> QED
    BY <1>2, <1>3, <2>1 DEF Inv, CallOK
<1>5. CASE typed # NoStruct
  <2>1. pc = "done"
    BY <1>5 DEF Inv, TypedOK, ReaderOK
  <2>2. UNCHANGED vars
    BY <1>1, <2>1, DoneStays
  <2>3. TypedOK'
    BY <1>1, <2>2 DEF Inv, TypedOK, vars, reader
  <2> QED
    BY <1>2, <1>3, <2>3 DEF Inv, CallOK
<1> QED
  BY <1>4, <1>5

\* The map becomes the struct.
LEMMA ExtractKeeps == Inv /\ Extract => Inv'
<1> SUFFICES ASSUME Inv, Extract PROVE Inv'
  OBVIOUS
<1>1. /\ provider = "kyma" /\ provider' = provider /\ result = "found" /\ UNCHANGED vars
      /\ typed' = Struct(out, arg.type)
  BY DEF Extract
<1>2. VolumeOK' /\ ReaderOK' /\ OutOK' /\ QuietOK'
  BY <1>1, Stutters DEF Inv
<1>3. TypedOK'
  <2>1. UNCHANGED <<arg, result, out>> /\ DOMAIN typed' = DOMAIN KeysOf[arg.type]
    BY <1>1 DEF vars, reader, Struct
  <2> QED
    BY <1>1, <2>1 DEF TypedOK
<1>4. VcapOK'
  BY <1>1 DEF VcapOK
<1> QED
  BY <1>2, <1>3, <1>4 DEF Inv

\* Every step of the program and of the kubelet.
LEMMA InvStep == Inv /\ [BindingsNext]_bindingsVars => Inv'
<1> SUFFICES ASSUME Inv, [BindingsNext]_bindingsVars PROVE Inv'
  OBVIOUS
<1>1. CASE NewProvider \/ CFBinding \/ KymaStep \/ Extract
  BY <1>1, NewProviderKeeps, CFBindingKeeps, KymaStepKeeps, ExtractKeeps
<1>2. CASE UNCHANGED bindingsVars
  <2>1. UNCHANGED vars /\ UNCHANGED <<provider, typed>>
    BY <1>2 DEF bindingsVars
  <2>2. VolumeOK' /\ ReaderOK' /\ OutOK' /\ (QuietOK => QuietOK')
    BY <2>1, Stutters DEF Inv
  <2>3. TypedOK'
    BY <2>1 DEF Inv, TypedOK, vars, reader
  <2>4. VcapOK'
    BY <2>1 DEF Inv, VcapOK, Bound, Wanted, vars, reader
  <2> QED
    BY <2>1, <2>2, <2>3, <2>4 DEF Inv
<1> QED
  BY <1>1, <1>2 DEF BindingsNext, Ended

\* Every reachable state is as Inv says.
THEOREM Invariant == BindingsSpec => []Inv
<1>1. Inv /\ [BindingsNext]_bindingsVars => Inv'
  BY InvStep
<1> QED
  BY InvInit, <1>1, PTL DEF BindingsSpec

\* Types of all variables; only a binding that was found becomes a struct.
THEOREM TypeCorrect == BindingsSpec => []BindingsTypeOK
<1>1. Inv => BindingsTypeOK
  BY DEF Inv, VolumeOK, ReaderOK, TypedOK, BindingsTypeOK, TypeOK
<1> QED
  BY Invariant, <1>1, PTL

\* However the kubelet changes the volumes during a call, the map it returns is
\* of one binding.
THEOREM OneBindingHolds == BindingsSpec => []OneBinding
<1>1. Inv => OneBinding
  BY DEF Inv, OutOK
<1> QED
  BY Invariant, <1>1, PTL

\* The places that match are those of the directories that are there, that the
\* loop does not skip and that say the type.
LEMMA MatchingIs ==
  ASSUME Inv, provider = "kyma"
  PROVE  /\ Matching = {i \in Shown : Matches(i)}
         /\ \A i \in Matching : MeantNow(Root[i]).struct = Struct(Now(i), arg.type)
<1>0. VolumeOK /\ arg.type \in Types
  BY DEF Inv, ReaderOK
<1>1. ASSUME NEW i \in DOMAIN Root, Wanted(Root[i]), Root[i].name \in present
      PROVE  /\ Root[i].name \in DOMAIN Meant
             /\ MeantNow(Root[i]).type = arg.type <=> Matches(i)
             /\ Matches(i) => MeantNow(Root[i]).struct = Struct(Now(i), arg.type)
  <2> DEFINE d == Root[i].name
  <2>1. d \in Dirs /\ current[d] \in Versions(d)
    BY <1>0, <1>1 DEF VolumeOK
  <2>2. MeantNow(Root[i]) = Meant[d][current[d]]
    BY DEF MeantNow
  <2> QED
    BY <1>0, <2>1, <2>2, MeantAssumption DEF Matches, Now
<1>2. ASSUME NEW i \in DOMAIN Root
      PROVE  i \in Shown <=> Wanted(Root[i]) /\ Root[i].name \in present
  BY DEF Shown, Mounted, Wanted
<1>3. ASSUME NEW i
      PROVE  i \in Matching <=> i \in Shown /\ Matches(i)
  BY <1>1, <1>2 DEF Matching, Shown
<1> QED
  BY <1>1, <1>2, <1>3 DEF Matching

\* The two providers agree.  A call of the Kyma provider during which no volume
\* changes loses no file, lets the blob fill gaps only and passes over no
\* binding that matches; with it as with VCAP_SERVICES the extractor's struct is
\* the one meant by the first instance, and it fails if there is none.
THEOREM QuietReadExactHolds == BindingsSpec => []QuietReadExact
<1>1. Inv => QuietReadExact
  <2> SUFFICES ASSUME Inv PROVE QuietReadExact
    OBVIOUS
  <2>0. ReaderOK /\ (provider # "cf" => QuietOK) /\ TypedOK /\ VcapOK
    BY DEF Inv
  <2>1. CASE provider \notin {"cf", "kyma"}
    BY <2>0, <2>1 DEF QuietReadExact, TypedOK
  <2>2. CASE provider = "cf"
    <3>1. Matching = Bound /\ \A e : MeantNow(e) = Meant[e.name][1]
      BY <2>2 DEF Matching, Bound, MeantNow
    <3>2. ASSUME typed # NoStruct
          PROVE  Matching # {} /\ typed = MeantNow(Root[Min(Matching)]).struct
      <4>1. PICK i \in Bound : /\ \A j \in Bound : i =< j
                               /\ typed = Meant[Root[i].name][1].struct
        BY <2>0, <2>2, <3>2 DEF VcapOK
      <4>2. Bound \in SUBSET DOMAIN Root
        BY DEF Bound
      <4>3. Min(Bound) \in Bound /\ \A j \in Bound : Min(Bound) =< j
        BY <4>1, <4>2, FirstEntry
      <4>4. Min(Bound) = i
        <5>1. Min(Bound) \in Nat /\ i \in Nat
          BY <4>1, <4>2, <4>3, RootType
        <5> QED
          BY <4>1, <4>3, <5>1
      <4> QED
        BY <3>1, <4>1, <4>4
    <3> QED
      BY <2>0, <2>2, <3>1, <3>2 DEF QuietReadExact, VcapOK
  <2>3. CASE provider = "kyma"
    <3>1. /\ Matching = {i \in Shown : Matches(i)}
          /\ \A i \in Matching : MeantNow(Root[i]).struct = Struct(Now(i), arg.type)
      BY <2>3, MatchingIs
    <3>2. ASSUME typed # NoStruct, quiet
          PROVE  Matching # {} /\ typed = MeantNow(Root[Min(Matching)]).struct
      <4>1. result = "found" /\ typed = Struct(out, arg.type)
        BY <2>0, <2>3, <3>2 DEF TypedOK
      <4>2. PICK i \in Shown : /\ out = Now(i) /\ Matches(i)
                               /\ \A j \in Shown : j < i => ~Matches(j)
        BY <2>0, <2>3, <3>2, <4>1 DEF QuietOK
      <4>3. i \in Matching /\ \A j \in Matching : ~(j < i)
        BY <3>1, <4>2
      <4>4. Matching \subseteq DOMAIN Root
        BY DEF Matching
      <4>5. Min(Matching) = i
        <5>1. Min(Matching) \in Matching /\ \A j \in Matching : Min(Matching) =< j
          BY <4>3, <4>4, FirstEntry
        <5>2. Min(Matching) =< i /\ ~(Min(Matching) < i) /\ i \in Nat /\ Min(Matching) \in Nat
          BY <4>3, <4>4, <5>1, RootType
        <5> QED
          BY <5>2
      <4> QED
        BY <3>1, <4>1, <4>2, <4>3, <4>5
    <3>3. ASSUME pc = "done", quiet, result # "found", arg.root = "mounted"
          PROVE  Matching = {}
      <4>1. result = "not_found"
        BY <2>0, <2>3, <3>3 DEF ReaderOK, QuietOK
      <4>2. \A j \in Shown : ~Matches(j)
        BY <2>0, <2>3, <3>3, <4>1 DEF QuietOK
      <4> QED
        BY <3>1, <4>2
    <3> QED
      BY <3>2, <3>3 DEF QuietReadExact
  <2> QED
    BY <2>1, <2>2, <2>3
<1> QED
  BY Invariant, <1>1, PTL
=============================================================================
