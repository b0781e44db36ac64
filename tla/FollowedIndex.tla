--------------------------- MODULE FollowedIndex ---------------------------
(***************************************************************************)
(* What a workspace index promises, whatever its threads do: it is made of *)
(* readings of the files, each taken at one moment, and an update replaces *)
(* what it shows of some files by readings that are not older.  A file of  *)
(* the update that could not be used is listed as rejected.                *)
(***************************************************************************)
EXTENDS Naturals

CONSTANTS
  Path,
  Content,   \* what a file can contain,
  Readable,  \* and what of it can be indexed
  Reread,    \* the files an update may read although it found them absent
  Gone       \* the content of an absent file

VARIABLES
  disk,      \* disk[p] = [content, ver]: the file and the number of its last edit
  readings,  \* [path, content, ver]: what an update under way has seen
  shown,     \* shown[p] = [content, ver]: what the index says of p
  listed     \* the files listed as rejected

vars == <<disk, readings, shown, listed>>

Init ==
  /\ \A p \in Path : disk[p].content \in Readable \cup {Gone} /\ disk[p].ver = 0
  /\ readings = {}
  /\ shown = [p \in Path |-> [content |-> Gone, ver |-> 0]]
  /\ listed = {}

Edit(p) ==
  /\ disk' = [disk EXCEPT ![p] = disk'[p]]
  /\ disk'[p].content \in Content \cup {Gone}
  /\ \A q \in Path : disk'[p].ver > disk[q].ver
  /\ UNCHANGED <<readings, shown, listed>>

(* An absence is seen like a content, and bears no version.                 *)
Now(p) == [path |-> p, content |-> disk[p].content, ver |-> IF disk[p].content = Gone THEN 0 ELSE disk[p].ver]

(* An update looks at some files, and forgets what it saw before of others. *)
Look ==
  /\ readings' \subseteq readings \cup {Now(p) : p \in Path}
  /\ UNCHANGED <<disk, shown, listed>>

Kept(p) == shown'[p] = shown[p] /\ (p \in listed' <=> p \in listed)
(* What is shown of p becomes, or already is, what was read of it.          *)
Taken(p, r) ==
  /\ r.content \in Readable /\ r.ver >= shown[p].ver
  /\ \/ shown'[p] = [content |-> r.content, ver |-> r.ver]
     \/ shown'[p] = shown[p] /\ shown[p].content = r.content
  /\ p \notin listed'
(* A file that is removed, and then cannot be read, is also listed.         *)
Removed(p, r) ==
  /\ r.content = Gone
  /\ shown'[p] = [content |-> Gone, ver |-> shown[p].ver]
  /\ p \in listed' => p \in Reread
Rejected(p) == shown'[p] = shown[p] /\ p \in listed'

Install ==
  /\ \A p \in Path :
       \/ Kept(p)
       \/ \E r \in readings : r.path = p /\ (Taken(p, r) \/ Removed(p, r) \/ Rejected(p))
  /\ DOMAIN shown' = Path /\ listed' \subseteq Path
  /\ readings' \subseteq readings
  /\ UNCHANGED disk

Next == (\E p \in Path : Edit(p)) \/ Look \/ Install
Spec == Init /\ [][Next]_vars
=============================================================================
