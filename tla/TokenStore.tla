----------------------------- MODULE TokenStore -----------------------------
(***************************************************************************)
(* The encrypted file that keeps the tokens and the registered clients of  *)
(* all upstreams (storage/encrypted_file.rs): a map in one file, and a     *)
(* copy of it in memory that is read once.                                 *)
(*                                                                         *)
(* A call that stores or deletes copies the map, changes the copy, has the *)
(* file written by a blocking task and puts the copy in the place of the   *)
(* map in memory.  No lock spans these steps.  The task is not stopped     *)
(* when its caller is dropped.  A call that stores stands for the value it *)
(* stores.  Operators named after another with a mistake added serve to    *)
(* show that the properties notice it.                                     *)
(***************************************************************************)
CONSTANTS
  Call,     \* the calls of get, set and delete, by any upstream
  Key,      \* the entries: refresh tokens and clients of the upstreams
  None,     \* no value
  Unread,   \* the map in memory before the file has been read
  Torn,     \* a file that is too short to be one: it counts as empty
  Garbage,  \* a file that cannot be decrypted
  Serial    \* does a call begin only when those before it are over?

ASSUME TokenStoreAssumption ==
  /\ None \notin Call
  /\ Unread \notin [Key -> Call \cup {None}]
  /\ {Torn, Garbage} \cap [Key -> Call \cup {None}] = {}
  /\ Torn # Garbage
  /\ Serial \in BOOLEAN

VARIABLES
  pc,     \* pc[c]: where call c is
  does,   \* does[c]: get, set or delete
  key,    \* key[c]: the entry it is about
  copy,   \* copy[c]: the map it wants to save
  task,   \* task[c]: how far the writing of its file is
  cache,  \* the map in memory
  file    \* the map in the file

callVars == <<does, key>>
vars == <<pc, callVars, copy, task, cache, file>>

Map == [Key -> Call \cup {None}]
Nothing == [k \in Key |-> None]

Init ==
  /\ pc = [c \in Call |-> "idle"]
  /\ does = [c \in Call |-> "get"]
  /\ key \in [Call -> Key]
  /\ copy = [c \in Call |-> Nothing]
  /\ task = [c \in Call |-> "none"]
  /\ cache = Unread
  /\ file = Nothing

UnderWay(c) == pc[c] \in {"load", "write"} \/ task[c] \in {"open", "put"}

(* What a get would return now, key by key. *)
Held == IF file \in {Torn, Garbage} THEN Nothing ELSE file
Seen == IF cache = Unread THEN Held ELSE cache
-----------------------------------------------------------------------------
Begin(c, what) ==
  /\ pc[c] = "idle"
  /\ Serial => ~\E d \in Call : UnderWay(d)
  /\ pc' = [pc EXCEPT ![c] = "load"]
  /\ does' = [does EXCEPT ![c] = what]
  /\ UNCHANGED <<key, copy, task, cache, file>>

ChangedAlone(c) == [Nothing EXCEPT ![key[c]] = IF does[c] = "set" THEN c ELSE None]
Changed(c) == [Seen EXCEPT ![key[c]] = IF does[c] = "set" THEN c ELSE None]

NotKept == cache
Kept == Seen

(* The first call reads the file; it has the lock on the cache, and nobody *)
(* writes the file before it is read.  From there to the start of the      *)
(* writing task a call does not pause.                                     *)
Load(c) ==
  /\ pc[c] = "load"
  /\ cache = Unread => file # Garbage
  /\ cache' = Kept
  /\ \/ /\ does[c] = "get"
        /\ pc' = [pc EXCEPT ![c] = "done"]
        /\ UNCHANGED <<copy, task>>
     \/ /\ does[c] # "get"
        /\ copy' = [copy EXCEPT ![c] = Changed(c)]
        /\ pc' = [pc EXCEPT ![c] = "write"]
        /\ task' = [task EXCEPT ![c] = "open"]
  /\ UNCHANGED <<callVars, file>>

LoadFails(c) ==
  /\ pc[c] = "load" /\ cache = Unread
  /\ pc' = [pc EXCEPT ![c] = "failed"]
  /\ UNCHANGED <<callVars, copy, task, cache, file>>

(* Opening the file empties it. *)
Open(c) ==
  /\ task[c] = "open"
  /\ file' = Torn
  /\ task' = [task EXCEPT ![c] = "put"]
  /\ UNCHANGED <<pc, callVars, copy, cache>>

(* A task that has emptied the file before another filled it writes over   *)
(* what that one wrote, and leaves its end when it has less to write.      *)
Put(c) ==
  /\ task[c] = "put"
  /\ file' \in {copy[c]} \cup
       (IF file \in {Torn, copy[c]} THEN {} ELSE {Garbage})
  /\ task' = [task EXCEPT ![c] = "over"]
  /\ UNCHANGED <<pc, callVars, copy, cache>>

WriteFails(c) ==
  /\ \/ task[c] = "open" /\ file' = file
     \/ task[c] = "put" /\ file' \in {file, Garbage}
  /\ task' = [task EXCEPT ![c] = "failed"]
  /\ UNCHANGED <<pc, callVars, copy, cache>>

NotSaved(c) == cache
Saved(c) == copy[c]

Save(c) ==
  /\ pc[c] = "write" /\ task[c] = "over"
  /\ cache' = Saved(c)
  /\ pc' = [pc EXCEPT ![c] = "done"]
  /\ UNCHANGED <<callVars, copy, task, file>>

SaveFails(c) ==
  /\ pc[c] = "write" /\ task[c] = "failed"
  /\ pc' = [pc EXCEPT ![c] = "failed"]
  /\ UNCHANGED <<callVars, copy, task, cache, file>>

(* The request behind a call is gone, and its handler is dropped. *)
Leave(c) ==
  /\ pc[c] \in {"load", "write"}
  /\ pc' = [pc EXCEPT ![c] = "left"]
  /\ UNCHANGED <<callVars, copy, task, cache, file>>

(* The proxy stops or crashes, and starts again. *)
Restart ==
  /\ cache' = Unread
  /\ file' \in {file} \cup
       (IF \E c \in Call : task[c] = "put" THEN {Garbage} ELSE {})
  /\ pc' = [c \in Call |-> IF pc[c] = "idle" THEN "idle" ELSE "done"]
  /\ task' = [c \in Call |-> "none"]
  /\ UNCHANGED <<callVars, copy>>

Finished ==
  /\ \A c \in Call : pc[c] # "idle" /\ ~UnderWay(c)
  /\ UNCHANGED vars

Next ==
  \/ \E c \in Call :
       \/ \E what \in {"get", "set", "delete"} : Begin(c, what)
       \/ Load(c) \/ LoadFails(c)
       \/ Open(c) \/ Put(c) \/ WriteFails(c)
       \/ Save(c) \/ SaveFails(c) \/ Leave(c)
  \/ Restart
  \/ Finished

Spec == Init /\ [][Next]_vars
-----------------------------------------------------------------------------
(* Properties. *)

(* Every variable keeps its type; only a call that waits for its file has  *)
(* a map to write, and nobody writes before the file has been read.        *)
TypeOK ==
  /\ pc \in [Call -> {"idle", "load", "write", "left", "failed", "done"}]
  /\ does \in [Call -> {"get", "set", "delete"}]
  /\ key \in [Call -> Key]
  /\ copy \in [Call -> Map]
  /\ task \in [Call -> {"none", "open", "put", "over", "failed"}]
  /\ cache \in Map \cup {Unread}
  /\ file \in Map \cup {Torn, Garbage}
  /\ \A c \in Call : pc[c] \in {"idle", "load"} => task[c] = "none"
  /\ \A c \in Call : pc[c] = "write" => task[c] # "none"
  /\ cache = Unread => \A c \in Call : task[c] = "none"

(* "Trait for persisting OAuth tokens and DCR client credentials": what is *)
(* stored stays until a call about the same entry saves its copy.  Only a  *)
(* restart may change more: if it finds a file whose writing was cut short *)
(* or went wrong, and for the entry of a call whose caller never heard.    *)
Persists ==
  [][\A k \in Key : Seen'[k] # Seen[k] =>
       \/ \E c \in Call : key[c] = k /\ pc[c] = "write" /\ task[c] = "over"
       \/ /\ cache' = Unread
          /\ \/ file' \in {Torn, Garbage}
             \/ \E c \in Call : key[c] = k /\ pc[c] = "left"]_vars

(* "In-memory cache to avoid re-reading file on every access": between the *)
(* calls the file holds what the process works with, but for the map of a  *)
(* call whose caller left or a write that failed.                          *)
CacheIsFile ==
  cache # Unread /\ (\A c \in Call : ~UnderWay(c)) =>
    \/ Held = cache
    \/ \E c \in Call : pc[c] = "left" /\ file = copy[c]
    \/ file \in {Torn, Garbage} /\ \E c \in Call : task[c] = "failed"
=============================================================================
