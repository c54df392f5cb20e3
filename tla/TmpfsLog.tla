------------------------------ MODULE TmpfsLog ------------------------------
(***************************************************************************)
(* The persistent log of tmpfs (user/system-servers/tmpfs/plog.c), the     *)
(* operations of the file system that write it (tmpfs_ops.c, and           *)
(* fs_wrapper_rename of fs_base) and the recovery that another machine     *)
(* runs (recover_tmpfs in tmpfs.c).                                        *)
(*                                                                         *)
(* The server handles one mutating request at a time: every request but a  *)
(* read or a write holds fs_wrapper_meta_rwlock for writing, and a write   *)
(* holds tmpfs_persistent_write_lock.  An operation appends its entry,     *)
(* makes it part of the log by storing the tail, and then updates the      *)
(* image.  The machine may crash between any two durable stores; what it   *)
(* keeps in its own memory is gone, and recovery replays the entries after *)
(* the checkpoint on the image as the crash left it, which holds the       *)
(* effects of those entries already, the last one's perhaps in part.       *)
(***************************************************************************)
EXTENDS CxlImage

CONSTANTS
  Loaded,      \* the files of the ramdisk: names and contents
  LogSize,     \* PLOG_SHM_SIZE, in entries
  Careful,     \* TRUE: clients fsync as Settled asks them to
  MaxRequests, \* bound: on the requests of all clients
  MaxCrashes   \* bound: on crashes

VARIABLES
  image,     \* the image in CXL memory
  log,       \* the entries of the log region
  tail,      \* plog_header.tail
  ckpt,      \* plog_header.checkpoint_tail
  pc,        \* what the server does
  ops,       \* the operations the request at hand still has to do
  todo,      \* the updates of the image the current operation still has to make
  pos,       \* pos in plog_replay
  tree,      \* history: the effects of the entries the log ever held, in order
  requests,  \* history: requests so far
  crashes    \* history: crashes so far

vars == <<image, log, tail, ckpt, pc, ops, todo, pos, tree, requests, crashes>>

Creat(n) == [op |-> "creat", path |-> n]
Mkdir(n) == [op |-> "mkdir", path |-> n]
Write(n, b, v) == [op |-> "write", path |-> n, block |-> b, value |-> v]
Unlink(n, kind) == [op |-> IF kind = "dir" THEN "rmdir" ELSE "unlink", path |-> n]
Rename(n, m) == [op |-> "rename", path |-> n, new_path |-> m]
Truncate(n, size) == [op |-> "truncate", path |-> n, size |-> size]

Blocks == 1 .. MaxBlocks
Entries ==
  {Creat(n) : n \in Names} \cup {Mkdir(n) : n \in Names}
    \cup {Write(n, b, v) : n \in Names, b \in Blocks, v \in Values}
    \cup {Unlink(n, kind) : n \in Names, kind \in {"file", "dir"}}
    \cup {Rename(n, m) : n \in Names, m \in Names}
    \cup {Truncate(n, size) : n \in Names, size \in 0 .. MaxBlocks}
NoEntry == [op |-> "invalid"]

\* What an operation promises to do to a tree.
Effect(t, e) ==
  LET n == e.path IN
  CASE e.op = "creat" -> [t EXCEPT ![n] = File(<<>>)]
    [] e.op = "mkdir" -> [t EXCEPT ![n] = Dir]
    [] e.op = "write" -> [t EXCEPT ![n].data = Overwrite(@, e.block, e.value)]
    [] e.op = "truncate" -> [t EXCEPT ![n].data = Resize(@, e.size)]
    [] e.op \in {"unlink", "rmdir"} -> [t EXCEPT ![n] = Nothing]
    [] e.op = "rename" -> [t EXCEPT ![e.new_path] = t[n], ![n] = Nothing]

KindOf(n) == Lookup(image, n).kind

\* The updates by which an operation that is logged, or replayed, changes the image.
Creation(e) == CreateNode(image, e.path, IF e.op = "mkdir" THEN Dir ELSE File(<<>>))
Writing(e) ==
  LET made == IF KindOf(e.path) = "none" THEN CreateNode(image, e.path, File(<<>>)) ELSE <<>>
      there == After(image, made)
  IN IF there.dirent[e.path] = NoInode THEN <<>>
     ELSE made \o WriteNode(there, e.path, e.block, e.value)
Removal(e) ==
  IF KindOf(e.path) = (IF e.op = "rmdir" THEN "dir" ELSE "file")
    THEN UnlinkNode(image, e.path) ELSE <<>>
Renaming(e) ==
  IF \/ KindOf(e.path) = "none"
     \/ KindOf(e.new_path) = "dir"
     \/ KindOf(e.new_path) = "file" /\ KindOf(e.path) = "dir"
    THEN <<>> ELSE RenameNode(image, e.path, e.new_path)
Truncation(e) ==
  IF KindOf(e.path) = "none" THEN <<>> ELSE TruncateNode(image, e.path, e.size)

Updates(e) ==
  CASE e.op \in {"creat", "mkdir"} -> Creation(e)
    [] e.op = "write" -> Writing(e)
    [] e.op \in {"unlink", "rmdir"} -> Removal(e)
    [] e.op = "rename" -> Renaming(e)
    [] e.op = "truncate" -> Truncation(e)

-----------------------------------------------------------------------------
\* main, on a fresh image: the files of the ramdisk are in it and the log is empty.
Init ==
  /\ LET where == CHOOSE f \in Bijection(DOMAIN Loaded, 1 .. Cardinality(DOMAIN Loaded)) : TRUE
     IN image = [dirent |-> where @@ [n \in Names |-> NoInode],
                 inode |-> [i \in Range(where) |-> File(Loaded[AntiFunction(where)[i]])]
                            @@ [i \in Inodes |-> Nothing],
                 used |-> Range(where)]
  /\ tree = Tree(image)
  /\ log = [i \in 1 .. LogSize |-> NoEntry]
  /\ tail = 1 /\ ckpt = 1 /\ pos = 1
  /\ pc = "idle" /\ ops = <<>> /\ todo = <<>>
  /\ requests = 0 /\ crashes = 0

\* Entries that a recovery would replay.
Pending == {log[i] : i \in ckpt .. tail - 1}
About(n) == {e \in Pending : e.path = n \/ (e.op = "rename" /\ e.new_path = n)}

\* The discipline of a careful client.  It renames files only, after an fsync of what was
\* done to either name; it creates again a name it renamed away, and makes a directory of
\* the name of a file it removed, after an fsync.
Settled(e) ==
  CASE e.op = "rename" -> KindOf(e.path) = "file" /\ About(e.path) = {} /\ About(e.new_path) = {}
    [] e.op = "mkdir" -> \A p \in About(e.path) : p.op \in {"mkdir", "rmdir"}
    [] e.op = "creat" -> \A p \in About(e.path) : p.op = "rename" => p.path # e.path
    [] OTHER -> TRUE

Request(es) ==
  /\ pc = "idle"
  /\ requests < MaxRequests
  /\ Careful => Settled(Last(es))
  /\ requests' = requests + 1
  /\ ops' = es
  /\ pc' = "append"
  /\ UNCHANGED <<image, log, tail, ckpt, todo, pos, tree, crashes>>

\* tmpfs_open with O_CREAT (__fs_openat_callback); no client sends FS_REQ_CREAT.
RequestCreat == \E n \in Names : KindOf(n) = "none" /\ Request(<<Creat(n)>>)

\* tmpfs_mkdir
RequestMkdir == \E n \in Names : KindOf(n) = "none" /\ Request(<<Mkdir(n)>>)

\* tmpfs_write
RequestWrite ==
  \E n \in Names, b \in Blocks, v \in Values :
    KindOf(n) = "file" /\ Request(<<Write(n, b, v)>>)

\* tmpfs_ftruncate
RequestTruncate ==
  \E n \in Names, size \in 0 .. MaxBlocks :
    KindOf(n) = "file" /\ Request(<<Truncate(n, size)>>)

\* tmpfs_unlink and tmpfs_rmdir
RequestUnlink ==
  \E n \in Names : KindOf(n) # "none" /\ Request(<<Unlink(n, KindOf(n))>>)

\* fs_wrapper_rename: what the new name names is removed first.
RequestRename ==
  \E n, m \in Names :
    /\ KindOf(n) # "none"
    /\ KindOf(m) \in {"none", KindOf(n)}
    /\ Request((IF KindOf(m) = "none" THEN <<>> ELSE <<Unlink(m, KindOf(m))>>)
                 \o <<Rename(n, m)>>)

\* tmpfs_fsync: the log keeps its entries.
Fsync ==
  /\ pc = "idle"
  /\ ckpt # tail
  /\ ckpt' = tail
  /\ UNCHANGED <<image, log, tail, pc, ops, todo, pos, tree, requests, crashes>>

\* tmpfs_rename of a name that is gone: it was both names of the request.
Gone == Head(ops).op = "rename" /\ KindOf(Head(ops).path) = "none"
Refuse ==
  /\ pc = "append" /\ Gone
  /\ ops' = <<>> /\ pc' = "idle"
  /\ UNCHANGED <<image, log, tail, ckpt, todo, pos, tree, requests, crashes>>

\* plog_append_raw, with the entry's fields filled in by its caller.
\* Mutant: an entry past the end of the region.
FullLate == tail > LogSize + 1
Full == tail > LogSize
AppendRaw ==
  /\ pc = "append" /\ ~Gone
  /\ ~Full
  /\ log' = [log EXCEPT ![tail] = Head(ops)]
  /\ pc' = "commit"
  /\ UNCHANGED <<image, tail, ckpt, ops, todo, pos, tree, requests, crashes>>

\* plog_append_raw when the log is full: plog_checkpoint, then plog_truncate, whose two
\* stores may reach memory apart.
Checkpoint ==
  /\ pc = "append" /\ ~Gone
  /\ Full
  /\ ckpt' = tail
  /\ pc' = "truncate"
  /\ UNCHANGED <<image, log, tail, ops, todo, pos, tree, requests, crashes>>
\* Mutant: plog_truncate resets the checkpoint only.
TruncateKeepsTail ==
  /\ pc = "truncate"
  /\ pc' = "truncated"
  /\ UNCHANGED <<image, log, tail, ckpt, ops, todo, pos, tree, requests, crashes>>
TruncateTail ==
  /\ pc = "truncate"
  /\ tail' = 1
  /\ pc' = "truncated"
  /\ UNCHANGED <<image, log, ckpt, ops, todo, pos, tree, requests, crashes>>
TruncateCheckpoint ==
  /\ pc = "truncated"
  /\ ckpt' = 1
  /\ pc' = "append"
  /\ UNCHANGED <<image, log, tail, ops, todo, pos, tree, requests, crashes>>

\* plog_commit; the operation then goes on to update the image.
Commit ==
  /\ pc = "commit"
  /\ tail' = tail + 1
  /\ tree' = Effect(tree, Head(ops))
  /\ todo' = Updates(Head(ops))
  /\ pc' = "apply"
  /\ UNCHANGED <<image, log, ckpt, ops, pos, requests, crashes>>

\* One durable update of the image, by an operation or by its replay.
Persist ==
  /\ todo # <<>>
  /\ image' = Update(image, Head(todo))
  /\ todo' = Tail(todo)
  /\ UNCHANGED <<log, tail, ckpt, pc, ops, pos, tree, requests, crashes>>

Return ==
  /\ pc = "apply" /\ todo = <<>>
  /\ ops' = Tail(ops)
  /\ pc' = IF Len(ops) = 1 THEN "idle" ELSE "append"
  /\ UNCHANGED <<image, log, tail, ckpt, todo, pos, tree, requests, crashes>>

-----------------------------------------------------------------------------
\* The machine that serves, or recovers, the file system fails.
Crash ==
  /\ pc # "down"
  /\ crashes < MaxCrashes
  /\ crashes' = crashes + 1
  /\ pc' = "down" /\ ops' = <<>> /\ todo' = <<>> /\ pos' = 1
  /\ UNCHANGED <<image, log, tail, ckpt, tree, requests>>

\* recover_tmpfs up to plog_replay, and its checks of the header: replay is given up, and
\* recovery goes on, when the checkpoint is past the tail.
Recover ==
  /\ pc = "down"
  /\ pc' = IF ckpt > tail THEN "replayed" ELSE "replay"
  /\ pos' = ckpt
  /\ UNCHANGED <<image, log, tail, ckpt, ops, todo, tree, requests, crashes>>

\* next_entry_renames_to
NextEntryRenamesTo(n) ==
  pos + 1 < tail /\ log[pos + 1].op = "rename" /\ log[pos + 1].new_path = n

\* Mutant: the unlink before a rename is replayed like any other.
SkippedNever(e) == FALSE
\* The entry is not replayed: it is the unlink that fs_wrapper_rename made.
Skipped(e) == e.op \in {"unlink", "rmdir"} /\ NextEntryRenamesTo(e.path)

\* BUG_ON in tfs_file_write and the assertion in tfs_truncate.
Fatal(e) == e.op \in {"write", "truncate"} /\ KindOf(e.path) = "dir"

\* One turn of the loop in plog_replay.
Replay ==
  /\ pc = "replay" /\ todo = <<>> /\ pos < tail
  /\ LET e == log[pos] IN
       /\ pc' = IF Fatal(e) THEN "dead" ELSE pc
       /\ todo' = IF Fatal(e) \/ Skipped(e) THEN <<>> ELSE Updates(e)
  /\ pos' = pos + 1
  /\ UNCHANGED <<image, log, tail, ckpt, ops, tree, requests, crashes>>
EndReplay ==
  /\ pc = "replay" /\ todo = <<>> /\ pos >= tail
  /\ pc' = "replayed"
  /\ UNCHANGED <<image, log, tail, ckpt, ops, todo, pos, tree, requests, crashes>>

\* The rest of recover_tmpfs: the new server starts an empty log of its own, and
\* replace_root_mount makes it the one to recover from.
TakeOver ==
  /\ pc = "replayed"
  /\ log' = [i \in 1 .. LogSize |-> NoEntry]
  /\ tail' = 1 /\ ckpt' = 1 /\ pos' = 1
  /\ pc' = "idle"
  /\ UNCHANGED <<image, ops, todo, tree, requests, crashes>>

Requests ==
  \/ RequestCreat \/ RequestMkdir \/ RequestWrite
  \/ RequestTruncate \/ RequestUnlink \/ RequestRename \/ Fsync
Serve ==
  \/ Refuse \/ AppendRaw \/ Checkpoint \/ TruncateTail \/ TruncateCheckpoint
  \/ Commit \/ Persist \/ Return
Recovery == Recover \/ Replay \/ EndReplay \/ TakeOver

Next == Requests \/ Serve \/ Recovery \/ Crash

Spec == Init /\ [][Next]_vars

\* A request that was taken, and a recovery that was started, run to their end.
FairSpec == Spec /\ WF_vars(Serve) /\ WF_vars(Replay \/ EndReplay \/ TakeOver)

-----------------------------------------------------------------------------
TypeOK ==
  /\ image \in Images
  /\ log \in [1 .. LogSize -> Entries \cup {NoEntry}]
  /\ {tail, ckpt, pos} \subseteq 1 .. LogSize + 1
  /\ pc \in {"idle", "append", "truncate", "truncated", "commit", "apply",
            "down", "replay", "replayed", "dead"}
  /\ ops \in BoundedSeq(Entries, 2)
  /\ tree \in [Names -> Nodes]
  /\ requests \in 0 .. MaxRequests /\ crashes \in 0 .. MaxCrashes

\* Between requests, after a recovery as in normal service, the image holds the effects of
\* every entry that was committed to the log and of nothing else: an operation whose entry
\* a crash caught in the image half done is completed by plog_replay, and replaying what
\* the image holds already changes nothing, the pre-unlink of a rename included.
Restores == pc # "dead" /\ (pc = "idle" => Tree(image) = tree)

\* Between requests every directory entry names an allocated inode, no two entries name
\* one inode and no named inode is blank, however often creation, cxlfs_unlink_node,
\* cxlfs_rename_node and their replay were interrupted.  (Inodes may leak.)
ImageSound ==
  pc = "idle" =>
    \A n \in Names : image.dirent[n] # NoInode =>
      /\ image.dirent[n] \in image.used
      /\ image.inode[image.dirent[n]] # Nothing
      /\ \A m \in Names \ {n} : image.dirent[m] # image.dirent[n]

\* A request and a recovery end, unless the machine crashes: neither the log-full path of
\* plog_append_raw nor the loop of plog_replay goes round forever.
Finishes == pc \notin {"idle", "down"} ~> pc \in {"idle", "down"}
=============================================================================
