------------------------------ MODULE CxlImage ------------------------------
(***************************************************************************)
(* The file system image in CXL memory (user/system-servers/tmpfs/cxlfs.c) *)
(* as a value: directory entries, the inode table and the inode bitmap,    *)
(* and the updates of it, each flushed before the next one is made.        *)
(*                                                                         *)
(* There is one directory.  A file is a sequence of blocks: cxlfs_write    *)
(* fills fresh blocks and then stores the inode that points to them, so a  *)
(* write, of a file or of a directory entry, is one update.  The           *)
(* superblock, whose only changing field is its generation, and the block  *)
(* bitmap are left out.                                                    *)
(***************************************************************************)
EXTENDS Naturals, SequencesExt

CONSTANTS
  Names,      \* the names in the directory
  NumInodes,  \* CXLFS_NINODES
  MaxBlocks,  \* bound: on the blocks of a file
  Values      \* what a block may hold; 0 is a hole

Inodes == 1 .. NumInodes
NoInode == 0
File(data) == [kind |-> "file", data |-> data]
Dir == [kind |-> "dir", data |-> <<>>]
Nothing == [kind |-> "none", data |-> <<>>]
Contents == UNION {[1 .. n -> Values \cup {0}] : n \in 0 .. MaxBlocks}
Nodes == {File(data) : data \in Contents} \cup {Dir, Nothing}

Images == [dirent : [Names -> Inodes \cup {NoInode}], inode : [Inodes -> Nodes],
           used : SUBSET Inodes]

\* What restore_dir and tfs_attach_disk_node make of an entry: one whose inode is not
\* in the bitmap is skipped, and an inode that is no directory is a regular file.
Lookup(image, n) ==
  IF image.dirent[n] \notin image.used THEN Nothing
  ELSE LET node == image.inode[image.dirent[n]]
       IN IF node.kind = "dir" THEN node ELSE File(node.data)
Tree(image) == [n \in Names |-> Lookup(image, n)]

\* Block b becomes v (cxlfs_write); the size becomes n (cxlfs_truncate).
Overwrite(data, b, v) ==
  [i \in 1 .. Max({Len(data), b}) |->
     IF i = b THEN v ELSE IF i <= Len(data) THEN data[i] ELSE 0]
Resize(data, n) == [i \in 1 .. n |-> IF i <= Len(data) THEN data[i] ELSE 0]

\* alloc_inode
FreeInode(image) == Min(Inodes \ image.used)

\* The durable updates: an inode is allocated and initialised, an entry written or
\* cleared, an inode stored or wiped, its bit cleared.
Alloc(i, node) == [do |-> "alloc", ino |-> i, node |-> node]
Link(n, i) == [do |-> "link", name |-> n, ino |-> i]
Store(i, node) == [do |-> "store", ino |-> i, node |-> node]
Release(i) == [do |-> "release", ino |-> i]

Update(image, u) ==
  CASE u.do = "alloc" -> [image EXCEPT !.used = @ \cup {u.ino}, !.inode[u.ino] = u.node]
    [] u.do = "link" -> [image EXCEPT !.dirent[u.name] = u.ino]
    [] u.do = "store" -> [image EXCEPT !.inode[u.ino] = u.node]
    [] u.do = "release" -> [image EXCEPT !.used = @ \ {u.ino}]

\* The image once all of us are durable.
After(image, us) == FoldLeft(Update, image, us)

\* destroy_disk_inode: the inode is wiped, then its bit is cleared.
Destroy(i) == <<Store(i, Nothing), Release(i)>>

\* cxlfs_create_node; -EEXIST and -ENOSPC leave the image alone.
CreateNode(image, n, node) ==
  IF image.dirent[n] # NoInode \/ image.used = Inodes THEN <<>>
  ELSE LET i == FreeInode(image) IN <<Alloc(i, node), Link(n, i)>>

\* Mutant: the inode is recycled before it is unreachable.
UnlinkNodeLate(image, n) == Destroy(image.dirent[n]) \o <<Link(n, NoInode)>>

\* cxlfs_unlink_node
UnlinkNode(image, n) == <<Link(n, NoInode)>> \o Destroy(image.dirent[n])

\* cxlfs_rename_node
RenameNode(image, from, to) ==
  LET i == image.dirent[from]
      replaced == image.dirent[to]
  IN <<Link(to, i), Link(from, NoInode)>>
       \o (IF replaced \in {NoInode, i} THEN <<>> ELSE Destroy(replaced))

\* cxlfs_write
WriteNode(image, n, b, v) ==
  LET i == image.dirent[n]
  IN <<Store(i, File(Overwrite(image.inode[i].data, b, v)))>>

\* cxlfs_truncate: a shorter file loses its blocks before its size is stored.
TruncateNode(image, n, size) ==
  LET i == image.dirent[n]
      data == image.inode[i].data
      holes == [j \in DOMAIN data |-> IF j > size THEN 0 ELSE data[j]]
  IN (IF size < Len(data) THEN <<Store(i, File(holes))>> ELSE <<>>)
       \o <<Store(i, File(Resize(data, size)))>>
=============================================================================
