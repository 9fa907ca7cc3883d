------------------------------- MODULE Driver -------------------------------
(***************************************************************************)
(* The kernel module of driver/: loading it, mounting a partition that     *)
(* DiskTool has left behind, listing its root directory, statfs, and       *)
(* unmounting.  gfs_fill_super() takes one step for each thing that can    *)
(* fail.  The tool is never run on a mounted partition                     *)
(* (doc-Implementation.tex:53); what the kernel does around the module's   *)
(* functions is marked as external.                                        *)
(***************************************************************************)
EXTENDS DiskTool

CONSTANTS
    UINT_VALUES,    \* values of an unsigned int (2^32)
    MaxCaches       \* bound on slab caches, of which failed loads leave some

ASSUME DriverAssumption == /\ UINT_VALUES \in Nat
                           /\ MAP_BITS <= UINT_VALUES /\ block_count < UINT_VALUES
                           /\ MaxCaches \in Nat

VARIABLES
    loaded,         \* the module is in the kernel
    icaches,        \* slab caches created and not destroyed
    mount_pc,       \* what gfs_fill_super() is about to do, or how it ended
    rc,             \* what it returns; negative is an error
    module_refs,    \* taken by try_module_get()
    super_sup,      \* its kmalloc()ed structure is there
    pinned,         \* blocks whose buffers are held
    s_root,         \* the root directory's inode and dentry are there
    ctx_pos,        \* number of the entry gfs_readdir() is at; 0 is i_size
    listing,        \* the inodes of the entries it has emitted since opendir()
    stopped         \* what made its last call emit nothing: "position", "page" or "no"

sb_state   == <<rc, module_refs, super_sup, pinned, s_root>>
dir_state  == <<ctx_pos, listing, stopped>>
driverVars == <<loaded, icaches, mount_pc, sb_state, dir_state>>
allVars    == <<toolVars, driverVars>>

EIO == -5

DriverInit == /\ ToolInit
              /\ loaded = FALSE /\ icaches = 0
              /\ mount_pc = "unmounted" /\ rc = 0
              /\ module_refs = 0 /\ super_sup = FALSE /\ pinned = {} /\ s_root = FALSE
              /\ ctx_pos = 0 /\ listing = << >> /\ stopped = "no"

MountAt(here) == mount_pc = here

\* The disk tool, on a partition that is not mounted.
ToolStep == /\ MountAt("unmounted")
            /\ ToolNext
            /\ UNCHANGED driverVars
-----------------------------------------------------------------------------
(***************************************************************************)
(* Loading and unloading.  A load whose registration fails leaves its slab *)
(* cache behind.                                                           *)
(***************************************************************************)
init_module(registered) ==
    /\ ~ loaded /\ MountAt("unmounted")
    /\ icaches < MaxCaches /\ icaches' = icaches + 1
    /\ loaded' = registered
    /\ UNCHANGED <<toolVars, mount_pc, sb_state, dir_state>>

\* The kernel does not unload a module that is in use.
cleanup_module ==
    /\ loaded /\ MountAt("unmounted") /\ module_refs = 0
    /\ loaded' = FALSE
    /\ icaches' = icaches - 1
    /\ UNCHANGED <<toolVars, mount_pc, sb_state, dir_state>>
-----------------------------------------------------------------------------
(***************************************************************************)
(* gfs_fill_super(), and mount_bdev() around it.                           *)
(***************************************************************************)
Continue(next) == /\ mount_pc' = next
                  /\ UNCHANGED <<toolVars, loaded, icaches, dir_state>>

mount_begin ==
    /\ loaded /\ MountAt("unmounted") /\ At("off")
    /\ module_refs' = module_refs + 1
    /\ Continue("set_blocksize")
    /\ UNCHANGED <<rc, super_sup, pinned, s_root>>

set_blocksize == /\ MountAt("set_blocksize")
                 /\ rc' = 0
                 /\ Continue("kmalloc")
                 /\ UNCHANGED <<module_refs, super_sup, pinned, s_root>>

\* Variant: this way out forgets the module's reference.
set_blocksize_fails_kept == /\ MountAt("set_blocksize")
                            /\ rc' = EIO
                            /\ Continue("returned")
                            /\ UNCHANGED <<module_refs, super_sup, pinned, s_root>>

set_blocksize_fails == /\ MountAt("set_blocksize")
                       /\ rc' = EIO
                       /\ module_refs' = module_refs - 1
                       /\ Continue("returned")
                       /\ UNCHANGED <<super_sup, pinned, s_root>>

\* Every later failure returns what set_blocksize() did.
GiveBack == /\ module_refs' = module_refs - 1
            /\ super_sup' = FALSE
            /\ pinned' = pinned \ {0}
            /\ Continue("returned")
            /\ UNCHANGED <<rc, s_root>>

allocate_super_sup ==
    /\ MountAt("kmalloc")
    /\ super_sup' = TRUE
    /\ Continue("read super")
    /\ UNCHANGED <<rc, module_refs, pinned, s_root>>

no_memory == MountAt("kmalloc") /\ GiveBack

read_super ==
    /\ MountAt("read super")
    /\ pinned' = pinned \cup {0}
    /\ Continue("check magic")
    /\ UNCHANGED <<rc, module_refs, super_sup, s_root>>

unreadable_super == MountAt("read super") /\ GiveBack

\* Variant: any block 0 is taken for a super block.
check_magic_skipped ==
    /\ MountAt("check magic")
    /\ Continue("read root")
    /\ UNCHANGED sb_state

check_magic ==
    /\ MountAt("check magic")
    /\ super
    /\ Continue("read root")
    /\ UNCHANGED sb_state

no_magic == MountAt("check magic") /\ ~ super /\ GiveBack

\* gfs_iget() keeps the buffer of the inode's block.
InodeBlock(ino) == 1 + 2 * freemap_blocksize + ino \div INODES_PER_BLOCK

read_root ==
    /\ MountAt("read root")
    /\ pinned' = pinned \cup {InodeBlock(0)}
    /\ s_root' = TRUE
    /\ Continue("returned")
    /\ UNCHANGED <<rc, module_refs, super_sup>>

\* d_make_root() has no memory for a dentry; the inode is put.
no_root_dentry ==
    /\ MountAt("read root")
    /\ pinned' = (pinned \ {0}) \cup {InodeBlock(0)}
    /\ super_sup' = FALSE
    /\ module_refs' = module_refs - 1
    /\ Continue("returned")
    /\ UNCHANGED <<rc, s_root>>

\* gfs_iget() fails with an error pointer, which d_make_root() follows.
no_root_inode == /\ MountAt("read root")
                 /\ Continue("oops")
                 /\ UNCHANGED sb_state

\* External: mount_bdev() and mount_fs() take a result of zero for a mount with a
\* root directory, and follow its pointer.
mount_bdev ==
    /\ MountAt("returned")
    /\ Continue(IF rc < 0 THEN "unmounted" ELSE IF s_root THEN "mounted" ELSE "oops")
    /\ rc' = 0
    /\ UNCHANGED <<module_refs, super_sup, pinned, s_root>>

gfs_fill_super == \/ set_blocksize \/ set_blocksize_fails
                  \/ allocate_super_sup \/ no_memory
                  \/ read_super \/ unreadable_super
                  \/ check_magic \/ no_magic
                  \/ read_root \/ no_root_dentry \/ no_root_inode

\* Variant: the super block's buffer is not released.
gfs_put_super_keeps ==
    /\ MountAt("mounted")
    /\ super_sup' = FALSE
    /\ module_refs' = module_refs - 1
    /\ s_root' = FALSE
    /\ mount_pc' = "unmounted"
    /\ ctx_pos' = 0 /\ listing' = << >> /\ stopped' = "no"
    /\ UNCHANGED <<toolVars, loaded, icaches, rc, pinned>>

\* kill_block_super() drops dentry and inode and calls gfs_put_super().
gfs_put_super ==
    /\ MountAt("mounted")
    /\ pinned' = pinned \ {0}
    /\ super_sup' = FALSE
    /\ module_refs' = module_refs - 1
    /\ s_root' = FALSE
    /\ mount_pc' = "unmounted"
    /\ ctx_pos' = 0 /\ listing' = << >> /\ stopped' = "no"
    /\ UNCHANGED <<toolVars, loaded, icaches, rc>>

\* External: the machine is started again.
Reboot == /\ MountAt("oops")
          /\ loaded' = FALSE /\ icaches' = 0
          /\ mount_pc' = "unmounted" /\ rc' = 0
          /\ module_refs' = 0 /\ super_sup' = FALSE /\ pinned' = {} /\ s_root' = FALSE
          /\ ctx_pos' = 0 /\ listing' = << >> /\ stopped' = "no"
          /\ UNCHANGED toolVars
-----------------------------------------------------------------------------
(***************************************************************************)
(* gfs_readdir() emits one entry a call and follows next_offset.           *)
(***************************************************************************)
opendir == /\ MountAt("mounted")
           /\ ctx_pos' = 1
           /\ listing' = << >> /\ stopped' = "no"
           /\ UNCHANGED <<toolVars, loaded, icaches, mount_pc, sb_state>>

\* Whatever page is asked for, it is the inode's first block.
gfs_get_block == inodetable[0]

\* The directory's page: the entries in that block, if there are any.
gfs_get_page == IF gfs_get_block = RootBlock THEN root_dir ELSE << >>

\* A position in bounds leaves room for a struct gfs_direntry and a character.  The
\* struct is padded to 12 bytes.  The directory is one page, so that the bound on its
\* size and the one on the page are the same.
sizeof_direntry == 12
LastPosition == DIR_BYTES - sizeof_direntry - 1
InBounds == ctx_pos # 0 /\ EntryAt(ctx_pos) <= LastPosition

\* A directory that is open: at i_size, which is never in bounds, it has been listed.
Reading == /\ MountAt("mounted")
           /\ ctx_pos # 0 \/ listing # << >>
           /\ UNCHANGED <<toolVars, loaded, icaches, mount_pc, sb_state>>

\* Variant: the last entry is the one before the last.
NextPosEarly == IF ctx_pos + 1 >= Len(gfs_get_page) THEN 0 ELSE ctx_pos + 1
NextPos == IF ctx_pos = Len(gfs_get_page) THEN 0 ELSE ctx_pos + 1

\* Every getdents() is one call and starts with an empty buffer, which is taken to
\* have room for one entry.
gfs_emit_entry ==
    /\ Reading
    /\ InBounds
    /\ listing' = Append(listing, gfs_get_page[ctx_pos])
    /\ ctx_pos' = NextPos
    /\ stopped' = "no"

\* Nothing is emitted: to the caller of getdents() the directory ends here.
gfs_out_of_bounds ==
    /\ Reading
    /\ ~ InBounds
    /\ stopped' = "position"
    /\ UNCHANGED <<ctx_pos, listing>>

gfs_unreadable_page ==
    /\ Reading
    /\ InBounds
    /\ stopped' = "page"
    /\ UNCHANGED <<ctx_pos, listing>>

gfs_readdir == gfs_emit_entry \/ gfs_out_of_bounds \/ gfs_unreadable_page

(***************************************************************************)
(* gfs_statfs() counts the ones in the free maps' blocks and keeps their   *)
(* buffers.  A map of which only some blocks can be read counts as empty.  *)
(***************************************************************************)
\* Variant: the last block of the map is not counted.
gfs_freespace_short(blocks_read) ==
    IF blocks_read < freemap_blocksize THEN 0
    ELSE Cardinality({b \in block_freemap : b < (freemap_blocksize - 1) * MAP_BITS})
gfs_freespace(blocks_read) ==
    IF blocks_read < freemap_blocksize THEN 0
    ELSE Cardinality({b \in block_freemap : b < freemap_blocksize * MAP_BITS})

\* The difference is an unsigned int.
f_bfree(blocks_read) == (block_count - gfs_freespace(blocks_read)) % UINT_VALUES

\* How many blocks of the inode and of the block free map can be read.
gfs_statfs(inode_blocks, map_blocks) ==
    /\ MountAt("mounted")
    /\ pinned' = pinned \cup 1 .. inode_blocks
                         \cup (freemap_blocksize + 1) .. (freemap_blocksize + map_blocks)
    /\ UNCHANGED <<toolVars, loaded, icaches, mount_pc, rc, module_refs, super_sup,
                   s_root, dir_state>>
-----------------------------------------------------------------------------
DriverNext == \/ ToolStep
              \/ \E registered \in BOOLEAN : init_module(registered)
              \/ cleanup_module
              \/ mount_begin \/ gfs_fill_super \/ mount_bdev
              \/ gfs_put_super
              \/ Reboot
              \/ opendir \/ gfs_readdir
              \/ \E inode_blocks, map_blocks \in 0 .. freemap_blocksize :
                    gfs_statfs(inode_blocks, map_blocks)

DriverSpec == DriverInit /\ [][DriverNext]_allVars
-----------------------------------------------------------------------------
DriverTypeOK ==
    /\ loaded \in BOOLEAN /\ icaches \in 0 .. MaxCaches
    /\ mount_pc \in {"unmounted", "set_blocksize", "kmalloc", "read super", "check magic",
                     "read root", "returned", "mounted", "oops"}
    /\ rc \in {0, EIO}
    /\ module_refs \in 0 .. 1 /\ super_sup \in BOOLEAN /\ s_root \in BOOLEAN
    /\ pinned \subseteq Metadata
    /\ ctx_pos \in 0 .. Len(root_dir)
    /\ listing \in Seq(PartitionBlocks)
    /\ stopped \in {"no", "position", "page"}

\* A mounted partition has its module reference, its structure and its super block's
\* buffer, and one that is not has none of them, wherever its mount failed.
MountHoldsItsOwn ==
    /\ MountAt("mounted") =>
          loaded /\ module_refs = 1 /\ super_sup /\ 0 \in pinned /\ s_root
    /\ MountAt("unmounted") =>
          module_refs = 0 /\ ~ super_sup /\ 0 \notin pinned /\ ~ s_root

\* What is mounted is a partition that initialize() has finished, whatever happened
\* to the tool: its root directory can be followed from the inode the driver reads.
MountedIsInitialized ==
    MountAt("mounted") => /\ super
                          /\ inodetable[0] = RootBlock
                          /\ RootBlock \in block_freemap
                          /\ Len(root_dir) >= 2

\* A listing shows the directory's entries in their order, each once; when
\* gfs_readdir() finds its position out of bounds it has shown all of them, but for a
\* last one in the block's last bytes, too short to fill a padded struct.
ListingComplete ==
    /\ ctx_pos # 0 => listing = SubSeq(root_dir, 1, ctx_pos - 1)
    /\ ctx_pos = 0 => listing \in {<< >>, root_dir}
    /\ stopped = "position" =>
          listing = IF EntryAt(Len(root_dir)) <= LastPosition THEN root_dir
                    ELSE SubSeq(root_dir, 1, Len(root_dir) - 1)

\* When statfs can read the block free map it reports as free the blocks of the
\* partition that the tool's allocator could hand out; but once the allocator has gone
\* on behind the last block, a number below zero, as unsigned.  When it cannot, every
\* block is free.
StatfsCountsFree ==
    MountAt("mounted") =>
       /\ f_bfree(freemap_blocksize) =
             IF block_freemap \subseteq PartitionBlocks
             THEN Cardinality(PartitionBlocks \ block_freemap)
             ELSE UINT_VALUES - Cardinality(block_freemap \ PartitionBlocks)
       /\ \A blocks_read \in 0 .. freemap_blocksize - 1 :
             f_bfree(blocks_read) = block_count

(***************************************************************************)
(* What makes these inductive.                                             *)
(***************************************************************************)
Holds(refs, structure, block0, root) ==
    /\ module_refs = refs /\ super_sup = structure
    /\ 0 \in pinned <=> block0
    /\ s_root = root

\* What a mount holds at each of its steps, and on which of its ways out.
MountOK ==
    /\ MountAt("unmounted") => Holds(0, FALSE, FALSE, FALSE)
    /\ mount_pc \in {"set_blocksize", "kmalloc"} => Holds(1, FALSE, FALSE, FALSE)
    /\ MountAt("read super") => Holds(1, TRUE, FALSE, FALSE)
    /\ mount_pc \in {"check magic", "read root"} => Holds(1, TRUE, TRUE, FALSE)
    /\ MountAt("returned") => IF rc = 0 /\ s_root THEN Holds(1, TRUE, TRUE, TRUE)
                              ELSE Holds(0, FALSE, FALSE, FALSE)
    /\ MountAt("mounted") => Holds(1, TRUE, TRUE, TRUE)
    /\ mount_pc \notin {"set_blocksize", "returned"} => rc = 0

\* Only a partition with a super block gets as far as its root directory, and the
\* tool, which could take it away, is not there.
SuperChecked ==
    /\ ~ MountAt("unmounted") => loaded /\ At("off")
    /\ loaded => icaches > 0
    /\ MountAt("read root") \/ MountAt("mounted") \/ s_root => super

\* A listing is under way only while the partition is mounted, and one that has come
\* to i_size has emitted the last entry.
ListingOK ==
    /\ ListingComplete
    /\ ~ MountAt("mounted") => ctx_pos = 0 /\ listing = << >> /\ stopped = "no"
    /\ ctx_pos = 0 /\ listing # << >> => EntryAt(Len(root_dir)) <= LastPosition

\* The tool marks the first bit that is free once it has written the map, so that no
\* bit behind the last block is marked while a block is free.
BitsOK == super \/ pc \in {"write root inode", "write root directory", "write super"} =>
             \A b \in block_freemap : 0 .. b \subseteq block_freemap

DriverInv == ToolInv /\ DriverTypeOK /\ MountOK /\ SuperChecked /\ ListingOK /\ BitsOK
-----------------------------------------------------------------------------
\* "If the super block can't be read it returns NULL (and the mount fails)."
\* (super.c:261-262), "If the i-node can't be read, then the mount fails."
\* (super.c:329): what is reported as a success has a root directory.
ZeroMeansMounted == MountAt("returned") /\ rc = 0 => s_root
=============================================================================
