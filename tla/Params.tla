------------------------------- MODULE Params -------------------------------
(* The parameters of xv6 that its kernel and its tests share (src/xv6-o:       *)
(* param.h, fs.h, mmu.h, file.c, pipe.c, sh.c).                                *)
EXTENDS Integers

CONSTANTS
    NPROC, NOFILE, NFILE,  \* param.h
    NINODES,               \* inodes on the disk (mkfs.c)
    MAXFILE,               \* largest file (fs.h), in the unit of a read or write
    CHUNK,                 \* what filewrite() writes in one transaction
    PIPESIZE,              \* pipe.c
    PGSIZE, NPAGE,         \* bytes of a page, pages of the machine
    NPTENTRIES,            \* pages that one page table maps (mmu.h)
    KTABLES,               \* page tables that map the kernel (vm.c, kmap)
    TEXT,                  \* size of a program image, bss included
    KERNBASE,              \* an address that is the kernel's
    MAXARGS                \* sh.c

ASSUME ParamsAssumption ==
    /\ {NPROC, NOFILE, NFILE, NINODES, MAXFILE, CHUNK, PIPESIZE, PGSIZE, NPAGE,
      NPTENTRIES, KTABLES, TEXT, MAXARGS}
          \subseteq Nat \ {0}
    /\ KERNBASE > NPAGE * PGSIZE
=============================================================================
