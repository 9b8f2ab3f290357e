------------------------------- MODULE MCBoot -------------------------------
(* Machines of about 30 frames of 8 bytes, with tables of 6 entries.        *)
EXTENDS Boot

MCLoaderImage == [begin |-> 8, end |-> 22]

Tag(type, cmdline) == [type |-> type, cmdline |-> cmdline]
Kernel == Tag("module", "cxkernel")
Ramdisk == Tag("module", "ramdisk")
Mmap == Tag("mmap", "")
Other == Tag("other", "")

\* All a boot needs; no kernel module; no memory map.
TagLists == {<<Other, Ramdisk, Kernel, Mmap>>, <<Mmap, Kernel, Other>>}
NoKernel == {<<Mmap, Ramdisk>>, <<Ramdisk, Mmap>>, <<>>}
NoMmap == {<<Kernel>>, <<Ramdisk, Kernel, Other>>}

Entry(addr, end, available) == [addr |-> addr, len |-> end - addr, available |-> available]

\* One range; two ranges with a hole at unaligned addresses; memory beyond 32
\* bits; too little for all tables; nothing in which the PFNDB fits; a first
\* range that ends below its size.
LowRange == <<Entry(0, 24, TRUE), Entry(24, 64, FALSE), Entry(64, 256, TRUE)>>
MemoryMaps == {LowRange,
               <<Entry(0, 245, TRUE)>>,
               <<Entry(0, 45, TRUE), Entry(45, 53, FALSE), Entry(53, 250, TRUE)>>,
               <<Entry(0, 240, TRUE), Entry(240, 256, FALSE), Entry(256, 288, TRUE)>>,
               <<Entry(0, 150, TRUE)>>,
               <<Entry(0, 40, TRUE), Entry(56, 96, TRUE), Entry(96, 128, FALSE), Entry(200, 256, TRUE)>>}

Modules == {[begin |-> 8 * f, end |-> 8 * f + size] : f \in {4, 9}, size \in {17, 20, 24}}

Seg(load, aligned, vaddr, offset, filesz, memsz) ==
  [load |-> load, aligned |-> aligned, vaddr |-> vaddr, offset |-> offset, filesz |-> filesz, memsz |-> memsz]

\* Text in place and data with bss; a header of another type; two pages to copy;
\* one that is not aligned; one below the kernel.
SegmentLists == {<<Seg(TRUE, TRUE, kernel_base, 0, 8, 8), Seg(TRUE, TRUE, kernel_base + 1, 1, 5, 12)>>,
                 <<Seg(FALSE, TRUE, 0, 0, 0, 0), Seg(TRUE, TRUE, kernel_base + 5, 0, 16, 16)>>,
                 <<Seg(TRUE, TRUE, kernel_base, 0, 9, 10)>>,
                 <<Seg(TRUE, FALSE, kernel_base, 0, 8, 8)>>,
                 <<Seg(TRUE, TRUE, kernel_base - 1, 0, 8, 8)>>}

Machine(tags, mmap, mod, elf, segs, modtag) ==
  [tags |-> tags, mmap |-> mmap, mod |-> mod, elf |-> elf, segs |-> segs,
   tag |-> [begin |-> 218, size |-> 10], modtag |-> modtag]

\* Tags at the end of memory, and in a frame that is used before they are read.
MCMachines ==
  {Machine(tags, mmap, mod, "ELFCLASS64", segs, modtag) :
     tags \in TagLists, mmap \in MemoryMaps, mod \in Modules, segs \in SegmentLists, modtag \in {60, 230}}
  \cup {Machine(tags, mmap, [begin |-> 32, end |-> 52], "ELFCLASS32", <<>>, 230) :
          tags \in TagLists \cup NoKernel \cup NoMmap, mmap \in MemoryMaps}

WrapMachines ==
  {Machine(<<Mmap, Kernel>>, LowRange, mod, "ELFCLASS64", segs, 230) : mod \in Modules, segs \in SegmentLists}

LostMachines ==
  {Machine(tags, <<Entry(0, 245, TRUE)>>, [begin |-> 32, end |-> 52], "ELFCLASS64", segs, 230) :
     tags \in TagLists \cup NoKernel \cup NoMmap, segs \in SegmentLists}
=============================================================================
