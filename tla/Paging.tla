------------------------------- MODULE Paging -------------------------------
(***************************************************************************)
(* The address space of the kernel (src/src/vga.c, lines 87-363).  It runs *)
(* with paging off as long as the framebuffer ends below 4 GiB.  When the  *)
(* firmware put it higher, map_framebuffer builds PAE tables: low memory   *)
(* mapped to itself, and a window at FB_VIRT_BASE for the framebuffer; the *)
(* xHCI driver then needs its registers mapped as well                     *)
(* (vga_map_mmio_region), after it has moved a BAR above 4 GiB into the    *)
(* hole below (src/src/usb_kbd.c, lines 254-312).  The hex command reads   *)
(* any address of the range it takes to be safe.                           *)
(*                                                                         *)
(* The sizes are constants so that a small address space has every case;   *)
(* an address is a byte, and a table maps ENTRIES pages of PAGE bytes.  An *)
(* entry is the set of what it points to: {} is an entry that is not       *)
(* present.                                                                *)
(***************************************************************************)
EXTENDS Naturals, FiniteSets

CONSTANTS
  PAGE,                  \* bytes of a page, 4096
  ENTRIES,               \* entries of a page table and of a directory, 512
  LOW_TABLES, FB_TABLES, \* tables of pae_low_pts and pae_fb_pts, 32 and 32
  MMIO_TABLES,           \* tables of pae_mmio_pts, 8
  FB_PD,                 \* directory entry of FB_VIRT_BASE, 256
  FB_MAX_MAP_SIZE,       \* 64 MiB
  LOW_MMIO_BASE, LOW_MMIO_LIMIT, LOW_MMIO_MIN,  \* XHCI_LOW_MMIO_...
  BAR_MAX,               \* largest BAR detect_bar_size accepts, 256 MiB
  BAR_DEFAULT,           \* bytes mapped for a BAR of unknown size, 0x10000
  HEX_SAFE_MIN, HEX_SAFE_MAX, HEX_DUMP_MAX_BYTES,
  \* What the firmware may have set up:
  FbAddrs, FbBytes,      \* framebuffer: address and fb_pitch * fb_height
  BarAddrs, BarSizes     \* BAR of the xHCI controller

TableBytes == ENTRIES * PAGE
DirBytes   == ENTRIES * TableBytes
Top        == 4 * DirBytes                 \* 2^32
FB_VIRT_BASE == 3 * DirBytes + FB_PD * TableBytes

ASSUME SizesAssumption ==
  /\ {PAGE, ENTRIES, LOW_TABLES, FB_TABLES, MMIO_TABLES, BAR_DEFAULT} \subseteq Nat \ {0}
  /\ {LOW_MMIO_BASE, LOW_MMIO_LIMIT, LOW_MMIO_MIN, BAR_MAX} \subseteq Nat
  /\ {HEX_SAFE_MIN, HEX_SAFE_MAX, HEX_DUMP_MAX_BYTES} \subseteq Nat
  /\ FB_PD \in Nat /\ FB_PD + FB_TABLES <= ENTRIES /\ LOW_TABLES <= ENTRIES
  /\ FB_MAX_MAP_SIZE = FB_TABLES * TableBytes

\* The size of a BAR is a power of two.
ASSUME FirmwareAssumption ==
  FbAddrs \cup FbBytes \cup BarAddrs \subseteq Nat /\ BarSizes \subseteq Nat \ {0}

\* Both 64 MiB, the one in cmd.c and the other in vga.c.
ASSUME HexAssumption == HEX_SAFE_MAX <= LOW_TABLES * TableBytes

\* The address for a BAR that has to be moved, 0xF0000000: a multiple of the
\* 2 MiB of a table and of every power of two up to 256 MiB, and above the 64 MiB
\* from 0xE0000000.  The 64 KiB of a BAR that stays fit into a table.
ASSUME WindowAssumption ==
  /\ LOW_MMIO_BASE % TableBytes = 0
  /\ \A size \in BarSizes : size <= BAR_MAX => LOW_MMIO_BASE % size = 0
  /\ FB_VIRT_BASE + FB_MAX_MAP_SIZE <= LOW_MMIO_BASE
  /\ BAR_DEFAULT + PAGE <= TableBytes

Tables == ({"low"} \X (0..(LOW_TABLES - 1))) \cup ({"fb"} \X (0..(FB_TABLES - 1)))
          \cup ({"mmio"} \X (0..(MMIO_TABLES - 1)))

VARIABLES
  pc,       \* "video", "usb", "run"
  paging,   \* pae_paging_enabled
  low_pd,   \* pae_low_pd, the directory of pdpt entry 0
  fb_pd,    \* pae_fb_pd, the directory of pdpt entry 3
  pts,      \* the page tables: the physical address of each entry's page
  fb,       \* framebuffer: physical address, bytes, fb_size, fb_addr
  bar,      \* BAR of the controller as the driver last read it
  mmio      \* the region vga_map_mmio_region said was mapped

tables == <<low_pd, fb_pd, pts>>
pagingVars == <<pc, paging, tables, fb, bar, mmio>>

NoFb   == [phys |-> 0, bytes |-> 0, size |-> 0, addr |-> 0]
NoMmio == [base |-> 0, size |-> 0]

PagingInit ==
  /\ pc = "video" /\ paging = FALSE
  /\ low_pd = [i \in 0..(ENTRIES - 1) |-> {}]
  /\ fb_pd = low_pd
  /\ pts = [t \in Tables |-> [i \in 0..(ENTRIES - 1) |-> {}]]
  /\ fb = NoFb
  /\ bar = [addr |-> 0, size |-> 0, moved |-> FALSE]
  /\ mmio = NoMmio

-----------------------------------------------------------------------------
(* What the CPU makes of a linear address: {} where nothing is mapped.      *)
Directory(v) ==
  CASE v \div DirBytes = 0 -> low_pd
    [] v \div DirBytes = 3 -> fb_pd
    [] OTHER -> [i \in 0..(ENTRIES - 1) |-> {}]

Translate(v) ==
  IF ~paging THEN {v}
  ELSE {p + (v % PAGE) :
          p \in UNION {pts[t][(v \div PAGE) % ENTRIES] :
                         t \in Directory(v)[(v \div TableBytes) % ENTRIES]}}

Mapped(v, p, n) == \A k \in 0..(n - 1) : Translate(v + k) = {p + k}

PageBase(a) == a - (a % PAGE)
PagesOf(bytes) == (bytes + PAGE - 1) \div PAGE

\* The first n pages of the tables named kind map the region from base.
\* Fault: one page too few at the end.
Filled_OneLess(kind, n, base) ==
  [t \in Tables |->
     IF t[1] # kind THEN pts[t]
     ELSE [i \in 0..(ENTRIES - 1) |->
             LET page == t[2] * ENTRIES + i
             IN  IF page + 1 < n THEN {base + page * PAGE} ELSE pts[t][i]]]

Filled(kind, n, base) ==
  [t \in Tables |->
     IF t[1] # kind THEN pts[t]
     ELSE [i \in 0..(ENTRIES - 1) |->
             LET page == t[2] * ENTRIES + i
             IN  IF page < n THEN {base + page * PAGE} ELSE pts[t][i]]]

-----------------------------------------------------------------------------
(* vga_init_from_multiboot and setup_framebuffer_mapping.                   *)
MinOf(a, b) == IF a <= b THEN a ELSE b

FbPages(phys, size) == MinOf(PagesOf(size + (phys % PAGE)), FB_TABLES * ENTRIES)

\* Fault: the last table of low memory is not entered in its directory.
map_framebuffer_LowOneLess(phys, size) ==
  /\ low_pd' = [i \in 0..(ENTRIES - 1) |-> IF i + 1 < LOW_TABLES THEN {<<"low", i>>} ELSE {}]
  /\ fb_pd' = [i \in 0..(ENTRIES - 1) |->
                 IF i \in FB_PD..(FB_PD + FB_TABLES - 1) THEN {<<"fb", i - FB_PD>>} ELSE {}]
  /\ pts' = [t \in Tables |->
               IF t[1] = "low"
               THEN [i \in 0..(ENTRIES - 1) |-> {t[2] * TableBytes + i * PAGE}]
               ELSE Filled("fb", FbPages(phys, size), PageBase(phys))[t]]
  /\ paging' = TRUE

\* Low memory is mapped to itself, the framebuffer to its window.
map_framebuffer(phys, size) ==
  /\ low_pd' = [i \in 0..(ENTRIES - 1) |-> IF i < LOW_TABLES THEN {<<"low", i>>} ELSE {}]
  /\ fb_pd' = [i \in 0..(ENTRIES - 1) |->
                 IF i \in FB_PD..(FB_PD + FB_TABLES - 1) THEN {<<"fb", i - FB_PD>>} ELSE {}]
  /\ pts' = [t \in Tables |->
               IF t[1] = "low"
               THEN [i \in 0..(ENTRIES - 1) |-> {t[2] * TableBytes + i * PAGE}]
               ELSE Filled("fb", FbPages(phys, size), PageBase(phys))[t]]
  /\ paging' = TRUE

SetupFramebuffer(phys, bytes) ==
  LET size == MinOf(bytes, FB_MAX_MAP_SIZE)
  IN  /\ pc = "video"
      /\ \/ /\ phys + size <= Top
            /\ fb' = [phys |-> phys, bytes |-> bytes, size |-> size, addr |-> phys]
            /\ UNCHANGED <<paging, tables>>
         \/ /\ phys + size > Top
            /\ map_framebuffer(phys, size)
            /\ fb' = [phys |-> phys, bytes |-> bytes, size |-> size,
                      addr |-> FB_VIRT_BASE + (phys % PAGE)]
      /\ pc' = "usb"
      /\ UNCHANGED <<bar, mmio>>

TextMode ==
  /\ pc = "video" /\ pc' = "usb"
  /\ UNCHANGED <<paging, tables, fb, bar, mmio>>

-----------------------------------------------------------------------------
(* usb_kbd_init up to the first register access.                            *)

align_down(value, alignment) ==
  IF alignment = 0 THEN value ELSE value - (value % alignment)

\* A BAR decodes addresses from a multiple of its size: the device drops the
\* lower bits of what is written to it.
HwBar(a, size) == a - (a % size)

RelocationRefused(base, size) ==
  base < LOW_MMIO_MIN \/ base + size > LOW_MMIO_LIMIT \/ base + size >= Top

\* detect_bar_size, then a BAR below 4 GiB, unless there is no room for it.
Relocated(size) ==
  LET base == align_down(LOW_MMIO_BASE, size)
  IN  IF size > BAR_MAX \/ RelocationRefused(base, size) THEN {}
      ELSE {[addr |-> HwBar(base, size), size |-> size, moved |-> TRUE]}

MmioRefused(virt, pages) ==
  LET pd_index == (virt \div TableBytes) % ENTRIES
  IN  \/ virt \div DirBytes # 3
      \/ pages > MMIO_TABLES * ENTRIES
      \/ pd_index + (pages + ENTRIES - 1) \div ENTRIES > ENTRIES

\* vga_map_mmio_region with virt_base = phys_addr = a.  The tables are always
\* filled from entry 0 of the first one.
vga_map_mmio_region(a, size) ==
  LET pages == PagesOf(size + (a % PAGE))
      first == (a \div TableBytes) % ENTRIES
      used  == (pages + ENTRIES - 1) \div ENTRIES
  IN  \/ /\ ~paging
         /\ mmio' = [base |-> a, size |-> size]
         /\ UNCHANGED <<paging, tables>>
      \/ /\ paging /\ MmioRefused(a, pages)
         /\ UNCHANGED <<mmio, paging, tables>>
      \/ /\ paging /\ ~MmioRefused(a, pages)
         /\ fb_pd' = [i \in 0..(ENTRIES - 1) |->
                        IF i \in first..(first + used - 1) THEN {<<"mmio", i - first>>}
                        ELSE fb_pd[i]]
         /\ pts' = Filled("mmio", pages, PageBase(a))
         /\ mmio' = [base |-> a, size |-> size]
         /\ UNCHANGED <<paging, low_pd>>

\* The BAR the firmware left is used as it is below 4 GiB.  Its size is then
\* not looked at.
UsbInitLow(a, size) ==
  /\ pc = "usb" /\ pc' = "run"
  /\ a \in 1..(Top - 1)
  /\ bar' = [addr |-> a, size |-> size, moved |-> FALSE]
  /\ vga_map_mmio_region(a, BAR_DEFAULT)
  /\ UNCHANGED fb

\* A BAR above 4 GiB is moved first.
UsbInitHigh(a, size) ==
  /\ pc = "usb" /\ pc' = "run"
  /\ a >= Top
  /\ \/ /\ Relocated(size) = {}
        /\ UNCHANGED <<bar, mmio, paging, tables>>
     \/ /\ bar' \in Relocated(size)
        /\ vga_map_mmio_region(bar'.addr, size)
  /\ UNCHANGED fb

UsbAbsent ==
  /\ pc = "usb" /\ pc' = "run"
  /\ UNCHANGED <<paging, tables, fb, bar, mmio>>

\* The firmware's BAR is a multiple of its size, as the device demands.
PagingNext ==
  \/ \E phys \in FbAddrs, bytes \in FbBytes : SetupFramebuffer(phys, bytes)
  \/ TextMode
  \/ \E a \in BarAddrs, size \in BarSizes :
       a % size = 0 /\ (UsbInitLow(a, size) \/ UsbInitHigh(a, size))
  \/ UsbAbsent

PagingSpec == PagingInit /\ [][PagingNext]_pagingVars

-----------------------------------------------------------------------------
(* cmd_hex's test of the range it reads.                                    *)
cmd_hex(a, bytes) ==
  bytes \in 1..HEX_DUMP_MAX_BYTES /\ HEX_SAFE_MIN <= a /\ a <= HEX_SAFE_MAX - bytes

-----------------------------------------------------------------------------
(* Properties.                                                              *)
\* The addresses that the framebuffer's window takes up.
FbWindow == FB_VIRT_BASE..(FB_VIRT_BASE + FB_TABLES * TableBytes - 1)
InWindow(m) == paging /\ m.base \in FbWindow

\* Every byte the hex command agrees to dump is mapped, and to itself: the safe
\* range of cmd.c is the identity map of vga.c, whatever was mapped since.
HexDumpIsMapped ==
  \A a \in 0..(HEX_SAFE_MAX + HEX_DUMP_MAX_BYTES), n \in 1..HEX_DUMP_MAX_BYTES :
     cmd_hex(a, n) => Mapped(a, a, n)

\* Through fb_addr the drawing code reaches the framebuffer and nothing else,
\* when it is no larger than the window and no BAR of the firmware lies there.
FramebufferMapped ==
  fb.bytes + (fb.phys % PAGE) <= FB_MAX_MAP_SIZE /\ ~InWindow(mmio)
    => Mapped(fb.addr, fb.phys, fb.bytes)

\* A BAR the driver moved is wholly mapped to itself, lies in the hole it was
\* meant for and outside the framebuffer's window, and decodes where it was put.
MovedBarMapped ==
  bar.moved /\ mmio # NoMmio =>
    /\ Mapped(bar.addr, bar.addr, bar.size)
    /\ LOW_MMIO_MIN <= bar.addr /\ bar.addr + bar.size <= LOW_MMIO_LIMIT
    /\ ~InWindow(mmio)

\* Each device is behind its window, and the two windows stay apart, as the
\* comment at usb_kbd.c:13-20 asks.  Not so for a BAR that the firmware left
\* below 4 GiB: it is used where it is, in the framebuffer's window too, and
\* vga_map_mmio_region enters it at the first page of its 2 MiB.
WindowsMapped == FramebufferMapped /\ MovedBarMapped
=============================================================================
