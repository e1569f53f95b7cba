---------------------------- MODULE GucCaptureLists ----------------------------
(***************************************************************************)
(* What the register-list catalog promises its callers, with no cache:     *)
(* getlistsize answers from the tables every time; getlist hands out the   *)
(* static list followed by the steered one, or fails with -ENODATA for a   *)
(* missing or empty list, or with -ENOMEM, which is transient; the output  *)
(* size estimate covers a worst-case burst of dumps. GucCaptureCatalog     *)
(* implements it.                                                          *)
(***************************************************************************)
EXTENDS Naturals, Sequences, FiniteSetsExt

CONSTANTS
    Platforms,
    Keys,               \* the lists callers ask for
    ListRegs(_, _),     \* (platform, key) -> entries of the static list, < 0 if none
    SteeredKey,         \* the list the steered registers extend
    SteeredRegs(_),     \* platform -> steered registers, 0 if none
    Engines,
    EngineKeys(_),      \* engine -> the lists GuC dumps for it
    AllocMayFail

VARIABLES plat, capture, ext, ret

avars == <<plat, capture, ext, ret>>

ENODEV == -19
ENODATA == -61
ENOMEM == -12
SZ_LIST_HDR == 4
SZ_MMIO_REG == 16
SZ_GROUP_HDR == 8
SZ_DATA_HDR == 20
PAGE_SIZE == 4096

\* The registers of a list: its static entries and, for the steered key,
\* the steered entries the context holds.
Regs(k) ==
    IF ListRegs(plat, k) < 0 THEN 0
    ELSE ListRegs(plat, k) + (IF k = SteeredKey THEN ext ELSE 0)

Status(k) == IF Regs(k) = 0 THEN ENODATA ELSE 0

\* The descriptors GuC must get: the static list, then the steered list.
RefList(k) ==
    [i \in 1..ListRegs(plat, k) |-> <<"s", i - 1>>]
      \o (IF k = SteeredKey THEN [j \in 1..ext |-> <<"x", j - 1>>] ELSE <<>>)

\* A size reported for a list: whole pages that hold its header and
\* descriptors.
Fits(k, size) ==
    /\ size % PAGE_SIZE = 0
    /\ size >= SZ_LIST_HDR + Regs(k) * SZ_MMIO_REG

\* One burst in which every engine dumps its global, class and instance
\* lists, each with its header, three times over.
WorstCase ==
    3 * MapThenSumSet(LAMBDA e : SZ_GROUP_HDR + 3 * SZ_DATA_HDR
                        + MapThenSumSet(LAMBDA k : Regs(k) * SZ_MMIO_REG, EngineKeys(e)),
                      Engines)

Failures == IF AllocMayFail THEN {ENOMEM} ELSE {}

AInit ==
    /\ capture = "none"
    /\ \/ /\ capture' = "nomem" /\ ret'.status \in Failures /\ UNCHANGED ext
       \/ /\ capture' = "live" /\ ret'.status = 0
          /\ ext' \in {0, SteeredRegs(plat)}
    /\ ret'.op = "init"
    /\ UNCHANGED plat

AGetListSize(k) ==
    /\ capture = "live"
    /\ ret'.op = "size" /\ ret'.key = k
    /\ ret'.status = Status(k)
    /\ ret'.status = 0 => Fits(k, ret'.size)
    /\ UNCHANGED <<plat, capture, ext>>

AGetList(k) ==
    /\ capture = "live"
    /\ ret'.op = "list" /\ ret'.key = k
    /\ \/ ret'.status = Status(k)
       \/ Status(k) = 0 /\ ret'.status \in Failures
    /\ ret'.status = 0 => ret'.list = RefList(k) /\ Fits(k, ret'.size)
    /\ UNCHANGED <<plat, capture, ext>>

ANullHeader ==
    /\ capture = "live"
    /\ ret'.op = "null"
    /\ ret'.status \in {0} \cup Failures
    /\ UNCHANGED <<plat, capture, ext>>

AEst ==
    /\ ret'.op = "est"
    /\ IF capture = "live" THEN ret'.status = 0 /\ ret'.size >= WorstCase
                           ELSE ret'.status = ENODEV
    /\ UNCHANGED <<plat, capture, ext>>

ADestroy ==
    /\ capture = "live"
    /\ capture' = "destroyed"
    /\ ret'.op = "destroy"
    /\ UNCHANGED <<plat, ext>>

AInitState ==
    /\ plat \in Platforms
    /\ capture = "none"
    /\ ext = 0
    /\ ret.op = "none"

ANext ==
    \/ AInit
    \/ \E k \in Keys : AGetListSize(k) \/ AGetList(k)
    \/ ANullHeader
    \/ AEst
    \/ ADestroy

ASpec == AInitState /\ [][ANext]_avars

====
