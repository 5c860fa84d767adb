---------------------------- MODULE ReportParser ----------------------------
(***************************************************************************)
(* How UPSHIDDevice finds its data in a HID report descriptor and reads    *)
(* them from the reports: buildFromHIDReport with its stores of global and *)
(* local items, the conversions of their bytes, and HIDData::setValue.     *)
(* Both run in the class driver task, one after the other; what the other  *)
(* tasks see meanwhile is UPSHIDDevice's matter.                           *)
(*                                                                         *)
(* A descriptor is a sequence of short items of 1, 2 or 4 bytes.  Units    *)
(* and the local items other than Usage are stored and never used.  Push   *)
(* and Pop are not in the code.                                            *)
(***************************************************************************)
EXTENDS Integers, Sequences

CONSTANTS
    Usages,         \* datas_: the page and the usage of each datum
    ItemsAt,        \* ItemsAt[n]: what the n-th item of a descriptor may be
    Reports,        \* the reports that may arrive: [id, bytes]
    Garbage,        \* what a value never set may hold
    NaN             \* the quotient of zero by zero

Byte == 0..255
Data == DOMAIN Usages
GlobalTag == {"UsagePage", "LogicalMin", "LogicalMax", "PhysicalMin", "PhysicalMax",
              "ReportSize", "ReportID", "ReportCount"}
Item == [type : {"Global"}, tag : GlobalTag, bytes : Seq(Byte)]
        \cup [type : {"Local"}, tag : {"Usage"}, bytes : Seq(Byte)]
        \cup [type : {"Main"}, tag : {"Input", "Feature"}, bytes : Seq(Byte)]

NoReport == [id |-> 0, bytes |-> <<>>]

ASSUME UsagesAssumption ==
    \A a, b \in Data : Usages[a] = Usages[b] => a = b
ASSUME ItemsAssumption ==
    /\ ItemsAt \in Seq(SUBSET Item)
    /\ \A n \in DOMAIN ItemsAt : \A item \in ItemsAt[n] : Len(item.bytes) \in {1, 2, 4}
ASSUME ReportsAssumption ==
    Reports \subseteq [id : Byte, bytes : Seq(Byte)] /\ NoReport \notin Reports
ASSUME GarbageAssumption == Garbage \subseteq Int /\ Garbage # {}
ASSUME NaNAssumption == NaN \notin Int

VARIABLES
    read,           \* the items parsed so far
    globals,        \* globalItems
    usage,          \* localItems.usage
    actualBit,      \* actualBit
    data,           \* HIDData: used_, reportId_ and the layout
    phase,          \* "parse" or "reports"
    report,         \* the last report
    value           \* HIDData::value_

vars == <<read, globals, usage, actualBit, data, phase, report, value>>

\* OptionalData.
Optional == [set : BOOLEAN, value : Int]
Set(v) == [set |-> TRUE, value |-> v]

Layout == [used : BOOLEAN, reportId : Byte, place : Byte, width : Byte,
           logicalMin : Optional, logicalMax : Optional,
           physicalMin : Optional, physicalMax : Optional]

\* The types of the variables.  What setValue makes of bytes that follow a report
\* is not a number of this model.
TypeOK ==
    /\ read \in Seq(Item) /\ Len(read) <= Len(ItemsAt)
    /\ globals \in [GlobalTag -> Optional]
    /\ usage \in Optional
    /\ actualBit \in 0..Len(read)
    /\ data \in [Data -> Layout]
    /\ phase \in {"parse", "reports"}
    /\ report \in Reports \cup {NoReport}
    /\ DOMAIN value = Data

-----------------------------------------------------------------------------
(* The conversions.                                                        *)

\* A loop that adds term[1], ..., term[n], and a shift of 1 by n.
SumTo(term, n) ==
    LET sum[i \in 0..n] == IF i = 0 THEN 0 ELSE sum[i - 1] + term[i]
    IN  sum[n]
Pow2(n) ==
    LET power[i \in 0..n] == IF i = 0 THEN 1 ELSE 2 * power[i - 1]
    IN  power[n]

\* toUnSignedInteger: from the lowest byte.
ToUnsigned(bytes) ==
    SumTo([i \in 1..Len(bytes) |-> bytes[i] * Pow2(8 * (i - 1))], Len(bytes))

SignedByte(b) == IF b < 128 THEN b ELSE b - 256

\* The bytes at the top of an int32_t.
TopAligned(bytes) ==
    LET n == Len(bytes)
    IN  SumTo([i \in 1..n |-> (IF i = n THEN SignedByte(bytes[i]) ELSE bytes[i])
                               * Pow2(8 * (4 - n + i - 1))], n)

\* Division of C: towards zero.
Quotient(a, b) == LET q == a \div b IN IF a < 0 /\ a % b # 0 THEN q + 1 ELSE q

\* toSignedInteger, for 1, 2 or 4 bytes.
ToSigned(bytes) ==
    IF Len(bytes) = 4 THEN TopAligned(bytes)
    ELSE Quotient(TopAligned(bytes), Pow2(8 * (4 - Len(bytes))) - 1)

Signed == {"LogicalMin", "LogicalMax", "PhysicalMin", "PhysicalMax"}

\* updateGlobalItems.
GlobalValue(item) ==
    IF item.tag \in Signed THEN ToSigned(item.bytes)
    ELSE IF item.tag = "ReportID" THEN item.bytes[1]
    ELSE ToUnsigned(item.bytes)

-----------------------------------------------------------------------------
(* buildFromHIDReport: one item.                                           *)

Init ==
    /\ read = <<>>
    /\ \E g \in Garbage :
           /\ globals = [t \in GlobalTag |-> [set |-> FALSE, value |-> g]]
           /\ usage = [set |-> FALSE, value |-> g]
    /\ actualBit = 0
    /\ data = LET none == [set |-> FALSE, value |-> 0]
              IN  [d \in Data |-> [used |-> FALSE, reportId |-> 0, place |-> 0, width |-> 0,
                                   logicalMin |-> none, logicalMax |-> none,
                                   physicalMin |-> none, physicalMax |-> none]]
    /\ phase = "parse"
    /\ report = NoReport
    /\ value = [d \in Data |-> 0]

IsInput(item) == item.type = "Main" /\ item.tag = "Input"
IsReportID(item) == item.type = "Global" /\ item.tag = "ReportID"

\* match compares the low bytes.
Match(d) ==
    /\ globals["UsagePage"].set /\ usage.set
    /\ Usages[d] = <<globals["UsagePage"].value % 256, usage.value % 256>>

\* What the field at hand gives the datum that takes it: eight bits of each.
FieldLayout ==
    [used |-> TRUE,
     reportId |-> globals["ReportID"].value % 256,
     place |-> actualBit % 256,
     width |-> globals["ReportSize"].value % 256,
     logicalMin |-> globals["LogicalMin"], logicalMax |-> globals["LogicalMax"],
     physicalMin |-> globals["PhysicalMin"], physicalMax |-> globals["PhysicalMax"]]

\* reportCount * reportSize multiplies two OptionalData: as truth values.
FieldBits == IF globals["ReportCount"].set /\ globals["ReportSize"].set THEN 1 ELSE 0

Advance_KeepsBit(item) == IF IsInput(item) THEN actualBit + FieldBits ELSE actualBit
Advance(item) ==
    IF IsReportID(item) THEN 0
    ELSE IF IsInput(item) THEN actualBit + FieldBits
    ELSE actualBit

\* A Main item ends the reach of the local items.
Locals_Leak(item) ==
    IF item.type = "Local" THEN Set(ToUnsigned(item.bytes)) ELSE usage
Locals(item) ==
    IF item.type = "Local" THEN Set(ToUnsigned(item.bytes))
    ELSE IF item.type = "Main" THEN [usage EXCEPT !.set = FALSE]
    ELSE usage

ParseItem ==
    /\ phase = "parse"
    /\ Len(read) < Len(ItemsAt)
    /\ \E item \in ItemsAt[Len(read) + 1] :
           /\ read' = Append(read, item)
           /\ globals' = IF item.type = "Global"
                         THEN [globals EXCEPT ![item.tag] = Set(GlobalValue(item))]
                         ELSE globals
           /\ usage' = Locals(item)
           /\ actualBit' = Advance(item)
           /\ data' = [d \in Data |-> IF IsInput(item) /\ Match(d) /\ ~data[d].used
                                      THEN FieldLayout
                                      ELSE data[d]]
    /\ UNCHANGED <<phase, report, value>>

EndOfDescriptor ==
    /\ phase = "parse"
    /\ phase' = "reports"
    /\ UNCHANGED <<read, globals, usage, actualBit, data, report, value>>

-----------------------------------------------------------------------------
(* hidReportData and HIDData::setValue.                                    *)

\* setValue's loop: width bits from bit place on, the lowest first.
Bit(bytes, at) == (bytes[at \div 8 + 1] \div Pow2(at % 8)) % 2

RawValue_FromByte(bytes, place, width) ==
    SumTo([i \in 1..width |-> Bit(bytes, i - 1) * Pow2(i - 1)], width)
RawValue(bytes, place, width) ==
    SumTo([i \in 1..width |-> Bit(bytes, place + i - 1) * Pow2(i - 1)], width)

\* Without a physical range the logical one stands for it, and the factor is
\* 1; with one, physicalMin and physicalMax stay 0, and so does the factor.
Scaled(raw, l) ==
    IF l.logicalMin.value = l.logicalMax.value THEN NaN
    ELSE IF \/ ~l.physicalMax.set
            \/ ~l.physicalMin.set
            \/ l.physicalMax.value = 0 /\ l.physicalMin.value = 0
    THEN (raw - l.logicalMin.value) + l.logicalMin.value
    ELSE 0

HidReportData ==
    /\ phase = "reports"
    /\ report' \in Reports
    /\ value' = [d \in Data |->
                    IF data[d].reportId = report'.id
                    THEN Scaled(RawValue(report'.bytes, data[d].place, data[d].width), data[d])
                    ELSE value[d]]
    /\ UNCHANGED <<read, globals, usage, actualBit, data, phase>>

Next == ParseItem \/ EndOfDescriptor \/ HidReportData

Spec == Init /\ [][Next]_vars

-----------------------------------------------------------------------------
(* What a descriptor means, from its items alone.                          *)

LastOf(indices) == CHOOSE i \in indices : \A j \in indices : j <= i
FirstOf(indices) == CHOOSE i \in indices : \A j \in indices : i <= j

\* The items that set global t for the field at i.
Setting(t, i) == {j \in 1..(i - 1) : read[j].type = "Global" /\ read[j].tag = t}
GlobalAt(t, i) == read[LastOf(Setting(t, i))].bytes

\* The Usage items in reach of the field at i: no Main item is in between.
Reaching(i) ==
    {j \in 1..(i - 1) : /\ read[j].type = "Local"
                        /\ \A k \in j..(i - 1) : read[k].type # "Main"}
UsageAt(i) == read[LastOf(Reaching(i))].bytes

LittleEndian(bytes) == ToUnsigned(bytes)
TwosComplement(bytes) ==
    IF bytes[Len(bytes)] < 128 THEN LittleEndian(bytes)
    ELSE LittleEndian(bytes) - Pow2(8 * Len(bytes))

\* The input fields that describe datum d.
FieldsOf(d) ==
    {i \in DOMAIN read :
        /\ IsInput(read[i])
        /\ Setting("UsagePage", i) # {} /\ Reaching(i) # {}
        /\ Usages[d] = <<LittleEndian(GlobalAt("UsagePage", i)), LittleEndian(UsageAt(i))>>}

FieldOf(d) == FirstOf(FieldsOf(d))

SizeAt(i) == LittleEndian(GlobalAt("ReportSize", i)) * LittleEndian(GlobalAt("ReportCount", i))

\* The input fields before i in its report.
Preceding(i) == {j \in LastOf(Setting("ReportID", i))..(i - 1) : IsInput(read[j])}

BitsBefore(i) ==
    SumTo([j \in 1..(i - 1) |-> IF j \in Preceding(i) THEN SizeAt(j) ELSE 0], i - 1)

HasLayout(i) == \A t \in {"ReportID", "ReportSize", "ReportCount"} : Setting(t, i) # {}

-----------------------------------------------------------------------------
(* Safety.                                                                 *)

\* Of wider pages and usages match sees the lowest byte: it takes page 0xFF85
\* for 0x85.
NarrowUsages ==
    \A i \in DOMAIN read : read[i].tag \in {"UsagePage", "Usage"} => Len(read[i].bytes) = 1

\* A datum is used when the descriptor has an input field for it, and takes
\* its report, its width and its logical range from the items in force at the
\* first such field: no usage survives the Main item that ends it, no global
\* is taken before or after its time.
FirstFieldTaken ==
    NarrowUsages => \A d \in Data :
        /\ data[d].used <=> FieldsOf(d) # {}
        /\ data[d].used =>
               LET i == FieldOf(d)
               IN  /\ HasLayout(i) =>
                          /\ data[d].reportId = GlobalAt("ReportID", i)[1]
                          /\ LittleEndian(GlobalAt("ReportSize", i)) \in Byte =>
                                 data[d].width = LittleEndian(GlobalAt("ReportSize", i))
                   /\ Setting("LogicalMin", i) # {} =>
                          data[d].logicalMin.value = TwosComplement(GlobalAt("LogicalMin", i))

\* Fields that follow single bits only, as in a report of flags, or that come
\* first in their report are placed where they are.
BitFieldsPlaced ==
    NarrowUsages => \A d \in Data : data[d].used /\ HasLayout(FieldOf(d)) =>
        LET i == FieldOf(d)
        IN  (\A j \in Preceding(i) : HasLayout(j) /\ SizeAt(j) = 1) /\ BitsBefore(i) \in Byte
            => data[d].place = BitsBefore(i)

\* The report is as long as the layout says, and no int32_t of setValue overflows:
\* beyond, setValue reads what follows the report, or its arithmetic is undefined.
Holds(r, l) == l.place + l.width <= 8 * Len(r.bytes)
Fits(l) == l.width <= 30 /\ l.logicalMin.value >= -Pow2(30)

\* The descriptor gives the datum a physical range, other than 0 to 0.
PhysicalRange(l) ==
    /\ l.physicalMin.set /\ l.physicalMax.set
    /\ l.physicalMin.value # 0 \/ l.physicalMax.value # 0

\* The datum takes its value from the last report: the two fit, and its logical
\* range is not empty, of which setValue makes a NaN.
Valued(d) ==
    LET l == data[d]
    IN  /\ l.used /\ report # NoReport /\ l.reportId = report.id
        /\ l.logicalMin.value # l.logicalMax.value
        /\ Holds(report, l) /\ Fits(l)

\* The value of a datum without a physical range is the bits of the report its
\* layout names, taken as an unsigned number.  A datum with one is left out:
\* setValue never uses the range, and makes 0 of all its reports.
ValueIsTheBits ==
    \A d \in Data :
        LET l == data[d]
        IN  Valued(d) /\ ~PhysicalRange(l)
            => value[d] = (LittleEndian(report.bytes) \div Pow2(l.place)) % Pow2(l.width)

(* What the repository says of itself and the code does not keep.          *)

\* setBitsConfiguration's place is bit 0's place in the report data.
PlaceIsBit0 ==
    NarrowUsages => \A d \in Data : data[d].used /\ HasLayout(FieldOf(d)) =>
        LET i == FieldOf(d)
        IN  (\A j \in Preceding(i) : HasLayout(j)) => data[d].place = BitsBefore(i)
=============================================================================
