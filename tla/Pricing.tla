------------------------------ MODULE Pricing ------------------------------
(***************************************************************************)
(* What a bill comes to and what returning its goods gives back, in paise: *)
(* contracts/pricing.ts, which the API and the till both compute with.     *)
(* Each line is priced, its own discounts and its share of the bill's come *)
(* off before tax, the tax is split by kind and the total may be rounded.  *)
(* Goods then come back in any number of returns.                          *)
(* Amounts are whole paise here, where the code rounds binary fractions by *)
(* their decimal digits; a share's remainder is compared exactly.          *)
(***************************************************************************)
EXTENDS Integers, Sequences, FiniteSets, SequencesExt, Sums

CONSTANTS
    LineChoices,     \* what a line may ask: qty, rate, taxRate, taxMode, discounts
    OrderChoices,    \* the discounts the whole bill may have
    MaxLines         \* bound: lines of a bill

VARIABLES
    bill,     \* the saved bill: lines, roundOff, netTotal, grandTotal
    returned, \* per line, the quantity and the parts earlier returns took
    givenBack \* what returns came to: their lines, their round-off, and the smallest total

pricingVars == <<bill, returned, givenBack>>

Parts == {"taxable", "cgst", "sgst", "igst"}
TaxParts == Parts \ {"taxable"}
NoParts == [k \in Parts |-> 0]

Least(a, b) == IF a < b THEN a ELSE b
AtLeast0(a) == IF a < 0 THEN 0 ELSE a

\* num / den to the nearest paisa, halves away from zero; den is positive.
Round(num, den) == IF num < 0 THEN -((2 * (-num) + den) \div (2 * den)) ELSE (2 * num + den) \div (2 * den)

-----------------------------------------------------------------------------
(* Discounts.                                                              *)

\* Indexes by falling key, the earlier first among equals.
Ranked(key) == SortSeq([i \in DOMAIN key |-> i], LAMBDA i, j : key[i] > key[j] \/ (key[i] = key[j] /\ i < j))

\* One paisa more (or less) for each of the first n of a ranking, in turns.
Dealt(amounts, ranking, n, paisa) ==
    LET Turns(i) == Cardinality({t \in 0 .. n - 1 : ranking[1 + (t % Len(ranking))] = i})
    IN  [i \in DOMAIN amounts |-> amounts[i] + paisa * Turns(i)]

\* What each discount asks: a percentage of the base or an amount.
Asked(discounts, base) ==
    [i \in DOMAIN discounts |->
        IF discounts[i].type = "PERCENTAGE" THEN Round(base * discounts[i].value, 100) ELSE discounts[i].value]

\* More than the base together, they are scaled down to it and the paise left over (or too
\* many) dealt out.
DealtRest(scaled, rest, excess) ==
    IF excess > 0 THEN Dealt(scaled, Ranked(scaled), excess, -1) ELSE Dealt(scaled, Ranked(rest), -excess, 1)
ScaledDown(raw, base, sum) ==
    LET scaled == [i \in DOMAIN raw |-> Round(raw[i] * base, sum)]
    IN  DealtRest(scaled, [i \in DOMAIN raw |-> raw[i] * base - scaled[i] * sum], Total(scaled) - base)
FittedTo(base, raw) == IF Total(raw) <= base THEN raw ELSE ScaledDown(raw, base, Total(raw))

DiscountAmounts(discounts, base) ==
    IF base <= 0 \/ discounts = <<>> THEN <<>> ELSE FittedTo(base, Asked(discounts, base))

\* Mutant of Allocated: the paise the rounding down leaves over go to no line.
AllocatedFloored(bases, discount) ==
    [i \in DOMAIN bases |-> IF Total(bases) = 0 THEN 0
                            ELSE (bases[i] * Least(AtLeast0(discount), Total(bases))) \div Total(bases)]

\* One discount over the lines by their bases: shares rounded down, then a paisa each to the
\* largest remainders among lines with room for one.
Allocated(bases, discount) ==
    LET base == Total(bases)
        capped == Least(AtLeast0(discount), base)
        floored == [i \in DOMAIN bases |-> (bases[i] * capped) \div base]
        roomy == SelectSeq(Ranked([i \in DOMAIN bases |-> (bases[i] * capped) % base]), LAMBDA i : bases[i] > floored[i])
    IN  IF base <= 0 \/ capped <= 0 THEN [i \in DOMAIN bases |-> 0]
        ELSE Dealt(floored, roomy, capped - Total(floored), 1)

-----------------------------------------------------------------------------
(* A sale's amounts.                                                       *)

Priced(line, chargeTax) == IF chargeTax THEN line ELSE [line EXCEPT !.taxRate = 0, !.taxMode = "EXCLUSIVE"]

ExclusiveBase(gross, line) ==
    IF line.taxMode = "INCLUSIVE" /\ line.taxRate > 0 THEN Round(gross * 100, 100 + line.taxRate) ELSE gross

\* A price with tax in it leaves as tax what the taxable amount does not take.
LineTax(gross, base, taxable, line) ==
    IF line.taxMode = "INCLUSIVE" /\ line.taxRate > 0
    THEN IF base > 0 THEN AtLeast0(Round(gross * taxable, base) - taxable) ELSE 0
    ELSE Round(taxable * line.taxRate, 100)

SplitGst(tax, interState) ==
    [cgst |-> IF interState THEN 0 ELSE tax \div 2,
     sgst |-> IF interState THEN 0 ELSE tax - tax \div 2,
     igst |-> IF interState THEN tax ELSE 0]

Step(mode) == CASE mode = "NEAREST_1" -> 100 [] mode = "NEAREST_050" -> 50 [] OTHER -> 0

RoundOffFor(total, mode) ==
    IF Step(mode) = 0 \/ total <= 0 THEN 0 ELSE Round(total, Step(mode)) * Step(mode) - total

\* A line before the bill's discounts: what is asked, that without tax, its own discounts.
WithOwn(line, gross, base) ==
    [line |-> line, gross |-> gross, base |-> base, own |-> Total(DiscountAmounts(line.discounts, base))]
LineBefore(line) == WithOwn(line, line.qty * line.rate, ExclusiveBase(line.qty * line.rate, line))
Bases(before) == [i \in DOMAIN before |-> AtLeast0(before[i].base - before[i].own)]

\* And after them: all that came off, and the tax on the rest.
WithTax(l, off, taxable) == [off |-> off, taxable |-> taxable, tax |-> LineTax(l.gross, l.base, taxable, l.line)]
LineAfter(l, off) == WithTax(l, off, AtLeast0(l.base - off))

SaleParts(l, tax) == [k \in Parts |-> IF k = "taxable" THEN l.taxable ELSE tax[k]]
TotalsOf(lines, before, plans, after, net, interState, mode) ==
    [lines |-> [i \in DOMAIN lines |->
                  [qty |-> lines[i].qty, parts |-> SaleParts(after[i], SplitGst(after[i].tax, interState))]],
     subTotal |-> Total([i \in DOMAIN before |-> before[i].base]),
     itemDiscounts |-> Total([i \in DOMAIN before |-> before[i].own]),
     orderDiscounts |-> plans, discountTotal |-> Total([i \in DOMAIN after |-> after[i].off]),
     roundOff |-> RoundOffFor(net, mode), netTotal |-> net, grandTotal |-> net + RoundOffFor(net, mode)]

SaleTotals(lines, discounts, chargeTax, interState, mode) ==
    LET before == [i \in DOMAIN lines |-> LineBefore(Priced(lines[i], chargeTax))]
        plans == DiscountAmounts(discounts, Total(Bases(before)))
        shares == [p \in DOMAIN plans |-> Allocated(Bases(before), plans[p])]
        after == [i \in DOMAIN lines |->
                    LineAfter(before[i], before[i].own + Total([p \in DOMAIN plans |-> shares[p][i]]))]
    IN  TotalsOf(lines, before, plans, after,
                 Total([i \in DOMAIN lines |-> after[i].taxable + after[i].tax]), interState, mode)

-----------------------------------------------------------------------------
(* Returns.                                                                *)

\* What returning `qty` more of a line refunds, given what earlier returns took.
ReturnParts(line, before, qty) ==
    LET all == before.qty + qty
        Left(k) == AtLeast0(line.parts[k] - before.parts[k])
        Share(amount, taken) == AtLeast0(Round(amount * all, line.qty) - taken)
        taxes == [k \in TaxParts |-> Least(Left(k), Share(line.parts[k], before.parts[k]))]
        amount == Share(Total(line.parts), Total(before.parts))
    IN  CASE qty = 0 -> NoParts
          [] qty > 0 /\ all = line.qty -> [k \in Parts |-> Left(k)]
          [] OTHER -> [k \in Parts |->
                         IF k = "taxable" THEN Least(Left(k), AtLeast0(amount - Total(taxes))) ELSE taxes[k]]

ReturnRoundOff(amount) ==
    IF bill.netTotal <= 0 \/ amount <= 0 THEN 0
    ELSE Round(bill.roundOff * Least(bill.netTotal, givenBack.lines + amount), bill.netTotal) - givenBack.roundOff

-----------------------------------------------------------------------------
Bills == UNION {[1 .. n -> LineChoices] : n \in 1 .. MaxLines}

PricingInit ==
    /\ \E lines \in Bills, discounts \in OrderChoices, chargeTax, interState \in BOOLEAN,
          mode \in {"NONE", "NEAREST_1", "NEAREST_050"} :
          bill = SaleTotals(lines, discounts, chargeTax, interState, mode)
    /\ returned = [i \in DOMAIN bill.lines |-> [qty |-> 0, parts |-> NoParts]]
    /\ givenBack = [lines |-> 0, roundOff |-> 0, least |-> 0]

\* One return of any of the goods still out.
Return ==
    \E goods \in [DOMAIN bill.lines -> 0 .. 3] :
        /\ \E i \in DOMAIN goods : goods[i] > 0
        /\ \A i \in DOMAIN goods : returned[i].qty + goods[i] <= bill.lines[i].qty
        /\ \E parts \in {[i \in DOMAIN goods |-> ReturnParts(bill.lines[i], returned[i], goods[i])]} :
           \E amount \in {Total([i \in DOMAIN goods |-> Total(parts[i])])} :
           \E back \in {ReturnRoundOff(amount)} :
              /\ returned' = [i \in DOMAIN goods |->
                    [qty |-> returned[i].qty + goods[i],
                     parts |-> [k \in Parts |-> returned[i].parts[k] + parts[i][k]]]]
              /\ givenBack' = [lines |-> givenBack.lines + amount, roundOff |-> givenBack.roundOff + back,
                               least |-> Least(givenBack.least, amount + back)]
        /\ UNCHANGED bill

PricingNext == Return

-----------------------------------------------------------------------------
\* What a bill says its discounts came to is what its lines lost, to the paisa, and what was
\* taken off is what the taxable amounts lack. The second only up to a paisa a line and a
\* further discount of the bill: shares of two discounts are rounded apart, and a line they
\* cover to the paisa can be given more than it has left (the taxable amount stops at zero).
DiscountsAddUp ==
    LET lost == bill.subTotal - Total([i \in DOMAIN bill.lines |-> bill.lines[i].parts["taxable"]])
    IN  /\ bill.discountTotal = bill.itemDiscounts + Total(bill.orderDiscounts)
        /\ bill.discountTotal - lost \in 0 .. Len(bill.lines) * AtLeast0(Len(bill.orderDiscounts) - 1)

\* Goods returned in any number of steps refund, each unit, what it sold for; no part of a
\* line's value or tax comes back twice; all of it back is the line exactly, and all lines
\* back the bill's rounded total; no return comes to less than nothing.
ReturnsAddUp ==
    /\ \A i \in DOMAIN bill.lines :
          LET line == bill.lines[i]
              back == returned[i]
          IN  /\ \A k \in Parts : back.parts[k] \in 0 .. line.parts[k]
              /\ Total(back.parts) = Round(Total(line.parts) * back.qty, line.qty)
              /\ back.qty = line.qty => back.parts = line.parts
    /\ givenBack.least >= 0
    /\ (\A i \in DOMAIN bill.lines : returned[i].qty = bill.lines[i].qty) =>
          givenBack.lines + givenBack.roundOff = bill.grandTotal

\* What a bill says is what was charged, and what its returns give back is what was charged.
AmountsAddUp == DiscountsAddUp /\ ReturnsAddUp
============================================================================
