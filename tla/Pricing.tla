------------------------------ MODULE Pricing ------------------------------
(***************************************************************************)
(* The amounts of a sale and of its return (pricing.c, over the decimals   *)
(* of decimal.c).  A sale is priced from a quantity and seven drawn        *)
(* decimals; a return starts from a copy of its sale, with a quantity of   *)
(* its own.  Refresh returns ask set_pricing too, for a table it does      *)
(* nothing for.                                                            *)
(***************************************************************************)
EXTENDS Integers

CONSTANTS
  Channels,     \* price limits: the greatest quantity and markup of each
  Quantities, Wholesales, Markups, Discounts, Coupons,
  Shippings, Taxes, Percents, Fees
                \* numbers drawn, in hundredths but for quantities and percents

\* What is drawn is not negative; a discount or a coupon is no more than the whole,
\* and neither is what a return pays back in one way.
ASSUME PricingAssumption ==
  /\ Quantities \subseteq Nat \ {0} /\ Wholesales \subseteq Nat /\ Markups \subseteq Nat
  /\ Discounts \subseteq 0 .. 100 /\ Coupons \subseteq 0 .. 100 /\ Percents \subseteq 0 .. 100
  /\ Shippings \subseteq Nat /\ Taxes \subseteq Nat /\ Fees \subseteq Nat

VARIABLES
  sale,         \* ds_pricing_t of the sale
  refund        \* ds_pricing_t of its return

pricingVars == <<sale, refund>>

-----------------------------------------------------------------------------
(***************************************************************************)
(* decimal.c: an integer and how many of its digits are decimals.  A       *)
(* result has the greater precision of its operands; a product drops the   *)
(* digits beyond it.                                                       *)
(***************************************************************************)
Dec(number, precision) == [number |-> number, precision |-> precision]
Hundredths(number) == Dec(number, 2)
IToDec(n) == Dec(n, 0)

Wider(a, b) == IF a.precision > b.precision THEN a.precision ELSE b.precision

Plus(a, b)  == Dec(a.number + b.number, Wider(a, b))
Minus(a, b) == Dec(a.number - b.number, Wider(a, b))
Times(a, b) ==
  Dec((a.number * b.number) \div 10 ^ (a.precision + b.precision - Wider(a, b)),
      Wider(a, b))
Over(a, b) ==
  LET p == Wider(a, b) IN
  Dec((a.number * 10 ^ (p - a.precision) * 10 ^ p)
        \div (b.number * 10 ^ (p - b.precision)), p)

Zero == Hundredths(0)
One == Hundredths(100)
Half == Hundredths(50)
Hundred == Hundredths(10000)

-----------------------------------------------------------------------------
(***************************************************************************)
(* set_pricing.                                                            *)
(***************************************************************************)
\* What sales and returns both compute, once the goods are paid net.
Totals(net, quantity, listPrice, shipping, tax) ==
  LET shipCost == Times(listPrice, shipping)
      extShip == Times(shipCost, IToDec(quantity))
      extTax == Times(net, tax)
  IN  [ext_ship_cost |-> extShip, ext_tax |-> extTax, net_paid |-> net,
       net_paid_inc_ship |-> Plus(net, extShip),
       net_paid_inc_tax |-> Plus(net, extTax),
       net_paid_inc_ship_tax |-> Plus(Plus(net, extShip), extTax)]

\* Half and 9 percent are the limits of shipping and tax; a coupon may be worth
\* all of the sale: CS_COUPON_MAX and its like are read and never used.
PriceSale(quantity, wholesale, markup, discount, coupon, shipping, tax) ==
  LET n == IToDec(quantity)
      list == Times(wholesale, Plus(markup, One))
      price == Times(list, Minus(One, discount))
      extSales == Times(price, n)
      extCoupon == Times(extSales, coupon)
      totals == Totals(Minus(extSales, extCoupon), quantity, list, shipping, tax)
  IN  [quantity |-> quantity, wholesale_cost |-> wholesale, list_price |-> list,
       sales_price |-> price, tax_pct |-> tax, coupon_amt |-> extCoupon,
       ext_wholesale_cost |-> Times(n, wholesale),
       ext_list_price |-> Times(list, n), ext_sales_price |-> extSales,
       ext_discount_amt |-> Minus(Times(list, n), extSales),
       totals |-> totals,
       net_profit |-> Minus(totals.net_paid, Times(n, wholesale)),
       refunded_cash |-> Zero, reversed_charge |-> Zero, store_credit |-> Zero,
       fee |-> Zero, net_loss |-> Zero]

\* Mutant: what goes to the card is a part of the whole, not of what the cash leaves.
PriceReturnTwice(p, shipping, cashPct, creditPct, fee) ==
  LET n == IToDec(p.quantity)
      extSales == Times(p.sales_price, n)
      totals == Totals(extSales, p.quantity, p.list_price, shipping, p.tax_pct)
      cash == Times(Over(IToDec(cashPct), Hundred), extSales)
      charge == Times(extSales, Over(IToDec(creditPct), Hundred))
      credit == Minus(Minus(extSales, charge), cash)
  IN  [p EXCEPT
        !.totals = totals, !.refunded_cash = cash, !.reversed_charge = charge,
        !.store_credit = credit, !.fee = fee,
        !.net_loss = Plus(Minus(Minus(Minus(totals.net_paid_inc_ship_tax, credit),
                                      cash), charge), fee)]

\* Nothing is taken off a return for the coupon of its sale.
PriceReturn(p, shipping, cashPct, creditPct, fee) ==
  LET n == IToDec(p.quantity)
      extSales == Times(p.sales_price, n)
      totals == Totals(extSales, p.quantity, p.list_price, shipping, p.tax_pct)
      cash == Times(Over(IToDec(cashPct), Hundred), extSales)
      charge == Times(Minus(extSales, cash), Over(IToDec(creditPct), Hundred))
      credit == Minus(Minus(extSales, charge), cash)
  IN  [p EXCEPT
        !.ext_wholesale_cost = Times(n, p.wholesale_cost),
        !.ext_list_price = Times(p.list_price, n), !.ext_sales_price = extSales,
        !.totals = totals,
        !.net_profit = Minus(extSales, Times(n, p.wholesale_cost)),
        !.refunded_cash = cash, !.reversed_charge = charge,
        !.store_credit = credit, !.fee = fee,
        !.net_loss = Plus(Minus(Minus(Minus(totals.net_paid_inc_ship_tax, credit),
                                      cash), charge), fee)]

-----------------------------------------------------------------------------
NoPricing == [quantity |-> 0]

PricingInit == sale = NoPricing /\ refund = [kind |-> "none"]

Sell ==
  \E c \in DOMAIN Channels :
    \E quantity \in Quantities \cap (1 .. Channels[c].quantity),
       markup \in Markups \cap (0 .. Channels[c].markup),
       wholesale \in Wholesales, discount \in Discounts,
       coupon \in Coupons \cup {0}, shipping \in Shippings, tax \in Taxes :
      /\ sale' = PriceSale(quantity, Hundredths(wholesale), Hundredths(markup),
                           Hundredths(discount), Hundredths(coupon),
                           Hundredths(shipping), Hundredths(tax))
      /\ refund' = [kind |-> "none"]

ReturnSale ==
  /\ sale # NoPricing /\ refund.kind = "none"
  /\ \E quantity \in Quantities \cap (1 .. sale.quantity), shipping \in Shippings,
        cashPct \in Percents, creditPct \in Percents \ {0}, fee \in Fees :
       refund' = [kind |-> "return", of |->
         PriceReturn([sale EXCEPT !.quantity = quantity], Hundredths(shipping),
                     cashPct, creditPct, Hundredths(fee))]
  /\ UNCHANGED sale

\* S_CRET_PRICING and its like are not in the switch of set_pricing: every
\* amount stays the line item's.
RefreshReturn ==
  /\ sale # NoPricing /\ refund.kind = "none"
  /\ \E quantity \in Quantities \cap (1 .. sale.quantity) :
       refund' = [kind |-> "refresh return",
                  of |-> [sale EXCEPT !.quantity = quantity]]
  /\ UNCHANGED sale

\* A program starts the next sale when it is done with this one.
NextSale ==
  /\ refund.kind # "none"
  /\ sale' = NoPricing /\ refund' = [kind |-> "none"]

PricingNext ==
  \/ sale = NoPricing /\ Sell
  \/ ReturnSale \/ RefreshReturn \/ NextSale

PricingSpec == PricingInit /\ [][PricingNext]_pricingVars

-----------------------------------------------------------------------------
PricingTypeOK ==
  /\ sale = NoPricing \/ sale.quantity \in Nat \ {0}
  /\ refund.kind \in {"none", "return", "refresh return"}

Cents(d) == IF d.precision = 2 THEN d.number ELSE 10 ^ (2 - d.precision) * d.number

\* Truncation at every step of a price never makes the parts of a row disagree
\* (pricing.c: set_pricing): a discount is between nothing and the list price
\* and a coupon no more than the sale; what a return pays back in cash,
\* to the card and in credit is what its goods sold for, no part negative and
\* no more than that of the sale, and the loss is the tax, the shipping and the
\* fee.  Refresh returns are excepted: their amounts are their sale's.
PaymentsAddUp ==
  /\ sale # NoPricing =>
       /\ 0 <= Cents(sale.ext_discount_amt)
       /\ Cents(sale.ext_discount_amt) + Cents(sale.ext_sales_price)
            = Cents(sale.list_price) * sale.quantity
       /\ Cents(sale.coupon_amt) + Cents(sale.totals.net_paid)
            = Cents(sale.sales_price) * sale.quantity
       /\ 0 <= Cents(sale.totals.net_paid)
       /\ Cents(sale.totals.net_paid_inc_ship_tax)
            - Cents(sale.totals.net_paid_inc_ship)
            = Cents(sale.totals.net_paid_inc_tax) - Cents(sale.totals.net_paid)
  /\ refund.kind = "return" =>
       LET r == refund.of
           back == {r.refunded_cash, r.reversed_charge, r.store_credit} IN
       /\ \A part \in back : Cents(part) >= 0
       /\ Cents(r.refunded_cash) + Cents(r.reversed_charge) + Cents(r.store_credit)
            = Cents(r.sales_price) * r.quantity
       /\ Cents(r.totals.net_paid) <= Cents(sale.totals.net_paid) + Cents(sale.coupon_amt)
       /\ Cents(r.net_loss) = Cents(r.totals.ext_tax) + Cents(r.totals.ext_ship_cost)
                                + Cents(r.fee)
=============================================================================
