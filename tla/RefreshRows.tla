----------------------------- MODULE RefreshRows -----------------------------
(***************************************************************************)
(* The row builders of the refresh schema (s_*.c), which -UPDATE runs, in  *)
(* the form of WarehouseRows.  Some are wrappers: they pick a row of a     *)
(* warehouse table and have its builder build that row; o.sk is the key    *)
(* they pick.  The tables the driver never reaches (FL_NOP) are left out.  *)
(***************************************************************************)
EXTENDS WarehouseRows

\* The numbers for a permutation, drawn with the first row of the process.
Shuffle(s, o) == IF o.first THEN Each(1, {s}) ELSE NoDraws

\* getSKFromID: a key with one version needs no number to pick one.
PickVersion(s, sk) == IF sk % 6 = 1 THEN NoDraws ELSE Each(1, {s})

\* The row of a warehouse table, built by a wrapper that draws on its own.
Wrapped(row, draws) == [row EXCEPT !.draws = Plus(@, draws)]

-----------------------------------------------------------------------------
(***************************************************************************)
(* Streams (column_list.txt).                                              *)
(***************************************************************************)
SCallCenterStreams ==
  Each(1, {"S_CALL_CENTER_ID"})

SCatalogOrderStreams ==
  Each(1, {"S_CORD_BILL_CUSTOMER_ID", "S_CORD_ORDER_TIME",
              "S_CORD_SHIP_MODE_ID", "S_CLIN_ITEM_ID"})
  ++ Each(2, {"S_CORD_SHIP_CUSTOMER_ID"})
  ++ Each(100, {"S_CORD_COMMENT"})

SCatalogOrderLineitemStreams ==
  Each(1, {"S_CLIN_PROMOTION_ID", "S_CLIN_WAREHOUSE_ID", "S_CLIN_SHIP_DATE",
              "S_CLIN_IS_RETURNED"})
  ++ Each(2, {"S_CLIN_CATALOG_PAGE_ID"})
  ++ Each(8, {"S_CLIN_PRICING"})
  ++ Each(0, {"S_CLIN_PERMUTE"})

SCatalogReturnsStreams ==
  Each(9, {"S_CRET_CALL_CENTER_ID", "S_CRET_DATE", "S_CRET_REASON_ID",
              "S_CRET_SHIPMODE_ID", "S_CRET_WAREHOUSE_ID"})
  ++ Each(18, {"S_CRET_TIME"})
  ++ Each(72, {"S_CRET_PRICING"})

SCustomerStreams ==
  Each(0, {"S_CUST_ID"})
  ++ Each(1, {"S_CUST_SALUTATION", "S_CUST_LAST_NAME", "S_CUST_FIRST_NAME",
              "S_CUST_PREFERRED_FLAG", "S_CUST_BIRTH_DATE",
              "S_CUST_FIRST_PURCHASE_DATE", "S_CUST_FIRST_SHIPTO_DATE",
              "S_CUST_LAST_LOGIN", "S_CUST_LAST_REVIEW", "S_CUST_LOCATION_TYPE",
              "S_CUST_GENDER", "S_CUST_PURCHASE_ESTIMATE", "S_CUST_VEHICLE_CNT",
              "S_CUST_INCOME"})
  ++ Each(25, {"S_CUST_LOGIN"})
  ++ Each(23, {"S_CUST_EMAIL"})
  ++ Each(4, {"S_CUST_PRIMARY_MACHINE", "S_CUST_SECONDARY_MACHINE"})

SInventoryStreams ==
  Each(1, {"S_INVN_QUANTITY"})

SItemStreams ==
  Each(1, {"S_ITEM_ID"})
  ++ Each(0, {"S_ITEM_PERMUTE"})

SPromotionStreams ==
  Each(1, {"S_PROMOTION_ID"})

SPurchaseStreams ==
  Each(1, {"S_PURCHASE_STORE_ID", "S_PURCHASE_CUSTOMER_ID",
              "S_PURCHASE_REGISTER", "S_PURCHASE_CLERK", "S_PLINE_ITEM_ID"})
  ++ Each(100, {"S_PURCHASE_COMMENT"})

SPurchaseLineitemStreams ==
  Each(12, {"S_PLINE_PROMOTION_ID", "S_PLINE_QUANTITY", "S_PLINE_IS_RETURNED"})
  ++ Each(1200, {"S_PLINE_COMMENT"})
  ++ Each(96, {"S_PLINE_PRICING"})
  ++ Each(0, {"S_PLINE_PERMUTE"})

SStoreStreams ==
  Each(1, {"S_STORE_ID"})

SStoreReturnsStreams ==
  Each(24, {"S_SRET_RETURN_DATE"})
  ++ Each(12, {"S_SRET_RETURN_TIME", "S_SRET_REASON_ID"})
  ++ Each(84, {"S_SRET_PRICING"})

SWarehouseStreams ==
  Each(1, {"S_WRHS_ID"})

SWebOrderStreams ==
  Each(1, {"S_WORD_BILL_CUSTOMER_ID", "S_WORD_ORDER_TIME",
              "S_WORD_SHIP_MODE_ID", "S_WORD_WEB_SITE_ID", "S_WLIN_ITEM_ID"})
  ++ Each(2, {"S_WORD_SHIP_CUSTOMER_ID"})
  ++ Each(100, {"S_WORD_COMMENT"})

SWebOrderLineitemStreams ==
  Each(12, {"S_WLIN_PROMOTION_ID", "S_WLIN_WAREHOUSE_ID", "S_WLIN_SHIP_DATE",
               "S_WLIN_WEB_PAGE_ID", "S_WLIN_IS_RETURNED"})
  ++ Each(96, {"S_WLIN_PRICING"})
  ++ Each(0, {"S_WLIN_PERMUTE"})

SWebPageStreams ==
  Each(1, {"S_WPAG_ID"})
  ++ Each(0, {"S_WPAG_PERMUTE"})

SWebReturnsStreams ==
  Each(24, {"S_WRET_RETURN_DATE"})
  ++ Each(12, {"S_WRET_RETURN_TIME", "S_WRET_REASON_ID"})
  ++ Each(84, {"S_WRET_PRICING"})

-----------------------------------------------------------------------------
(***************************************************************************)
(* Wrappers of warehouse tables.                                           *)
(***************************************************************************)
SCallCenterColumns ==
  <<"call_center_sk", "open_date_id", "closed_date_id", "name", "class",
    "employees", "sq_ft", "hours", "manager", "tax_percentage">>

SCallCenterRow(r, o) ==
  Wrapped(CallCenterRow(o.sk, o),
    Plus(Shuffle("S_CALL_CENTER_ID", o), PickVersion("S_CALL_CENTER_ID", o.sk)))

SCatalogPageColumns ==
  <<"catalog_number", "catalog_page_number", "department", "catalog_page_id",
    "start_date_id", "end_date_id", "description", "type">>

SCatalogPageRow(r, o) == CatalogPageRow(r, o)

SCustomerAddressColumns ==
  <<"addr_id", "street_num", "street_name", "street_name", "street_type",
    "suite_num", "city", "county", "state", "zip", "country">>

SCustomerAddressRow(r, o) == CustomerAddressRow(r, o)

SItemColumns ==
  <<"item_id", "item_desc", "current_price", "wholesale_cost", "size",
    "formulation", "color", "units", "container", "manager_id">>

SItemRow(r, o) ==
  Wrapped(ItemRow(o.sk, o),
    Shuffle("S_ITEM_PERMUTE", o) ++ PickVersion("S_ITEM_ID", o.sk))

SPromotionColumns ==
  <<"promo_id", "promo_name", "start_date_id", "end_date_id", "cost",
    "response_target", "channel_dmail", "channel_email", "channel_catalog",
    "channel_tv", "channel_radio", "channel_press", "channel_event",
    "channel_demo", "channel_details", "purpose", "discount_active">>

SPromotionRow(r, o) == Wrapped(PromotionRow(o.sk, o), Shuffle("S_PROMOTION_ID", o))

SStoreColumns ==
  <<"store_id", "closed_date_id", "store_name", "employees", "floor_space",
    "hours", "store_manager", "market_id", "geography_class", "market_manager",
    "tax_percentage">>

SStoreRow(r, o) ==
  Wrapped(StoreRow(o.sk, o),
    Plus(Shuffle("S_STORE_ID", o), PickVersion("S_STORE_ID", o.sk)))

SWarehouseColumns == <<"warehouse_id", "warehouse_name", "warehouse_sq_ft">>

SWarehouseRow(r, o) == Wrapped(WarehouseRow(o.sk, o), Shuffle("S_WRHS_ID", o))

SWebPageColumns ==
  <<"page_id", "creation_date_sk", "access_date_sk", "autogen_flag", "url",
    "type", "char_count", "link_count", "image_count", "max_ad_count">>

SWebPageRow(r, o) ==
  Wrapped(WebPageRow(o.sk, o),
    Shuffle("S_WPAG_PERMUTE", o) ++ PickVersion("S_WPAG_ID", o.sk))

\* The table has mk_w_web_site for its builder: rows come in order.
SWebSiteColumns ==
  <<"site_id", "open_date", "close_date", "name", "class", "manager",
    "tax_percentage">>

SWebSiteRow(r, o) == WebSiteRow(r, o)

-----------------------------------------------------------------------------
(***************************************************************************)
(* Customers, stock and time zones.                                        *)
(***************************************************************************)
SCustomerColumns ==
  <<"id", "salutation", "last_name", "first_name", "preferred_flag",
    "birth_date", "birth_country", "login", "email", "last_login",
    "first_shipto_date", "first_purchase_date", "last_review",
    "primary_machine", "secondary_machine", "street_num", "suite_num",
    "street_name", "street_name", "street_type", "city", "zip", "county",
    "state", "country", "location_type", "gender", "marital_status",
    "education", "credit_rating", "purchase_estimate", "buy_potential",
    "dependents", "employed", "college", "vehicles", "income">>

\* The customer has the address of the row with its number.
SCustomerRow(r, o) ==
  [Wrapped(CustomerAddressRow(r, o),
     Shuffle("S_CUST_ID", o)
     ++ Each(1, {"S_CUST_GENDER", "S_CUST_FIRST_NAME", "S_CUST_SALUTATION",
                 "S_CUST_LAST_NAME", "S_CUST_PREFERRED_FLAG",
                 "S_CUST_BIRTH_DATE", "S_CUST_FIRST_PURCHASE_DATE",
                 "S_CUST_FIRST_SHIPTO_DATE", "S_CUST_LAST_LOGIN",
                 "S_CUST_LAST_REVIEW", "S_CUST_LOCATION_TYPE",
                 "S_CUST_VEHICLE_CNT", "S_CUST_INCOME",
                 "S_CUST_PURCHASE_ESTIMATE"})
     ++ Each(14, {"S_CUST_LOGIN"}) ++ Each(23, {"S_CUST_EMAIL"})
     ++ Each(4, {"S_CUST_PRIMARY_MACHINE", "S_CUST_SECONDARY_MACHINE"}))
   EXCEPT !.fixed = {"birth_country"}]

SInventoryColumns == <<"warehouse_id", "item_id", "date", "quantity">>

SInventoryRow(r, o) == Plain(Each(1, {"S_INVN_QUANTITY"}))

SZipColumns == <<"zip", "gmt_offset">>

SZipRow(r, o) == Plain(NoDraws)

\* arGMTOffset: zip code ranges by their last code, with the offset from
\* Greenwich; -99 for codes that are not in use.
ZipRanges ==
  <<<<599, -99>>, <<33999, -5>>, <<34999, -6>>, <<34095, -5>>, <<36999, -6>>,
    <<38599, -5>>, <<39999, -6>>, <<41799, -5>>, <<42799, -6>>, <<47999, -5>>,
    <<49999, -5>>, <<57499, -6>>, <<57999, -7>>, <<58499, -6>>, <<58499, -7>>,
    <<59999, -7>>, <<68999, -6>>, <<69999, -7>>, <<78999, -6>>, <<83699, -7>>,
    <<83999, -8>>, <<88999, -7>>, <<96699, -8>>, <<96899, -10>>,
    <<99499, -8>>, <<99999, -9>>>>

\* mk_s_zip: row r is zip code r - 1, which gets the offset of the first range
\* that does not end before it; its result says whether the row is printed.
GmtOffset(r) ==
  ZipRanges[CHOOSE i \in DOMAIN ZipRanges :
              /\ r - 1 <= ZipRanges[i][1]
              /\ \A j \in 1..(i - 1) : r - 1 > ZipRanges[j][1]][2]

ZipIsPrinted(r) == GmtOffset(r) # -99

-----------------------------------------------------------------------------
(***************************************************************************)
(* Orders, with their lines and returns.  An order always has all its      *)
(* lines, o.returned of which are returned.                                *)
(***************************************************************************)
SCatalogOrderColumns ==
  <<"id", "bill_customer_id", "ship_customer_id", "order_date", "order_time",
    "ship_mode_id", "call_center_id", "comment">>

SCatalogOrderLineitemColumns ==
  <<"order_id", "line_number", "item_id", "promotion_id", "quantity",
    "sales_price", "coupon_amt", "warehouse_id", "ship_date", "catalog_id",
    "catalog_page_id", "ship_cost">>

SCatalogReturnsColumns ==
  <<"call_center_id", "order_id", "line_number", "item_id",
    "return_customer_id", "refund_customer_id", "date", "time", "quantity",
    "net_paid", "ext_tax", "fee", "ext_ship_cost", "refunded_cash",
    "reversed_charge", "store_credit", "reason_id", "ship_mode_id",
    "warehouse_id", "catalog_page_id">>

SCatalogOrderMaster(o) ==
  Each(1, {"S_CORD_ORDER_TIME", "S_CORD_BILL_CUSTOMER_ID",
           "S_CORD_SHIP_MODE_ID"})
  ++ Each(IF o.gift THEN 2 ELSE 1, {"S_CORD_SHIP_CUSTOMER_ID"})
  ++ Text("S_CORD_COMMENT", 61, o)

SCatalogOrderLineitem ==
  Each(1, {"S_CLIN_PROMOTION_ID", "S_CLIN_WAREHOUSE_ID", "S_CLIN_SHIP_DATE"})
  ++ Each(2, {"S_CLIN_CATALOG_PAGE_ID"}) ++ Each(8, {"S_CLIN_PRICING"})

SCatalogOrderDetail == Each(1, {"S_CLIN_IS_RETURNED"}) ++ SCatalogOrderLineitem

SCatalogReturnsRow(r, o) ==
  Plain(Each(1, {"S_CRET_DATE", "S_CRET_CALL_CENTER_ID", "S_CRET_REASON_ID",
                 "S_CRET_SHIPMODE_ID", "S_CRET_WAREHOUSE_ID"})
    ++ Each(2, {"S_CRET_TIME"}) ++ Each(1, {"S_CRET_PRICING"}))

CatalogOrderLines == 9

SCatalogOrderRow(r, o) ==
  PlainBut({"call_center_id"}, Shuffle("S_CLIN_PERMUTE", o)
     ++ Plus(SCatalogOrderMaster(o) ++ Each(1, {"S_CLIN_ITEM_ID"}),
             Plus(Times(CatalogOrderLines, SCatalogOrderDetail),
                  Times(o.returned, SCatalogReturnsRow(r, o).draws))))

SPurchaseColumns ==
  <<"id", "store_id", "customer_id", "date", "time", "register", "clerk",
    "comment">>

SPurchaseLineitemColumns ==
  <<"purchase_id", "line_number", "item_id", "promotion_id", "quantity",
    "sales_price", "coupon_amt", "comment">>

SStoreReturnsColumns ==
  <<"store_id", "purchase_id", "line_number", "item_id", "customer_id", "date",
    "time", "ticket_number", "quantity", "sales_price", "ext_tax", "fee",
    "ext_ship_cost", "refunded_cash", "reversed_charge", "store_credit",
    "reason_id">>

SPurchaseMaster(o) ==
  Each(1, {"S_PURCHASE_STORE_ID", "S_PURCHASE_CUSTOMER_ID",
           "S_PURCHASE_REGISTER", "S_PURCHASE_CLERK"})
  ++ Text("S_PURCHASE_COMMENT", 61, o)

SPurchaseLineitem(o) ==
  Each(1, {"S_PLINE_PROMOTION_ID", "S_PLINE_QUANTITY"})
  ++ Each(8, {"S_PLINE_PRICING"}) ++ Text("S_PLINE_COMMENT", 61, o)

SPurchaseDetail(o) == Each(1, {"S_PLINE_IS_RETURNED"}) ++ SPurchaseLineitem(o)

SStoreReturnsRow(r, o) ==
  Plain(Each(1, {"S_SRET_RETURN_DATE", "S_SRET_REASON_ID", "S_SRET_PRICING"})
    ++ Each(2, {"S_SRET_RETURN_TIME"}))

PurchaseLines == 12

SPurchaseRow(r, o) ==
  PlainBut({"time"}, Shuffle("S_PLINE_PERMUTE", o)
     ++ Plus(SPurchaseMaster(o) ++ Each(1, {"S_PLINE_ITEM_ID"}),
             Plus(Times(PurchaseLines, SPurchaseDetail(o)),
                  Times(o.returned, SStoreReturnsRow(r, o).draws))))

SWebOrderColumns ==
  <<"id", "bill_customer_id", "ship_customer_id", "order_date", "order_time",
    "ship_mode_id", "web_site_id", "comment">>

SWebOrderLineitemColumns ==
  <<"order_id", "line_number", "item_id", "promotion_id", "quantity",
    "sales_price", "coupon_amt", "warehouse_id", "ship_date", "ship_cost",
    "web_page_id">>

SWebReturnsColumns ==
  <<"site_id", "order_id", "line_number", "item_id", "returning_customer_id",
    "refunded_customer_id", "date", "time", "quantity", "ext_sales_price",
    "ext_tax", "fee", "ext_ship_cost", "refunded_cash", "reversed_charge",
    "store_credit", "reason_id">>

SWebOrderMaster(o) ==
  Each(1, {"S_WORD_ORDER_TIME", "S_WORD_BILL_CUSTOMER_ID",
           "S_WORD_SHIP_MODE_ID", "S_WORD_WEB_SITE_ID"})
  ++ Each(IF o.gift THEN 2 ELSE 1, {"S_WORD_SHIP_CUSTOMER_ID"})
  ++ Text("S_WORD_COMMENT", 61, o)

SWebOrderLineitem ==
  Each(1, {"S_WLIN_PROMOTION_ID", "S_WLIN_WAREHOUSE_ID", "S_WLIN_SHIP_DATE",
           "S_WLIN_WEB_PAGE_ID"})
  ++ Each(8, {"S_WLIN_PRICING"})

SWebOrderDetail == Each(1, {"S_WLIN_IS_RETURNED"}) ++ SWebOrderLineitem

\* The reason is drawn twice, and the second one kept.
SWebReturnsRow(r, o) ==
  Plain(Each(1, {"S_WRET_RETURN_DATE", "S_WRET_PRICING"})
    ++ Each(2, {"S_WRET_RETURN_TIME", "S_WRET_REASON_ID"}))

WebOrderLines == 12

SWebOrderRow(r, o) ==
  Plain(Shuffle("S_WLIN_PERMUTE", o)
    ++ Plus(SWebOrderMaster(o) ++ Each(1, {"S_WLIN_ITEM_ID"}),
            Plus(Times(WebOrderLines, SWebOrderDetail),
                 Times(o.returned, SWebReturnsRow(r, o).draws))))

-----------------------------------------------------------------------------
(***************************************************************************)
(* The tables by name (s_tdef_funcs), children with their parents'.        *)
(***************************************************************************)
RefreshBudgetsOf ==
  [s_call_center |-> SCallCenterStreams,
   s_catalog_order |-> SCatalogOrderStreams,
   s_catalog_order_lineitem |-> SCatalogOrderLineitemStreams,
   s_catalog_page |-> NoDraws,
   s_catalog_returns |-> SCatalogReturnsStreams,
   s_customer |-> SCustomerStreams,
   s_customer_address |-> NoDraws,
   s_inventory |-> SInventoryStreams,
   s_item |-> SItemStreams,
   s_promotion |-> SPromotionStreams,
   s_purchase |-> SPurchaseStreams,
   s_purchase_lineitem |-> SPurchaseLineitemStreams,
   s_store |-> SStoreStreams,
   s_store_returns |-> SStoreReturnsStreams,
   s_warehouse |-> SWarehouseStreams,
   s_web_order |-> SWebOrderStreams,
   s_web_order_lineitem |-> SWebOrderLineitemStreams,
   s_web_page |-> SWebPageStreams,
   s_web_returns |-> SWebReturnsStreams,
   s_web_site |-> NoDraws,
   s_zip_to_gmt |-> NoDraws]

RefreshColumnsOf ==
  [s_call_center |-> SCallCenterColumns,
   s_catalog_order |-> SCatalogOrderColumns,
   s_catalog_order_lineitem |-> SCatalogOrderLineitemColumns,
   s_catalog_page |-> SCatalogPageColumns,
   s_catalog_returns |-> SCatalogReturnsColumns,
   s_customer |-> SCustomerColumns,
   s_customer_address |-> SCustomerAddressColumns,
   s_inventory |-> SInventoryColumns,
   s_item |-> SItemColumns,
   s_promotion |-> SPromotionColumns,
   s_purchase |-> SPurchaseColumns,
   s_purchase_lineitem |-> SPurchaseLineitemColumns,
   s_store |-> SStoreColumns,
   s_store_returns |-> SStoreReturnsColumns,
   s_warehouse |-> SWarehouseColumns,
   s_web_order |-> SWebOrderColumns,
   s_web_order_lineitem |-> SWebOrderLineitemColumns,
   s_web_page |-> SWebPageColumns,
   s_web_returns |-> SWebReturnsColumns,
   s_web_site |-> SWebSiteColumns,
   s_zip_to_gmt |-> SZipColumns]

RefreshRowOf(t, r, o) ==
  CASE t = "s_call_center" -> SCallCenterRow(r, o)
    [] t = "s_catalog_order" -> SCatalogOrderRow(r, o)
    [] t = "s_catalog_page" -> SCatalogPageRow(r, o)
    [] t = "s_customer" -> SCustomerRow(r, o)
    [] t = "s_customer_address" -> SCustomerAddressRow(r, o)
    [] t = "s_inventory" -> SInventoryRow(r, o)
    [] t = "s_item" -> SItemRow(r, o)
    [] t = "s_promotion" -> SPromotionRow(r, o)
    [] t = "s_purchase" -> SPurchaseRow(r, o)
    [] t = "s_store" -> SStoreRow(r, o)
    [] t = "s_warehouse" -> SWarehouseRow(r, o)
    [] t = "s_web_order" -> SWebOrderRow(r, o)
    [] t = "s_web_page" -> SWebPageRow(r, o)
    [] t = "s_web_site" -> SWebSiteRow(r, o)
    [] t = "s_zip_to_gmt" -> SZipRow(r, o)

RefreshTables == DOMAIN RefreshBudgetsOf
=============================================================================
