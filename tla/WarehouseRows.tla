---------------------------- MODULE WarehouseRows ----------------------------
(***************************************************************************)
(* The row builders of the warehouse schema (w_*.c, dbgen_version.c).      *)
(*                                                                         *)
(* A table is described by three definitions.  XStreams are its random     *)
(* number streams with the budget column_list.txt gives each, XColumns the *)
(* columns pr_w_x prints, in order, and XRow what mk_w_x does to build     *)
(* row r when the random choices that steer it come out as o:              *)
(*                                                                         *)
(*   draws    how many numbers it takes from each stream;                  *)
(*   fixed    the printed fields it sets only once, or never;              *)
(*   once     the fields it sets only in the first row of a business key;  *)
(*   changes  its calls of changeSCD, in order, each with the data type    *)
(*            that decides how an old value is kept;                       *)
(*   fresh    whether it starts from an empty row (memset).                *)
(*                                                                         *)
(* Every other printed field is computed anew in every row.  Values are    *)
(* left out: RowAccess follows in which row each was computed.             *)
(*                                                                         *)
(* The outcome o is a record: long (the text generator takes its most      *)
(* numbers), gift (an order is shipped to someone else), lines and         *)
(* returned (of a sale), flags (the number that decides what a new version *)
(* of a row changes) and first (it is the first row of the process).       *)
(***************************************************************************)
EXTENDS Integers, Sequences, FiniteSets

\* One function before another, which counts where the first has no value.
f ++ g == [x \in DOMAIN f \cup DOMAIN g |-> IF x \in DOMAIN f THEN f[x] ELSE g[x]]

\* n numbers from each stream of S.
Each(n, S) == [s \in S |-> n]

NoDraws == <<>>

\* Both, one after the other.
Plus(a, b) ==
  [s \in DOMAIN a \cup DOMAIN b |->
    (IF s \in DOMAIN a THEN a[s] ELSE 0) + (IF s \in DOMAIN b THEN b[s] ELSE 0)]

Times(n, a) == [s \in DOMAIN a |-> n * a[s]]

\* gen_text: one number for the length it aims at, then the words of as many
\* sentences as it takes; max is the most for the field's length.
Text(s, max, o) == Each(IF o.long THEN max ELSE 2, {s})

\* nullSet: whether the row has NULLs at all, and which.
NullSet(s) == Each(2, {s})

\* Mutant: the second street name is drawn twice.
MkAddressAgain(s) == Each(8, {s})

\* mk_address: number, two street names, type, suite, city and county; the
\* rest follows from these.
MkAddress(s) == Each(7, {s})

AddressColumns ==
  <<"street_num", "street_name", "street_type", "suite_num", "city", "county",
    "state", "zip", "country", "gmt_offset">>

SetOf(seq) == {seq[i] : i \in DOMAIN seq}

\* setSCDKeys: whether row r is the first of its business key.  Of six rows
\* the keys have one, two and three.
FirstOfKey(r) == r % 6 \in {1, 2, 4}

\* The first row of the key row r has.
KeyStart(r) ==
  CASE FirstOfKey(r) -> r
    [] r % 6 \in {3, 5} -> r - 1
    [] OTHER -> r - 2

\* A row all of whose printed fields but the fixed ones are new.
PlainBut(fixed, draws) ==
  [draws |-> draws, fixed |-> fixed, once |-> {}, changes |-> <<>>, fresh |-> FALSE]

Plain(draws) == PlainBut({}, draws)

-----------------------------------------------------------------------------
(***************************************************************************)
(* Streams, with the numbers a row may take from each (column_list.txt).   *)
(* Streams that no builder draws from are left out.                        *)
(***************************************************************************)
CallCenterStreams ==
  Each(10, {"CC_OPEN_DATE_ID"})
  ++ Each(2, {"CC_CLASS", "CC_MANAGER", "CC_MARKET_MANAGER", "CC_COMPANY",
              "CC_NULLS"})
  ++ Each(1, {"CC_EMPLOYEES", "CC_SQ_FT", "CC_HOURS", "CC_MARKET_ID",
              "CC_TAX_PERCENTAGE", "CC_SCD"})
  ++ Each(50, {"CC_MARKET_CLASS", "CC_MARKET_DESC"})
  ++ Each(15, {"CC_ADDRESS"})

CatalogPageStreams ==
  Each(100, {"CP_DESCRIPTION"})
  ++ Each(2, {"CP_NULLS"})

CatalogReturnsStreams ==
  Each(28, {"CR_RETURNED_DATE_SK", "CR_RETURNED_TIME_SK",
               "CR_RETURNING_CUSTOMER_SK", "CR_NULLS"})
  ++ Each(14, {"CR_RETURNING_CDEMO_SK", "CR_RETURNING_HDEMO_SK",
               "CR_RETURNING_ADDR_SK", "CR_SHIP_MODE_SK", "CR_WAREHOUSE_SK",
               "CR_REASON_SK"})
  ++ Each(70, {"CR_PRICING"})

CatalogSalesStreams ==
  Each(2, {"CS_SOLD_TIME_SK", "CS_SHIP_CUSTOMER_SK"})
  ++ Each(14, {"CS_SHIP_DATE_SK", "CS_SHIP_MODE_SK", "CS_WAREHOUSE_SK",
               "CS_PROMO_SK", "CR_IS_RETURNED"})
  ++ Each(1, {"CS_BILL_CUSTOMER_SK", "CS_BILL_CDEMO_SK", "CS_BILL_HDEMO_SK",
              "CS_BILL_ADDR_SK", "CS_SHIP_CDEMO_SK", "CS_SHIP_HDEMO_SK",
              "CS_SHIP_ADDR_SK", "CS_CALL_CENTER_SK", "CS_SOLD_ITEM_SK",
              "CS_ORDER_NUMBER"})
  ++ Each(42, {"CS_CATALOG_PAGE_SK"})
  ++ Each(112, {"CS_PRICING"})
  ++ Each(0, {"CS_PERMUTE"})
  ++ Each(28, {"CS_NULLS"})

CustomerStreams ==
  Each(1, {"C_CURRENT_CDEMO_SK", "C_CURRENT_HDEMO_SK", "C_CURRENT_ADDR_SK",
              "C_FIRST_SALES_DATE_ID", "C_SALUTATION", "C_FIRST_NAME",
              "C_LAST_NAME", "C_BIRTH_DAY", "C_BIRTH_COUNTRY",
              "C_LAST_REVIEW_DATE"})
  ++ Each(2, {"C_PREFERRED_CUST_FLAG", "C_NULLS"})
  ++ Each(23, {"C_EMAIL_ADDRESS"})

CustomerAddressStreams ==
  Each(1, {"CA_LOCATION_TYPE"})
  ++ Each(2, {"CA_NULLS"})
  ++ Each(7, {"CA_ADDRESS"})

CustomerDemographicsStreams ==
  Each(2, {"CD_NULLS"})

DateStreams ==
  Each(2, {"D_NULLS"})

HouseholdDemographicsStreams ==
  Each(2, {"HD_NULLS"})

IncomeBandStreams ==
  Each(2, {"IB_NULLS"})

InventoryStreams ==
  Each(1, {"INV_QUANTITY_ON_HAND"})
  ++ Each(2, {"INV_NULLS"})

ItemStreams ==
  Each(200, {"I_ITEM_DESC"})
  ++ Each(2, {"I_CURRENT_PRICE", "I_MANUFACT_ID", "I_MANAGER_ID", "I_NULLS",
              "I_PROMO_SK"})
  ++ Each(1, {"I_WHOLESALE_COST", "I_CLASS", "I_CATEGORY", "I_SIZE", "I_COLOR",
              "I_UNITS", "I_SCD"})
  ++ Each(50, {"I_FORMULATION"})

PromotionStreams ==
  Each(1, {"P_START_DATE_ID", "P_END_DATE_ID", "P_ITEM_SK",
              "P_CHANNEL_DMAIL", "P_PURPOSE"})
  ++ Each(100, {"P_CHANNEL_DETAILS"})
  ++ Each(2, {"P_NULLS"})

ReasonStreams ==
  Each(2, {"R_NULLS"})

ShipModeStreams ==
  Each(21, {"SM_CONTRACT"})
  ++ Each(2, {"SM_NULLS"})

StoreStreams ==
  Each(2, {"W_STORE_CLOSED_DATE_ID", "W_STORE_MANAGER",
              "W_STORE_MARKET_MANAGER", "W_STORE_NULLS"})
  ++ Each(1, {"W_STORE_EMPLOYEES", "W_STORE_FLOOR_SPACE", "W_STORE_HOURS",
              "W_STORE_MARKET_ID", "W_STORE_TAX_PERCENTAGE",
              "W_STORE_GEOGRAPHY_CLASS", "W_STORE_DIVISION_NAME",
              "W_STORE_COMPANY_NAME", "W_STORE_TYPE", "W_STORE_SCD"})
  ++ Each(100, {"W_STORE_MARKET_DESC"})
  ++ Each(7, {"W_STORE_ADDRESS"})

StoreReturnsStreams ==
  Each(32, {"SR_RETURNED_DATE_SK", "SR_RETURNED_TIME_SK", "SR_NULLS"})
  ++ Each(16, {"SR_CUSTOMER_SK", "SR_CDEMO_SK", "SR_HDEMO_SK", "SR_ADDR_SK",
               "SR_STORE_SK", "SR_REASON_SK", "SR_TICKET_NUMBER"})
  ++ Each(80, {"SR_PRICING"})

StoreSalesStreams ==
  Each(2, {"SS_SOLD_DATE_SK", "SS_SOLD_TIME_SK"})
  ++ Each(1, {"SS_SOLD_ITEM_SK", "SS_SOLD_CUSTOMER_SK", "SS_SOLD_CDEMO_SK",
              "SS_SOLD_HDEMO_SK", "SS_SOLD_ADDR_SK", "SS_SOLD_STORE_SK",
              "SS_TICKET_NUMBER"})
  ++ Each(16, {"SS_SOLD_PROMO_SK", "SR_IS_RETURNED"})
  ++ Each(128, {"SS_PRICING"})
  ++ Each(32, {"SS_NULLS"})
  ++ Each(0, {"SS_PERMUTATION"})

TimeStreams ==
  Each(2, {"T_NULLS"})

WarehouseStreams ==
  Each(80, {"W_WAREHOUSE_NAME"})
  ++ Each(1, {"W_WAREHOUSE_SQ_FT"})
  ++ Each(2, {"W_NULLS"})
  ++ Each(7, {"W_WAREHOUSE_ADDRESS"})

WebPageStreams ==
  Each(2, {"WP_CREATION_DATE_SK", "WP_NULLS"})
  ++ Each(1, {"WP_ACCESS_DATE_SK", "WP_AUTOGEN_FLAG", "WP_CUSTOMER_SK",
              "WP_TYPE", "WP_CHAR_COUNT", "WP_LINK_COUNT", "WP_IMAGE_COUNT",
              "WP_MAX_AD_COUNT", "WP_SCD"})

WebReturnsStreams ==
  Each(32, {"WR_RETURNED_DATE_SK", "WR_RETURNED_TIME_SK", "WR_NULLS"})
  ++ Each(16, {"WR_REFUNDED_CUSTOMER_SK", "WR_REFUNDED_CDEMO_SK",
               "WR_REFUNDED_HDEMO_SK", "WR_REFUNDED_ADDR_SK",
               "WR_RETURNING_CUSTOMER_SK", "WR_REASON_SK"})
  ++ Each(80, {"WR_PRICING"})

WebSalesStreams ==
  Each(2, {"WS_SOLD_DATE_SK", "WS_SOLD_TIME_SK", "WS_SHIP_CUSTOMER_SK",
              "WS_SHIP_CDEMO_SK"})
  ++ Each(16, {"WS_SHIP_DATE_SK", "WS_WEB_PAGE_SK", "WS_WEB_SITE_SK",
               "WS_SHIP_MODE_SK", "WS_WAREHOUSE_SK", "WS_PROMO_SK",
               "WR_IS_RETURNED"})
  ++ Each(1, {"WS_ITEM_SK", "WS_BILL_CUSTOMER_SK", "WS_BILL_CDEMO_SK",
              "WS_BILL_HDEMO_SK", "WS_BILL_ADDR_SK", "WS_SHIP_HDEMO_SK",
              "WS_SHIP_ADDR_SK", "WS_ORDER_NUMBER"})
  ++ Each(128, {"WS_PRICING"})
  ++ Each(32, {"WS_NULLS"})
  ++ Each(0, {"WS_PERMUTATION"})

WebSiteStreams ==
  Each(1, {"WEB_OPEN_DATE", "WEB_CLOSE_DATE", "WEB_MARKET_ID",
              "WEB_COMPANY_ID", "WEB_TAX_PERCENTAGE"})
  ++ Each(2, {"WEB_MANAGER", "WEB_MARKET_MANAGER", "WEB_NULLS"})
  ++ Each(20, {"WEB_MARKET_CLASS"})
  ++ Each(100, {"WEB_MARKET_DESC"})
  ++ Each(7, {"WEB_ADDRESS"})
  ++ Each(70, {"WEB_SCD"})

-----------------------------------------------------------------------------
(***************************************************************************)
(* Tables that keep the history of their rows.                             *)
(***************************************************************************)
CallCenterColumns ==
  <<"call_center_sk", "call_center_id", "rec_start_date_id", "rec_end_date_id",
    "closed_date_id", "open_date_id", "name", "class", "employees", "sq_ft",
    "hours", "manager", "market_id", "market_class", "market_desc",
    "market_manager", "division_id", "division_name", "company",
    "company_name">> \o AddressColumns \o <<"tax_percentage">>

CallCenterRow(r, o) ==
  [draws |-> NullSet("CC_NULLS")
     ++ (IF FirstOfKey(r) THEN Each(1, {"CC_OPEN_DATE_ID"}) ++ MkAddress("CC_ADDRESS")
                          ELSE NoDraws)
     ++ Each(1, {"CC_SCD", "CC_CLASS", "CC_EMPLOYEES", "CC_SQ_FT", "CC_HOURS",
                 "CC_MARKET_ID", "CC_TAX_PERCENTAGE"})
     ++ Each(2, {"CC_MANAGER", "CC_MARKET_MANAGER", "CC_COMPANY"})
     ++ Text("CC_MARKET_CLASS", 36, o) ++ Text("CC_MARKET_DESC", 50, o),
   fixed |-> {"closed_date_id"},
   once |-> {"open_date_id", "name"} \cup SetOf(AddressColumns),
   changes |->
     <<<<"class", "PTR">>, <<"employees", "INT">>, <<"sq_ft", "INT">>,
       <<"hours", "PTR">>, <<"manager", "CHAR">>, <<"market_id", "INT">>,
       <<"market_class", "CHAR">>, <<"market_desc", "CHAR">>,
       <<"market_manager", "CHAR">>, <<"company", "INT">>,
       <<"division_id", "INT">>, <<"division_name", "CHAR">>,
       <<"company_name", "CHAR">>, <<"tax_percentage", "DEC">>>>,
   fresh |-> FALSE]

ItemColumns ==
  <<"item_sk", "item_id", "rec_start_date_id", "rec_end_date_id", "item_desc",
    "current_price", "wholesale_cost", "brand_id", "brand", "class_id", "class",
    "category_id", "category", "manufact_id", "manufact", "size", "formulation",
    "color", "units", "container", "manager_id", "product_name">>

\* The price is a decimal kept as if it were an int: of an old price only the
\* flags come back, not the number.  The container is drawn from the stream
\* that has the number of the table, which is CC_HOURS.
ItemRow(r, o) ==
  [draws |-> NullSet("I_NULLS")
     ++ Each(2, {"I_MANAGER_ID", "I_CURRENT_PRICE", "I_MANUFACT_ID", "I_PROMO_SK"})
     ++ Each(1, {"I_SCD", "I_WHOLESALE_COST", "I_CATEGORY", "I_CLASS", "I_SIZE",
                 "I_COLOR", "I_UNITS", "CC_HOURS"})
     ++ Text("I_ITEM_DESC", 110, o) ++ Each(23, {"I_FORMULATION"}),
   fixed |-> {},
   once |-> {},
   changes |->
     <<<<"item_desc", "CHAR">>, <<"current_price", "INT OF DEC">>,
       <<"wholesale_cost", "DEC">>, <<"class_id", "KEY">>, <<"brand_id", "KEY">>,
       <<"size", "PTR">>, <<"manufact_id", "KEY">>, <<"manufact", "CHAR">>,
       <<"formulation", "CHAR">>, <<"color", "PTR">>, <<"units", "PTR">>,
       <<"container", "PTR">>>>,
   fresh |-> TRUE]

StoreColumns ==
  <<"store_sk", "store_id", "rec_start_date_id", "rec_end_date_id",
    "closed_date_id", "store_name", "employees", "floor_space", "hours",
    "store_manager", "market_id", "geography_class", "market_desc",
    "market_manager", "division_id", "division_name", "company_id",
    "company_name">> \o AddressColumns \o <<"tax_percentage">>

\* The changeSCD calls for the parts of an address, of which street name 1
\* and 2 are printed as one column.
AddressChanges ==
  <<<<"city", "PTR">>, <<"county", "PTR">>, <<"gmt_offset", "INT">>,
    <<"state", "PTR">>, <<"street_type", "PTR">>, <<"street_name", "PTR">>,
    <<"street_name", "PTR">>, <<"street_num", "INT">>, <<"zip", "INT">>>>

StoreRow(r, o) ==
  [draws |-> NullSet("W_STORE_NULLS")
     ++ Each(1, {"W_STORE_SCD", "W_STORE_TYPE", "W_STORE_EMPLOYEES",
                 "W_STORE_FLOOR_SPACE", "W_STORE_HOURS", "W_STORE_MARKET_ID",
                 "W_STORE_TAX_PERCENTAGE", "W_STORE_GEOGRAPHY_CLASS",
                 "W_STORE_DIVISION_NAME", "W_STORE_COMPANY_NAME"})
     ++ Each(2, {"W_STORE_CLOSED_DATE_ID", "W_STORE_MANAGER",
                 "W_STORE_MARKET_MANAGER"})
     ++ Text("W_STORE_MARKET_DESC", 61, o) ++ MkAddress("W_STORE_ADDRESS"),
   fixed |-> {},
   once |-> {},
   changes |->
     <<<<"closed_date_id", "KEY">>, <<"store_name", "CHAR">>,
       <<"employees", "INT">>, <<"floor_space", "INT">>, <<"hours", "PTR">>,
       <<"store_manager", "CHAR">>, <<"market_id", "INT">>,
       <<"tax_percentage", "DEC">>, <<"geography_class", "PTR">>,
       <<"market_desc", "CHAR">>, <<"market_manager", "CHAR">>,
       <<"division_id", "KEY">>, <<"division_name", "PTR">>,
       <<"company_id", "KEY">>, <<"company_name", "PTR">>>> \o AddressChanges,
   fresh |-> FALSE]

WebPageColumns ==
  <<"page_sk", "page_id", "rec_start_date_id", "rec_end_date_id",
    "creation_date_sk", "access_date_sk", "autogen_flag", "customer_sk", "url",
    "type", "char_count", "link_count", "image_count", "max_ad_count">>

WebPageRow(r, o) ==
  [draws |-> NullSet("WP_NULLS")
     ++ Each(1, {"WP_SCD", "WP_ACCESS_DATE_SK", "WP_AUTOGEN_FLAG",
                 "WP_CUSTOMER_SK", "WP_TYPE", "WP_LINK_COUNT", "WP_IMAGE_COUNT",
                 "WP_MAX_AD_COUNT", "WP_CHAR_COUNT"})
     ++ Each(2, {"WP_CREATION_DATE_SK"}),
   fixed |-> {},
   once |-> {},
   changes |->
     <<<<"creation_date_sk", "KEY">>, <<"access_date_sk", "KEY">>,
       <<"autogen_flag", "INT">>, <<"customer_sk", "KEY">>, <<"url", "CHAR">>,
       <<"type", "PTR">>, <<"link_count", "INT">>, <<"image_count", "INT">>,
       <<"max_ad_count", "INT">>, <<"char_count", "INT">>>>,
   fresh |-> FALSE]

WebSiteColumns ==
  <<"site_sk", "site_id", "rec_start_date_id", "rec_end_date_id", "name",
    "open_date", "close_date", "class", "manager", "market_id", "market_class",
    "market_desc", "market_manager", "company_id", "company_name">>
  \o AddressColumns \o <<"tax_percentage">>

WebSiteRow(r, o) ==
  [draws |-> NullSet("WEB_NULLS")
     ++ (IF FirstOfKey(r) THEN Each(1, {"WEB_OPEN_DATE", "WEB_CLOSE_DATE"})
                          ELSE NoDraws)
     ++ Each(1, {"WEB_SCD", "WEB_MARKET_ID", "WEB_COMPANY_ID",
                 "WEB_TAX_PERCENTAGE"})
     ++ Each(2, {"WEB_MANAGER", "WEB_MARKET_MANAGER"})
     ++ Text("WEB_MARKET_CLASS", 36, o) ++ Text("WEB_MARKET_DESC", 61, o)
     ++ MkAddress("WEB_ADDRESS"),
   fixed |-> {"class"},
   once |-> {"open_date", "close_date", "name"},
   changes |->
     <<<<"manager", "CHAR">>, <<"market_id", "INT">>, <<"market_class", "CHAR">>,
       <<"market_desc", "CHAR">>, <<"market_manager", "CHAR">>,
       <<"company_id", "INT">>, <<"company_name", "CHAR">>>>
     \o AddressChanges \o <<<<"tax_percentage", "DEC">>>>,
   fresh |-> FALSE]

-----------------------------------------------------------------------------
(***************************************************************************)
(* Tables whose rows are computed from the row number, or drawn anew.      *)
(***************************************************************************)
CatalogPageColumns ==
  <<"catalog_page_sk", "catalog_page_id", "start_date_id", "end_date_id",
    "department", "catalog_number", "catalog_page_number", "description", "type">>

CatalogPageRow(r, o) ==
  PlainBut({"department"}, NullSet("CP_NULLS") ++ Text("CP_DESCRIPTION", 61, o))

CustomerColumns ==
  <<"customer_sk", "customer_id", "current_cdemo_sk", "current_hdemo_sk",
    "current_addr_sk", "first_shipto_date_id", "first_sales_date_id",
    "salutation", "first_name", "last_name", "preferred_cust_flag", "birth_day",
    "birth_month", "birth_year", "birth_country", "login", "email_address",
    "last_review_date">>

\* The login is printed but never set.
CustomerRow(r, o) ==
  PlainBut({"login"}, NullSet("C_NULLS")
     ++ Each(1, {"C_PREFERRED_CUST_FLAG", "C_CURRENT_HDEMO_SK",
                 "C_CURRENT_CDEMO_SK", "C_CURRENT_ADDR_SK", "C_FIRST_NAME",
                 "C_LAST_NAME", "C_SALUTATION", "C_BIRTH_DAY",
                 "C_LAST_REVIEW_DATE", "C_FIRST_SALES_DATE_ID",
                 "C_BIRTH_COUNTRY"})
     ++ Each(23, {"C_EMAIL_ADDRESS"}))

CustomerAddressColumns ==
  <<"addr_sk", "addr_id">> \o AddressColumns \o <<"location_type">>

CustomerAddressRow(r, o) ==
  Plain(NullSet("CA_NULLS") ++ Each(1, {"CA_LOCATION_TYPE"}) ++ MkAddress("CA_ADDRESS"))

CustomerDemographicsColumns ==
  <<"demo_sk", "gender", "marital_status", "education_status",
    "purchase_estimate", "credit_rating", "dep_count", "dep_employed_count",
    "dep_college_count">>

CustomerDemographicsRow(r, o) == Plain(NullSet("CD_NULLS"))

HouseholdDemographicsColumns ==
  <<"demo_sk", "income_band_id", "buy_potential", "dep_count", "vehicle_count">>

HouseholdDemographicsRow(r, o) == Plain(NullSet("HD_NULLS"))

IncomeBandColumns == <<"income_band_id", "lower_bound", "upper_bound">>

IncomeBandRow(r, o) == Plain(NullSet("IB_NULLS"))

InventoryColumns == <<"date_sk", "item_sk", "warehouse_sk", "quantity_on_hand">>

InventoryRow(r, o) ==
  Plain(NullSet("INV_NULLS") ++ Each(1, {"INV_QUANTITY_ON_HAND"}))

PromotionColumns ==
  <<"promo_sk", "promo_id", "start_date_id", "end_date_id", "item_sk", "cost",
    "response_target", "promo_name", "channel_dmail", "channel_email",
    "channel_catalog", "channel_tv", "channel_radio", "channel_press",
    "channel_event", "channel_demo", "channel_details", "purpose",
    "discount_active">>

PromotionRow(r, o) ==
  Plain(NullSet("P_NULLS")
    ++ Each(1, {"P_START_DATE_ID", "P_END_DATE_ID", "P_ITEM_SK",
                "P_CHANNEL_DMAIL", "P_PURPOSE"})
    ++ Text("P_CHANNEL_DETAILS", 41, o))

ReasonColumns == <<"reason_sk", "reason_id", "reason_description">>

ReasonRow(r, o) == Plain(NullSet("R_NULLS"))

ShipModeColumns ==
  <<"ship_mode_sk", "ship_mode_id", "type", "code", "carrier", "contract">>

ShipModeRow(r, o) == Plain(NullSet("SM_NULLS") ++ Each(21, {"SM_CONTRACT"}))

TimeColumns ==
  <<"time_sk", "time_id", "time", "hour", "minute", "second", "am_pm", "shift",
    "sub_shift", "meal_time">>

TimeRow(r, o) == Plain(NullSet("T_NULLS"))

WarehouseColumns ==
  <<"warehouse_sk", "warehouse_id", "warehouse_name", "warehouse_sq_ft">>
  \o AddressColumns

WarehouseRow(r, o) ==
  Plain(NullSet("W_NULLS") ++ Text("W_WAREHOUSE_NAME", 21, o)
    ++ Each(1, {"W_WAREHOUSE_SQ_FT"}) ++ MkAddress("W_WAREHOUSE_ADDRESS"))

DateColumns ==
  <<"date_sk", "date_id", "date", "month_seq", "week_seq", "quarter_seq", "year",
    "dow", "moy", "dom", "qoy", "fy_year", "fy_quarter_seq", "fy_week_seq",
    "day_name", "quarter_name", "holiday", "weekend", "following_holiday",
    "first_dom", "last_dom", "same_day_ly", "same_day_lq", "current_day",
    "current_week", "current_month", "current_quarter", "current_year">>

DateRow(r, o) == Plain(NullSet("D_NULLS"))

DbgenVersionColumns == <<"version", "create_date", "create_time", "cmdline_args">>

DbgenVersionRow(r, o) == Plain(NoDraws)

-----------------------------------------------------------------------------
(***************************************************************************)
(* Sales and returns.  A row of a sales table is an order: a master, then  *)
(* o.lines lines of which o.returned are also printed as returns, with a   *)
(* row of the returns table built on the way.                              *)
(***************************************************************************)
PricingColumns ==
  <<"quantity", "wholesale_cost", "list_price", "sales_price",
    "ext_discount_amt", "ext_sales_price", "ext_wholesale_cost",
    "ext_list_price", "ext_tax", "coupon_amt", "ext_ship_cost", "net_paid",
    "net_paid_inc_tax", "net_paid_inc_ship", "net_paid_inc_ship_tax",
    "net_profit">>

ReturnPricingColumns ==
  <<"quantity", "net_paid", "ext_tax", "net_paid_inc_tax", "fee",
    "ext_ship_cost", "refunded_cash", "reversed_charge", "store_credit",
    "net_loss">>

CatalogReturnsColumns ==
  <<"returned_date_sk", "returned_time_sk", "item_sk", "refunded_customer_sk",
    "refunded_cdemo_sk", "refunded_hdemo_sk", "refunded_addr_sk",
    "returning_customer_sk", "returning_cdemo_sk", "returning_hdemo_sk",
    "returning_addr_sk", "call_center_sk", "catalog_page_sk", "ship_mode_sk",
    "warehouse_sk", "reason_sk", "order_number">> \o ReturnPricingColumns

CatalogReturnsRow(r, o) ==
  Plain(NullSet("CR_NULLS")
    ++ Each(2, {"CR_RETURNING_CUSTOMER_SK", "CR_RETURNED_DATE_SK",
                "CR_RETURNED_TIME_SK"})
    ++ Each(1, {"CR_RETURNING_CDEMO_SK", "CR_RETURNING_HDEMO_SK",
                "CR_RETURNING_ADDR_SK", "CR_SHIP_MODE_SK", "CR_WAREHOUSE_SK",
                "CR_REASON_SK"})
    ++ Each(5, {"CR_PRICING"}))

CatalogSalesColumns ==
  <<"sold_date_sk", "sold_time_sk", "ship_date_sk", "bill_customer_sk",
    "bill_cdemo_sk", "bill_hdemo_sk", "bill_addr_sk", "ship_customer_sk",
    "ship_cdemo_sk", "ship_hdemo_sk", "ship_addr_sk", "call_center_sk",
    "catalog_page_sk", "ship_mode_sk", "warehouse_sk", "sold_item_sk",
    "promo_sk", "order_number">> \o PricingColumns

CatalogSalesMaster(o) ==
  (IF o.first THEN Each(1, {"CS_PERMUTE"}) ELSE NoDraws)
  ++ Each(2, {"CS_SOLD_TIME_SK"})
  ++ Each(1, {"CS_CALL_CENTER_SK", "CS_BILL_CUSTOMER_SK", "CS_BILL_CDEMO_SK",
              "CS_BILL_HDEMO_SK", "CS_BILL_ADDR_SK", "CS_SOLD_ITEM_SK"})
  ++ Each(IF o.gift THEN 2 ELSE 1, {"CS_SHIP_CUSTOMER_SK"})
  ++ Each(IF o.gift THEN 1 ELSE 0,
          {"CS_SHIP_CDEMO_SK", "CS_SHIP_HDEMO_SK", "CS_SHIP_ADDR_SK"})

CatalogSalesDetail ==
  Each(1, {"CS_SHIP_DATE_SK", "CS_SHIP_MODE_SK", "CS_WAREHOUSE_SK",
           "CS_PROMO_SK", "CR_IS_RETURNED"})
  ++ Each(2, {"CS_NULLS", "CS_CATALOG_PAGE_SK"}) ++ Each(8, {"CS_PRICING"})

CatalogSalesRow(r, o) ==
  Plain(Plus(CatalogSalesMaster(o) ++ Each(1, {"CS_ORDER_NUMBER"}),
             Plus(Times(o.lines, CatalogSalesDetail),
                  Times(o.returned, CatalogReturnsRow(r, o).draws))))

StoreReturnsColumns ==
  <<"returned_date_sk", "returned_time_sk", "item_sk", "customer_sk", "cdemo_sk",
    "hdemo_sk", "addr_sk", "store_sk", "reason_sk", "ticket_number">>
  \o ReturnPricingColumns

StoreReturnsRow(r, o) ==
  Plain(NullSet("SR_NULLS") ++ Each(2, {"SR_RETURNED_DATE_SK"})
    ++ Each(1, {"SR_CUSTOMER_SK", "SR_TICKET_NUMBER", "SR_RETURNED_TIME_SK",
                "SR_CDEMO_SK", "SR_HDEMO_SK", "SR_ADDR_SK", "SR_STORE_SK",
                "SR_REASON_SK"})
    ++ Each(5, {"SR_PRICING"}))

StoreSalesColumns ==
  <<"sold_date_sk", "sold_time_sk", "sold_item_sk", "sold_customer_sk",
    "sold_cdemo_sk", "sold_hdemo_sk", "sold_addr_sk", "sold_store_sk",
    "sold_promo_sk", "ticket_number", "quantity", "wholesale_cost", "list_price",
    "sales_price", "coupon_amt", "ext_sales_price", "ext_wholesale_cost",
    "ext_list_price", "ext_tax", "coupon_amt", "net_paid", "net_paid_inc_tax",
    "net_profit">>

StoreSalesMaster(o) ==
  (IF o.first THEN Each(1, {"SS_PERMUTATION"}) ELSE NoDraws)
  ++ Each(2, {"SS_SOLD_TIME_SK", "SS_SOLD_DATE_SK"})
  ++ Each(1, {"SS_SOLD_STORE_SK", "SS_SOLD_CUSTOMER_SK", "SS_SOLD_CDEMO_SK",
              "SS_SOLD_HDEMO_SK", "SS_SOLD_ADDR_SK", "SS_SOLD_ITEM_SK"})

StoreSalesDetail ==
  NullSet("SS_NULLS") ++ Each(1, {"SS_SOLD_PROMO_SK", "SR_IS_RETURNED"})
  ++ Each(8, {"SS_PRICING"})

StoreSalesRow(r, o) ==
  Plain(Plus(StoreSalesMaster(o) ++ Each(1, {"SS_TICKET_NUMBER"}),
             Plus(Times(o.lines, StoreSalesDetail),
                  Times(o.returned, StoreReturnsRow(r, o).draws))))

WebReturnsColumns ==
  <<"returned_date_sk", "returned_time_sk", "item_sk", "refunded_customer_sk",
    "refunded_cdemo_sk", "refunded_hdemo_sk", "refunded_addr_sk",
    "returning_customer_sk", "returning_cdemo_sk", "returning_hdemo_sk",
    "returning_addr_sk", "web_page_sk", "reason_sk", "order_number">>
  \o ReturnPricingColumns

WebReturnsRow(r, o) ==
  Plain(NullSet("WR_NULLS")
    ++ Each(2, {"WR_RETURNED_DATE_SK", "WR_RETURNED_TIME_SK"})
    ++ Each(1, {"WR_REFUNDED_CUSTOMER_SK", "WR_REFUNDED_CDEMO_SK",
                "WR_REFUNDED_HDEMO_SK", "WR_REFUNDED_ADDR_SK",
                "WR_RETURNING_CUSTOMER_SK", "WR_REASON_SK"})
    ++ Each(5, {"WR_PRICING"}))

WebSalesColumns ==
  <<"sold_date_sk", "sold_time_sk", "ship_date_sk", "item_sk",
    "bill_customer_sk", "bill_cdemo_sk", "bill_hdemo_sk", "bill_addr_sk",
    "ship_customer_sk", "ship_cdemo_sk", "ship_hdemo_sk", "ship_addr_sk",
    "web_page_sk", "web_site_sk", "ship_mode_sk", "warehouse_sk", "promo_sk",
    "order_number">> \o PricingColumns

WebSalesMaster(o) ==
  Each(2, {"WS_SOLD_DATE_SK", "WS_SOLD_TIME_SK"})
  ++ Each(1, {"WS_BILL_CUSTOMER_SK", "WS_BILL_CDEMO_SK", "WS_BILL_HDEMO_SK",
              "WS_BILL_ADDR_SK", "WS_ITEM_SK"})
  ++ Each(IF o.gift THEN 2 ELSE 1, {"WS_SHIP_CUSTOMER_SK"})
  ++ Each(IF o.gift THEN 1 ELSE 0,
          {"WS_SHIP_CDEMO_SK", "WS_SHIP_HDEMO_SK", "WS_SHIP_ADDR_SK"})

WebSalesDetail ==
  NullSet("WS_NULLS")
  ++ Each(1, {"WS_SHIP_DATE_SK", "WS_WEB_PAGE_SK", "WS_WEB_SITE_SK",
              "WS_SHIP_MODE_SK", "WS_WAREHOUSE_SK", "WS_PROMO_SK",
              "WR_IS_RETURNED"})
  ++ Each(8, {"WS_PRICING"})

WebSalesRow(r, o) ==
  Plain((IF o.first THEN Each(1, {"WS_PERMUTATION"}) ELSE NoDraws)
    ++ Plus(WebSalesMaster(o) ++ Each(1, {"WS_ORDER_NUMBER"}),
            Plus(Times(o.lines, WebSalesDetail),
                 Times(o.returned, WebReturnsRow(r, o).draws))))

-----------------------------------------------------------------------------
(***************************************************************************)
(* The tables by name (w_tdef_funcs).                                      *)
(***************************************************************************)
BudgetsOf ==
  [call_center |-> CallCenterStreams,
   catalog_page |-> CatalogPageStreams,
   catalog_returns |-> CatalogReturnsStreams,
   catalog_sales |-> CatalogSalesStreams,
   customer |-> CustomerStreams,
   customer_address |-> CustomerAddressStreams,
   customer_demographics |-> CustomerDemographicsStreams,
   date_dim |-> DateStreams,
   household_demographics |-> HouseholdDemographicsStreams,
   income_band |-> IncomeBandStreams,
   inventory |-> InventoryStreams,
   item |-> ItemStreams,
   promotion |-> PromotionStreams,
   reason |-> ReasonStreams,
   ship_mode |-> ShipModeStreams,
   store |-> StoreStreams,
   store_returns |-> StoreReturnsStreams,
   store_sales |-> StoreSalesStreams,
   time_dim |-> TimeStreams,
   warehouse |-> WarehouseStreams,
   web_page |-> WebPageStreams,
   web_returns |-> WebReturnsStreams,
   web_sales |-> WebSalesStreams,
   web_site |-> WebSiteStreams,
   dbgen_version |-> NoDraws]

ColumnsOf ==
  [call_center |-> CallCenterColumns,
   catalog_page |-> CatalogPageColumns,
   catalog_returns |-> CatalogReturnsColumns,
   catalog_sales |-> CatalogSalesColumns,
   customer |-> CustomerColumns,
   customer_address |-> CustomerAddressColumns,
   customer_demographics |-> CustomerDemographicsColumns,
   date_dim |-> DateColumns,
   household_demographics |-> HouseholdDemographicsColumns,
   income_band |-> IncomeBandColumns,
   inventory |-> InventoryColumns,
   item |-> ItemColumns,
   promotion |-> PromotionColumns,
   reason |-> ReasonColumns,
   ship_mode |-> ShipModeColumns,
   store |-> StoreColumns,
   store_returns |-> StoreReturnsColumns,
   store_sales |-> StoreSalesColumns,
   time_dim |-> TimeColumns,
   warehouse |-> WarehouseColumns,
   web_page |-> WebPageColumns,
   web_returns |-> WebReturnsColumns,
   web_sales |-> WebSalesColumns,
   web_site |-> WebSiteColumns,
   dbgen_version |-> DbgenVersionColumns]

RowOf(t, r, o) ==
  CASE t = "call_center" -> CallCenterRow(r, o)
    [] t = "catalog_page" -> CatalogPageRow(r, o)
    [] t = "catalog_returns" -> CatalogReturnsRow(r, o)
    [] t = "catalog_sales" -> CatalogSalesRow(r, o)
    [] t = "customer" -> CustomerRow(r, o)
    [] t = "customer_address" -> CustomerAddressRow(r, o)
    [] t = "customer_demographics" -> CustomerDemographicsRow(r, o)
    [] t = "date_dim" -> DateRow(r, o)
    [] t = "household_demographics" -> HouseholdDemographicsRow(r, o)
    [] t = "income_band" -> IncomeBandRow(r, o)
    [] t = "inventory" -> InventoryRow(r, o)
    [] t = "item" -> ItemRow(r, o)
    [] t = "promotion" -> PromotionRow(r, o)
    [] t = "reason" -> ReasonRow(r, o)
    [] t = "ship_mode" -> ShipModeRow(r, o)
    [] t = "store" -> StoreRow(r, o)
    [] t = "store_returns" -> StoreReturnsRow(r, o)
    [] t = "store_sales" -> StoreSalesRow(r, o)
    [] t = "time_dim" -> TimeRow(r, o)
    [] t = "warehouse" -> WarehouseRow(r, o)
    [] t = "web_page" -> WebPageRow(r, o)
    [] t = "web_returns" -> WebReturnsRow(r, o)
    [] t = "web_sales" -> WebSalesRow(r, o)
    [] t = "web_site" -> WebSiteRow(r, o)
    [] t = "dbgen_version" -> DbgenVersionRow(r, o)

WarehouseTables == DOMAIN BudgetsOf
=============================================================================
