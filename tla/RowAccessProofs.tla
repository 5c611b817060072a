--------------------------- MODULE RowAccessProofs ---------------------------
(***************************************************************************)
(* How dsdgen gets at a row, proved of every session, every set of tables  *)
(* to validate, every number of rows and every way the choices of the rows *)
(* come out.                                                               *)
(*                                                                         *)
(* The argument has four layers.  The builders: each row draws, of every   *)
(* stream that is kept within its budget, no more than the budget          *)
(* (RowFits).  Types and budgets: Shape and Known are inductive.           *)
(* Histories: the memory holds values of one business key only             *)
(* (Historical).  Rows: a process that builds a whole table is, stream by  *)
(* stream, in the state of the reference; a chunk, or a row that           *)
(* validation shows, is begun where row_skip computes that the reference   *)
(* has the streams that show, which is right because row_stop ends each of *)
(* its rows there (Accessed).                                              *)
(***************************************************************************)
EXTENDS RowAccess, Recursion

-----------------------------------------------------------------------------
(***************************************************************************)
(* The budgets: how many numbers of each stream a row may take.            *)
(***************************************************************************)

\* The streams of call_center.
LEMMA CallCenterBudgets ==
  CallCenterStreams =
    [s \in {"CC_OPEN_DATE_ID", "CC_CLASS", "CC_MANAGER",
            "CC_MARKET_MANAGER", "CC_COMPANY", "CC_NULLS",
            "CC_EMPLOYEES", "CC_SQ_FT", "CC_HOURS", "CC_MARKET_ID",
            "CC_TAX_PERCENTAGE", "CC_SCD", "CC_MARKET_CLASS",
            "CC_MARKET_DESC", "CC_ADDRESS"} |->
       CASE s \in {"CC_OPEN_DATE_ID"} -> 10
         [] s \in {"CC_CLASS", "CC_MANAGER", "CC_MARKET_MANAGER",
                      "CC_COMPANY", "CC_NULLS"} -> 2
         [] s \in {"CC_EMPLOYEES", "CC_SQ_FT", "CC_HOURS",
                      "CC_MARKET_ID", "CC_TAX_PERCENTAGE", "CC_SCD"} -> 1
         [] s \in {"CC_MARKET_CLASS", "CC_MARKET_DESC"} -> 50
         [] OTHER -> 15]
  BY DEF CallCenterStreams, Each, ++

\* The streams of catalog_page.
LEMMA CatalogPageBudgets ==
  CatalogPageStreams =
    [s \in {"CP_DESCRIPTION", "CP_NULLS"} |->
       CASE s \in {"CP_DESCRIPTION"} -> 100
         [] OTHER -> 2]
  BY DEF CatalogPageStreams, Each, ++

\* The streams of catalog_returns.
LEMMA CatalogReturnsBudgets ==
  CatalogReturnsStreams =
    [s \in {"CR_RETURNED_DATE_SK", "CR_RETURNED_TIME_SK",
            "CR_RETURNING_CUSTOMER_SK", "CR_NULLS",
            "CR_RETURNING_CDEMO_SK", "CR_RETURNING_HDEMO_SK",
            "CR_RETURNING_ADDR_SK", "CR_SHIP_MODE_SK",
            "CR_WAREHOUSE_SK", "CR_REASON_SK", "CR_PRICING"} |->
       CASE s \in {"CR_RETURNED_DATE_SK", "CR_RETURNED_TIME_SK",
                      "CR_RETURNING_CUSTOMER_SK", "CR_NULLS"} -> 28
         [] s \in {"CR_RETURNING_CDEMO_SK", "CR_RETURNING_HDEMO_SK",
                      "CR_RETURNING_ADDR_SK", "CR_SHIP_MODE_SK",
                      "CR_WAREHOUSE_SK", "CR_REASON_SK"} -> 14
         [] OTHER -> 70]
  BY DEF CatalogReturnsStreams, Each, ++

\* The streams of catalog_sales.
LEMMA CatalogSalesBudgets ==
  CatalogSalesStreams =
    [s \in {"CS_SOLD_TIME_SK", "CS_SHIP_CUSTOMER_SK", "CS_SHIP_DATE_SK",
            "CS_SHIP_MODE_SK", "CS_WAREHOUSE_SK", "CS_PROMO_SK",
            "CR_IS_RETURNED", "CS_BILL_CUSTOMER_SK", "CS_BILL_CDEMO_SK",
            "CS_BILL_HDEMO_SK", "CS_BILL_ADDR_SK", "CS_SHIP_CDEMO_SK",
            "CS_SHIP_HDEMO_SK", "CS_SHIP_ADDR_SK", "CS_CALL_CENTER_SK",
            "CS_SOLD_ITEM_SK", "CS_ORDER_NUMBER", "CS_CATALOG_PAGE_SK",
            "CS_PRICING", "CS_PERMUTE", "CS_NULLS"} |->
       CASE s \in {"CS_SOLD_TIME_SK", "CS_SHIP_CUSTOMER_SK"} -> 2
         [] s \in {"CS_SHIP_DATE_SK", "CS_SHIP_MODE_SK",
                      "CS_WAREHOUSE_SK", "CS_PROMO_SK", "CR_IS_RETURNED"} -> 14
         [] s \in {"CS_BILL_CUSTOMER_SK", "CS_BILL_CDEMO_SK",
                      "CS_BILL_HDEMO_SK", "CS_BILL_ADDR_SK",
                      "CS_SHIP_CDEMO_SK", "CS_SHIP_HDEMO_SK",
                      "CS_SHIP_ADDR_SK", "CS_CALL_CENTER_SK",
                      "CS_SOLD_ITEM_SK", "CS_ORDER_NUMBER"} -> 1
         [] s \in {"CS_CATALOG_PAGE_SK"} -> 42
         [] s \in {"CS_PRICING"} -> 112
         [] s \in {"CS_PERMUTE"} -> 0
         [] OTHER -> 28]
  BY DEF CatalogSalesStreams, Each, ++

\* The streams of customer.
LEMMA CustomerBudgets ==
  CustomerStreams =
    [s \in {"C_CURRENT_CDEMO_SK", "C_CURRENT_HDEMO_SK",
            "C_CURRENT_ADDR_SK", "C_FIRST_SALES_DATE_ID",
            "C_SALUTATION", "C_FIRST_NAME", "C_LAST_NAME",
            "C_BIRTH_DAY", "C_BIRTH_COUNTRY", "C_LAST_REVIEW_DATE",
            "C_PREFERRED_CUST_FLAG", "C_NULLS", "C_EMAIL_ADDRESS"} |->
       CASE s \in {"C_CURRENT_CDEMO_SK", "C_CURRENT_HDEMO_SK",
                      "C_CURRENT_ADDR_SK", "C_FIRST_SALES_DATE_ID",
                      "C_SALUTATION", "C_FIRST_NAME", "C_LAST_NAME",
                      "C_BIRTH_DAY", "C_BIRTH_COUNTRY",
                      "C_LAST_REVIEW_DATE"} -> 1
         [] s \in {"C_PREFERRED_CUST_FLAG", "C_NULLS"} -> 2
         [] OTHER -> 23]
  BY DEF CustomerStreams, Each, ++

\* The streams of customer_address.
LEMMA CustomerAddressBudgets ==
  CustomerAddressStreams =
    [s \in {"CA_LOCATION_TYPE", "CA_NULLS", "CA_ADDRESS"} |->
       CASE s \in {"CA_LOCATION_TYPE"} -> 1
         [] s \in {"CA_NULLS"} -> 2
         [] OTHER -> 7]
  BY DEF CustomerAddressStreams, Each, ++

\* The streams of customer_demographics.
LEMMA CustomerDemographicsBudgets ==
  CustomerDemographicsStreams =
    [s \in {"CD_NULLS"} |->
       2]
  BY DEF CustomerDemographicsStreams, Each

\* The streams of date_dim.
LEMMA DateBudgets ==
  DateStreams =
    [s \in {"D_NULLS"} |->
       2]
  BY DEF DateStreams, Each

\* The streams of household_demographics.
LEMMA HouseholdDemographicsBudgets ==
  HouseholdDemographicsStreams =
    [s \in {"HD_NULLS"} |->
       2]
  BY DEF HouseholdDemographicsStreams, Each

\* The streams of income_band.
LEMMA IncomeBandBudgets ==
  IncomeBandStreams =
    [s \in {"IB_NULLS"} |->
       2]
  BY DEF IncomeBandStreams, Each

\* The streams of inventory.
LEMMA InventoryBudgets ==
  InventoryStreams =
    [s \in {"INV_QUANTITY_ON_HAND", "INV_NULLS"} |->
       CASE s \in {"INV_QUANTITY_ON_HAND"} -> 1
         [] OTHER -> 2]
  BY DEF InventoryStreams, Each, ++

\* The streams of item.
LEMMA ItemBudgets ==
  ItemStreams =
    [s \in {"I_ITEM_DESC", "I_CURRENT_PRICE", "I_MANUFACT_ID",
            "I_MANAGER_ID", "I_NULLS", "I_PROMO_SK", "I_WHOLESALE_COST",
            "I_CLASS", "I_CATEGORY", "I_SIZE", "I_COLOR", "I_UNITS",
            "I_SCD", "I_FORMULATION"} |->
       CASE s \in {"I_ITEM_DESC"} -> 200
         [] s \in {"I_CURRENT_PRICE", "I_MANUFACT_ID",
                      "I_MANAGER_ID", "I_NULLS", "I_PROMO_SK"} -> 2
         [] s \in {"I_WHOLESALE_COST", "I_CLASS", "I_CATEGORY",
                      "I_SIZE", "I_COLOR", "I_UNITS", "I_SCD"} -> 1
         [] OTHER -> 50]
  BY DEF ItemStreams, Each, ++

\* The streams of promotion.
LEMMA PromotionBudgets ==
  PromotionStreams =
    [s \in {"P_START_DATE_ID", "P_END_DATE_ID", "P_ITEM_SK",
            "P_CHANNEL_DMAIL", "P_PURPOSE", "P_CHANNEL_DETAILS",
            "P_NULLS"} |->
       CASE s \in {"P_START_DATE_ID", "P_END_DATE_ID", "P_ITEM_SK",
                      "P_CHANNEL_DMAIL", "P_PURPOSE"} -> 1
         [] s \in {"P_CHANNEL_DETAILS"} -> 100
         [] OTHER -> 2]
  BY DEF PromotionStreams, Each, ++

\* The streams of reason.
LEMMA ReasonBudgets ==
  ReasonStreams =
    [s \in {"R_NULLS"} |->
       2]
  BY DEF ReasonStreams, Each

\* The streams of s_call_center.
LEMMA SCallCenterBudgets ==
  SCallCenterStreams =
    [s \in {"S_CALL_CENTER_ID"} |->
       1]
  BY DEF SCallCenterStreams, Each

\* The streams of s_catalog_order.
LEMMA SCatalogOrderBudgets ==
  SCatalogOrderStreams =
    [s \in {"S_CORD_BILL_CUSTOMER_ID", "S_CORD_ORDER_TIME",
            "S_CORD_SHIP_MODE_ID", "S_CLIN_ITEM_ID",
            "S_CORD_SHIP_CUSTOMER_ID", "S_CORD_COMMENT"} |->
       CASE s \in {"S_CORD_BILL_CUSTOMER_ID", "S_CORD_ORDER_TIME",
                      "S_CORD_SHIP_MODE_ID", "S_CLIN_ITEM_ID"} -> 1
         [] s \in {"S_CORD_SHIP_CUSTOMER_ID"} -> 2
         [] OTHER -> 100]
  BY DEF SCatalogOrderStreams, Each, ++

\* The streams of s_catalog_order_lineitem.
LEMMA SCatalogOrderLineitemBudgets ==
  SCatalogOrderLineitemStreams =
    [s \in {"S_CLIN_PROMOTION_ID", "S_CLIN_WAREHOUSE_ID",
            "S_CLIN_SHIP_DATE", "S_CLIN_IS_RETURNED",
            "S_CLIN_CATALOG_PAGE_ID", "S_CLIN_PRICING", "S_CLIN_PERMUTE"} |->
       CASE s \in {"S_CLIN_PROMOTION_ID", "S_CLIN_WAREHOUSE_ID",
                      "S_CLIN_SHIP_DATE", "S_CLIN_IS_RETURNED"} -> 1
         [] s \in {"S_CLIN_CATALOG_PAGE_ID"} -> 2
         [] s \in {"S_CLIN_PRICING"} -> 8
         [] OTHER -> 0]
  BY DEF SCatalogOrderLineitemStreams, Each, ++

\* The streams of s_catalog_returns.
LEMMA SCatalogReturnsBudgets ==
  SCatalogReturnsStreams =
    [s \in {"S_CRET_CALL_CENTER_ID", "S_CRET_DATE", "S_CRET_REASON_ID",
            "S_CRET_SHIPMODE_ID", "S_CRET_WAREHOUSE_ID", "S_CRET_TIME",
            "S_CRET_PRICING"} |->
       CASE s \in {"S_CRET_CALL_CENTER_ID", "S_CRET_DATE",
                      "S_CRET_REASON_ID", "S_CRET_SHIPMODE_ID",
                      "S_CRET_WAREHOUSE_ID"} -> 9
         [] s \in {"S_CRET_TIME"} -> 18
         [] OTHER -> 72]
  BY DEF SCatalogReturnsStreams, Each, ++

\* The streams of s_customer.
LEMMA SCustomerBudgets ==
  SCustomerStreams =
    [s \in {"S_CUST_ID", "S_CUST_SALUTATION", "S_CUST_LAST_NAME",
            "S_CUST_FIRST_NAME", "S_CUST_PREFERRED_FLAG",
            "S_CUST_BIRTH_DATE", "S_CUST_FIRST_PURCHASE_DATE",
            "S_CUST_FIRST_SHIPTO_DATE", "S_CUST_LAST_LOGIN",
            "S_CUST_LAST_REVIEW", "S_CUST_LOCATION_TYPE",
            "S_CUST_GENDER", "S_CUST_PURCHASE_ESTIMATE",
            "S_CUST_VEHICLE_CNT", "S_CUST_INCOME", "S_CUST_LOGIN",
            "S_CUST_EMAIL", "S_CUST_PRIMARY_MACHINE",
            "S_CUST_SECONDARY_MACHINE"} |->
       CASE s \in {"S_CUST_ID"} -> 0
         [] s \in {"S_CUST_SALUTATION", "S_CUST_LAST_NAME",
                      "S_CUST_FIRST_NAME", "S_CUST_PREFERRED_FLAG",
                      "S_CUST_BIRTH_DATE", "S_CUST_FIRST_PURCHASE_DATE",
                      "S_CUST_FIRST_SHIPTO_DATE", "S_CUST_LAST_LOGIN",
                      "S_CUST_LAST_REVIEW", "S_CUST_LOCATION_TYPE",
                      "S_CUST_GENDER", "S_CUST_PURCHASE_ESTIMATE",
                      "S_CUST_VEHICLE_CNT", "S_CUST_INCOME"} -> 1
         [] s \in {"S_CUST_LOGIN"} -> 25
         [] s \in {"S_CUST_EMAIL"} -> 23
         [] OTHER -> 4]
  BY DEF SCustomerStreams, Each, ++

\* The streams of s_inventory.
LEMMA SInventoryBudgets ==
  SInventoryStreams =
    [s \in {"S_INVN_QUANTITY"} |->
       1]
  BY DEF SInventoryStreams, Each

\* The streams of s_item.
LEMMA SItemBudgets ==
  SItemStreams =
    [s \in {"S_ITEM_ID", "S_ITEM_PERMUTE"} |->
       CASE s \in {"S_ITEM_ID"} -> 1
         [] OTHER -> 0]
  BY DEF SItemStreams, Each, ++

\* The streams of s_promotion.
LEMMA SPromotionBudgets ==
  SPromotionStreams =
    [s \in {"S_PROMOTION_ID"} |->
       1]
  BY DEF SPromotionStreams, Each

\* The streams of s_purchase.
LEMMA SPurchaseBudgets ==
  SPurchaseStreams =
    [s \in {"S_PURCHASE_STORE_ID", "S_PURCHASE_CUSTOMER_ID",
            "S_PURCHASE_REGISTER", "S_PURCHASE_CLERK",
            "S_PLINE_ITEM_ID", "S_PURCHASE_COMMENT"} |->
       CASE s \in {"S_PURCHASE_STORE_ID", "S_PURCHASE_CUSTOMER_ID",
                      "S_PURCHASE_REGISTER", "S_PURCHASE_CLERK",
                      "S_PLINE_ITEM_ID"} -> 1
         [] OTHER -> 100]
  BY DEF SPurchaseStreams, Each, ++

\* The streams of s_purchase_lineitem.
LEMMA SPurchaseLineitemBudgets ==
  SPurchaseLineitemStreams =
    [s \in {"S_PLINE_PROMOTION_ID", "S_PLINE_QUANTITY",
            "S_PLINE_IS_RETURNED", "S_PLINE_COMMENT", "S_PLINE_PRICING",
            "S_PLINE_PERMUTE"} |->
       CASE s \in {"S_PLINE_PROMOTION_ID", "S_PLINE_QUANTITY",
                      "S_PLINE_IS_RETURNED"} -> 12
         [] s \in {"S_PLINE_COMMENT"} -> 1200
         [] s \in {"S_PLINE_PRICING"} -> 96
         [] OTHER -> 0]
  BY DEF SPurchaseLineitemStreams, Each, ++

\* The streams of s_store.
LEMMA SStoreBudgets ==
  SStoreStreams =
    [s \in {"S_STORE_ID"} |->
       1]
  BY DEF SStoreStreams, Each

\* The streams of s_store_returns.
LEMMA SStoreReturnsBudgets ==
  SStoreReturnsStreams =
    [s \in {"S_SRET_RETURN_DATE", "S_SRET_RETURN_TIME",
            "S_SRET_REASON_ID", "S_SRET_PRICING"} |->
       CASE s \in {"S_SRET_RETURN_DATE"} -> 24
         [] s \in {"S_SRET_RETURN_TIME", "S_SRET_REASON_ID"} -> 12
         [] OTHER -> 84]
  BY DEF SStoreReturnsStreams, Each, ++

\* The streams of s_warehouse.
LEMMA SWarehouseBudgets ==
  SWarehouseStreams =
    [s \in {"S_WRHS_ID"} |->
       1]
  BY DEF SWarehouseStreams, Each

\* The streams of s_web_order.
LEMMA SWebOrderBudgets ==
  SWebOrderStreams =
    [s \in {"S_WORD_BILL_CUSTOMER_ID", "S_WORD_ORDER_TIME",
            "S_WORD_SHIP_MODE_ID", "S_WORD_WEB_SITE_ID",
            "S_WLIN_ITEM_ID", "S_WORD_SHIP_CUSTOMER_ID",
            "S_WORD_COMMENT"} |->
       CASE s \in {"S_WORD_BILL_CUSTOMER_ID", "S_WORD_ORDER_TIME",
                      "S_WORD_SHIP_MODE_ID", "S_WORD_WEB_SITE_ID",
                      "S_WLIN_ITEM_ID"} -> 1
         [] s \in {"S_WORD_SHIP_CUSTOMER_ID"} -> 2
         [] OTHER -> 100]
  BY DEF SWebOrderStreams, Each, ++

\* The streams of s_web_order_lineitem.
LEMMA SWebOrderLineitemBudgets ==
  SWebOrderLineitemStreams =
    [s \in {"S_WLIN_PROMOTION_ID", "S_WLIN_WAREHOUSE_ID",
            "S_WLIN_SHIP_DATE", "S_WLIN_WEB_PAGE_ID",
            "S_WLIN_IS_RETURNED", "S_WLIN_PRICING", "S_WLIN_PERMUTE"} |->
       CASE s \in {"S_WLIN_PROMOTION_ID", "S_WLIN_WAREHOUSE_ID",
                      "S_WLIN_SHIP_DATE", "S_WLIN_WEB_PAGE_ID",
                      "S_WLIN_IS_RETURNED"} -> 12
         [] s \in {"S_WLIN_PRICING"} -> 96
         [] OTHER -> 0]
  BY DEF SWebOrderLineitemStreams, Each, ++

\* The streams of s_web_page.
LEMMA SWebPageBudgets ==
  SWebPageStreams =
    [s \in {"S_WPAG_ID", "S_WPAG_PERMUTE"} |->
       CASE s \in {"S_WPAG_ID"} -> 1
         [] OTHER -> 0]
  BY DEF SWebPageStreams, Each, ++

\* The streams of s_web_returns.
LEMMA SWebReturnsBudgets ==
  SWebReturnsStreams =
    [s \in {"S_WRET_RETURN_DATE", "S_WRET_RETURN_TIME",
            "S_WRET_REASON_ID", "S_WRET_PRICING"} |->
       CASE s \in {"S_WRET_RETURN_DATE"} -> 24
         [] s \in {"S_WRET_RETURN_TIME", "S_WRET_REASON_ID"} -> 12
         [] OTHER -> 84]
  BY DEF SWebReturnsStreams, Each, ++

\* The streams of ship_mode.
LEMMA ShipModeBudgets ==
  ShipModeStreams =
    [s \in {"SM_CONTRACT", "SM_NULLS"} |->
       CASE s \in {"SM_CONTRACT"} -> 21
         [] OTHER -> 2]
  BY DEF ShipModeStreams, Each, ++

\* The streams of store.
LEMMA StoreBudgets ==
  StoreStreams =
    [s \in {"W_STORE_CLOSED_DATE_ID", "W_STORE_MANAGER",
            "W_STORE_MARKET_MANAGER", "W_STORE_NULLS",
            "W_STORE_EMPLOYEES", "W_STORE_FLOOR_SPACE", "W_STORE_HOURS",
            "W_STORE_MARKET_ID", "W_STORE_TAX_PERCENTAGE",
            "W_STORE_GEOGRAPHY_CLASS", "W_STORE_DIVISION_NAME",
            "W_STORE_COMPANY_NAME", "W_STORE_TYPE", "W_STORE_SCD",
            "W_STORE_MARKET_DESC", "W_STORE_ADDRESS"} |->
       CASE s \in {"W_STORE_CLOSED_DATE_ID", "W_STORE_MANAGER",
                      "W_STORE_MARKET_MANAGER", "W_STORE_NULLS"} -> 2
         [] s \in {"W_STORE_EMPLOYEES", "W_STORE_FLOOR_SPACE",
                      "W_STORE_HOURS", "W_STORE_MARKET_ID",
                      "W_STORE_TAX_PERCENTAGE",
                      "W_STORE_GEOGRAPHY_CLASS",
                      "W_STORE_DIVISION_NAME", "W_STORE_COMPANY_NAME",
                      "W_STORE_TYPE", "W_STORE_SCD"} -> 1
         [] s \in {"W_STORE_MARKET_DESC"} -> 100
         [] OTHER -> 7]
  BY DEF StoreStreams, Each, ++

\* The streams of store_returns.
LEMMA StoreReturnsBudgets ==
  StoreReturnsStreams =
    [s \in {"SR_RETURNED_DATE_SK", "SR_RETURNED_TIME_SK", "SR_NULLS",
            "SR_CUSTOMER_SK", "SR_CDEMO_SK", "SR_HDEMO_SK",
            "SR_ADDR_SK", "SR_STORE_SK", "SR_REASON_SK",
            "SR_TICKET_NUMBER", "SR_PRICING"} |->
       CASE s \in {"SR_RETURNED_DATE_SK", "SR_RETURNED_TIME_SK",
                      "SR_NULLS"} -> 32
         [] s \in {"SR_CUSTOMER_SK", "SR_CDEMO_SK", "SR_HDEMO_SK",
                      "SR_ADDR_SK", "SR_STORE_SK", "SR_REASON_SK",
                      "SR_TICKET_NUMBER"} -> 16
         [] OTHER -> 80]
  BY DEF StoreReturnsStreams, Each, ++

\* The streams of store_sales.
LEMMA StoreSalesBudgets ==
  StoreSalesStreams =
    [s \in {"SS_SOLD_DATE_SK", "SS_SOLD_TIME_SK", "SS_SOLD_ITEM_SK",
            "SS_SOLD_CUSTOMER_SK", "SS_SOLD_CDEMO_SK",
            "SS_SOLD_HDEMO_SK", "SS_SOLD_ADDR_SK", "SS_SOLD_STORE_SK",
            "SS_TICKET_NUMBER", "SS_SOLD_PROMO_SK", "SR_IS_RETURNED",
            "SS_PRICING", "SS_NULLS", "SS_PERMUTATION"} |->
       CASE s \in {"SS_SOLD_DATE_SK", "SS_SOLD_TIME_SK"} -> 2
         [] s \in {"SS_SOLD_ITEM_SK", "SS_SOLD_CUSTOMER_SK",
                      "SS_SOLD_CDEMO_SK", "SS_SOLD_HDEMO_SK",
                      "SS_SOLD_ADDR_SK", "SS_SOLD_STORE_SK",
                      "SS_TICKET_NUMBER"} -> 1
         [] s \in {"SS_SOLD_PROMO_SK", "SR_IS_RETURNED"} -> 16
         [] s \in {"SS_PRICING"} -> 128
         [] s \in {"SS_NULLS"} -> 32
         [] OTHER -> 0]
  BY DEF StoreSalesStreams, Each, ++

\* The streams of time_dim.
LEMMA TimeBudgets ==
  TimeStreams =
    [s \in {"T_NULLS"} |->
       2]
  BY DEF TimeStreams, Each

\* The streams of warehouse.
LEMMA WarehouseBudgets ==
  WarehouseStreams =
    [s \in {"W_WAREHOUSE_NAME", "W_WAREHOUSE_SQ_FT", "W_NULLS",
            "W_WAREHOUSE_ADDRESS"} |->
       CASE s \in {"W_WAREHOUSE_NAME"} -> 80
         [] s \in {"W_WAREHOUSE_SQ_FT"} -> 1
         [] s \in {"W_NULLS"} -> 2
         [] OTHER -> 7]
  BY DEF WarehouseStreams, Each, ++

\* The streams of web_page.
LEMMA WebPageBudgets ==
  WebPageStreams =
    [s \in {"WP_CREATION_DATE_SK", "WP_NULLS", "WP_ACCESS_DATE_SK",
            "WP_AUTOGEN_FLAG", "WP_CUSTOMER_SK", "WP_TYPE",
            "WP_CHAR_COUNT", "WP_LINK_COUNT", "WP_IMAGE_COUNT",
            "WP_MAX_AD_COUNT", "WP_SCD"} |->
       CASE s \in {"WP_CREATION_DATE_SK", "WP_NULLS"} -> 2
         [] OTHER -> 1]
  BY DEF WebPageStreams, Each, ++

\* The streams of web_returns.
LEMMA WebReturnsBudgets ==
  WebReturnsStreams =
    [s \in {"WR_RETURNED_DATE_SK", "WR_RETURNED_TIME_SK", "WR_NULLS",
            "WR_REFUNDED_CUSTOMER_SK", "WR_REFUNDED_CDEMO_SK",
            "WR_REFUNDED_HDEMO_SK", "WR_REFUNDED_ADDR_SK",
            "WR_RETURNING_CUSTOMER_SK", "WR_REASON_SK", "WR_PRICING"} |->
       CASE s \in {"WR_RETURNED_DATE_SK", "WR_RETURNED_TIME_SK",
                      "WR_NULLS"} -> 32
         [] s \in {"WR_REFUNDED_CUSTOMER_SK", "WR_REFUNDED_CDEMO_SK",
                      "WR_REFUNDED_HDEMO_SK", "WR_REFUNDED_ADDR_SK",
                      "WR_RETURNING_CUSTOMER_SK", "WR_REASON_SK"} -> 16
         [] OTHER -> 80]
  BY DEF WebReturnsStreams, Each, ++

\* The streams of web_sales.
LEMMA WebSalesBudgets ==
  WebSalesStreams =
    [s \in {"WS_SOLD_DATE_SK", "WS_SOLD_TIME_SK", "WS_SHIP_CUSTOMER_SK",
            "WS_SHIP_CDEMO_SK", "WS_SHIP_DATE_SK", "WS_WEB_PAGE_SK",
            "WS_WEB_SITE_SK", "WS_SHIP_MODE_SK", "WS_WAREHOUSE_SK",
            "WS_PROMO_SK", "WR_IS_RETURNED", "WS_ITEM_SK",
            "WS_BILL_CUSTOMER_SK", "WS_BILL_CDEMO_SK",
            "WS_BILL_HDEMO_SK", "WS_BILL_ADDR_SK", "WS_SHIP_HDEMO_SK",
            "WS_SHIP_ADDR_SK", "WS_ORDER_NUMBER", "WS_PRICING",
            "WS_NULLS", "WS_PERMUTATION"} |->
       CASE s \in {"WS_SOLD_DATE_SK", "WS_SOLD_TIME_SK",
                      "WS_SHIP_CUSTOMER_SK", "WS_SHIP_CDEMO_SK"} -> 2
         [] s \in {"WS_SHIP_DATE_SK", "WS_WEB_PAGE_SK",
                      "WS_WEB_SITE_SK", "WS_SHIP_MODE_SK",
                      "WS_WAREHOUSE_SK", "WS_PROMO_SK", "WR_IS_RETURNED"} -> 16
         [] s \in {"WS_ITEM_SK", "WS_BILL_CUSTOMER_SK",
                      "WS_BILL_CDEMO_SK", "WS_BILL_HDEMO_SK",
                      "WS_BILL_ADDR_SK", "WS_SHIP_HDEMO_SK",
                      "WS_SHIP_ADDR_SK", "WS_ORDER_NUMBER"} -> 1
         [] s \in {"WS_PRICING"} -> 128
         [] s \in {"WS_NULLS"} -> 32
         [] OTHER -> 0]
  BY DEF WebSalesStreams, Each, ++

\* The streams of web_site.
LEMMA WebSiteBudgets ==
  WebSiteStreams =
    [s \in {"WEB_OPEN_DATE", "WEB_CLOSE_DATE", "WEB_MARKET_ID",
            "WEB_COMPANY_ID", "WEB_TAX_PERCENTAGE", "WEB_MANAGER",
            "WEB_MARKET_MANAGER", "WEB_NULLS", "WEB_MARKET_CLASS",
            "WEB_MARKET_DESC", "WEB_ADDRESS", "WEB_SCD"} |->
       CASE s \in {"WEB_OPEN_DATE", "WEB_CLOSE_DATE",
                      "WEB_MARKET_ID", "WEB_COMPANY_ID",
                      "WEB_TAX_PERCENTAGE"} -> 1
         [] s \in {"WEB_MANAGER", "WEB_MARKET_MANAGER", "WEB_NULLS"} -> 2
         [] s \in {"WEB_MARKET_CLASS"} -> 20
         [] s \in {"WEB_MARKET_DESC"} -> 100
         [] s \in {"WEB_ADDRESS"} -> 7
         [] OTHER -> 70]
  BY DEF WebSiteStreams, Each, ++

-----------------------------------------------------------------------------
(***************************************************************************)
(* What the builders draw, within the budgets of one table.                *)
(***************************************************************************)

\* A row takes of each stream no more than the budgets B allow.
AtMost(d, B) == \A s \in DOMAIN d : s \in DOMAIN B /\ d[s] \in 0..B[s]

\* Two draws within the budgets stay within them together.
LEMMA AtMostBoth ==
  ASSUME NEW d, NEW e, NEW B, AtMost(d, B), AtMost(e, B)
  PROVE  AtMost(d ++ e, B)
  BY DEF AtMost, ++

\* A row of call_center takes no more of them.
LEMMA CallCenterDraws ==
  ASSUME NEW r, NEW o
  PROVE  AtMost(CallCenterRow(r, o).draws, CallCenterStreams)
<1>1. AtMost(NullSet("CC_NULLS"), CallCenterStreams)
  BY CallCenterBudgets DEF AtMost, Each, NullSet
<1>2. AtMost(IF FirstOfKey(r) THEN Each(1,
                {"CC_OPEN_DATE_ID"}) ++ MkAddress("CC_ADDRESS") ELSE NoDraws, CallCenterStreams)
  BY CallCenterBudgets DEF AtMost, Each, MkAddress, NoDraws, ++
<1>3. AtMost(Each(1, {"CC_SCD", "CC_CLASS", "CC_EMPLOYEES", "CC_SQ_FT",
                "CC_HOURS", "CC_MARKET_ID", "CC_TAX_PERCENTAGE"}), CallCenterStreams)
  BY CallCenterBudgets DEF AtMost, Each
<1>4. AtMost(Each(2, {"CC_MANAGER", "CC_MARKET_MANAGER", "CC_COMPANY"}), CallCenterStreams)
  BY CallCenterBudgets DEF AtMost, Each
<1>5. AtMost(Text("CC_MARKET_CLASS", 36, o), CallCenterStreams)
  BY CallCenterBudgets DEF AtMost, Each, Text
<1>6. AtMost(Text("CC_MARKET_DESC", 50, o), CallCenterStreams)
  BY CallCenterBudgets DEF AtMost, Each, Text
<1> QED  BY <1>1, <1>2, <1>3, <1>4, <1>5, <1>6, AtMostBoth DEF CallCenterRow

\* A row of catalog_page takes no more of them.
LEMMA CatalogPageDraws ==
  ASSUME NEW r, NEW o
  PROVE  AtMost(CatalogPageRow(r, o).draws, CatalogPageStreams)
<1>1. AtMost(NullSet("CP_NULLS"), CatalogPageStreams)
  BY CatalogPageBudgets DEF AtMost, Each, NullSet
<1>2. AtMost(Text("CP_DESCRIPTION", 61, o), CatalogPageStreams)
  BY CatalogPageBudgets DEF AtMost, Each, Text
<1> QED  BY <1>1, <1>2, AtMostBoth DEF CatalogPageRow, Plain, PlainBut

\* A row of customer takes no more of them.
LEMMA CustomerDraws ==
  ASSUME NEW r, NEW o
  PROVE  AtMost(CustomerRow(r, o).draws, CustomerStreams)
<1>1. AtMost(NullSet("C_NULLS"), CustomerStreams)
  BY CustomerBudgets DEF AtMost, Each, NullSet
<1>2. AtMost(Each(1, {"C_PREFERRED_CUST_FLAG", "C_CURRENT_HDEMO_SK",
                "C_CURRENT_CDEMO_SK", "C_CURRENT_ADDR_SK", "C_FIRST_NAME",
                "C_LAST_NAME", "C_SALUTATION", "C_BIRTH_DAY",
                "C_LAST_REVIEW_DATE", "C_FIRST_SALES_DATE_ID",
                "C_BIRTH_COUNTRY"}), CustomerStreams)
  BY CustomerBudgets DEF AtMost, Each
<1>3. AtMost(Each(23, {"C_EMAIL_ADDRESS"}), CustomerStreams)
  BY CustomerBudgets DEF AtMost, Each
<1> QED  BY <1>1, <1>2, <1>3, AtMostBoth DEF CustomerRow, Plain, PlainBut

\* A row of customer_address takes no more of them.
LEMMA CustomerAddressDraws ==
  ASSUME NEW r, NEW o
  PROVE  AtMost(CustomerAddressRow(r, o).draws, CustomerAddressStreams)
<1>1. AtMost(NullSet("CA_NULLS"), CustomerAddressStreams)
  BY CustomerAddressBudgets DEF AtMost, Each, NullSet
<1>2. AtMost(Each(1, {"CA_LOCATION_TYPE"}), CustomerAddressStreams)
  BY CustomerAddressBudgets DEF AtMost, Each
<1>3. AtMost(MkAddress("CA_ADDRESS"), CustomerAddressStreams)
  BY CustomerAddressBudgets DEF AtMost, Each, MkAddress
<1> QED  BY <1>1, <1>2, <1>3, AtMostBoth DEF CustomerAddressRow, Plain, PlainBut

\* A row of customer_demographics takes no more of them.
LEMMA CustomerDemographicsDraws ==
  ASSUME NEW r, NEW o
  PROVE  AtMost(CustomerDemographicsRow(r, o).draws, CustomerDemographicsStreams)
  BY CustomerDemographicsBudgets DEF CustomerDemographicsRow, Plain, PlainBut, AtMost, Each,
     NullSet

\* A row of date_dim takes no more of them.
LEMMA DateDraws ==
  ASSUME NEW r, NEW o
  PROVE  AtMost(DateRow(r, o).draws, DateStreams)
  BY DateBudgets DEF DateRow, Plain, PlainBut, AtMost, Each, NullSet

\* A row of household_demographics takes no more of them.
LEMMA HouseholdDemographicsDraws ==
  ASSUME NEW r, NEW o
  PROVE  AtMost(HouseholdDemographicsRow(r, o).draws, HouseholdDemographicsStreams)
  BY HouseholdDemographicsBudgets DEF HouseholdDemographicsRow, Plain, PlainBut, AtMost,
     Each, NullSet

\* A row of income_band takes no more of them.
LEMMA IncomeBandDraws ==
  ASSUME NEW r, NEW o
  PROVE  AtMost(IncomeBandRow(r, o).draws, IncomeBandStreams)
  BY IncomeBandBudgets DEF IncomeBandRow, Plain, PlainBut, AtMost, Each, NullSet

\* A row of inventory takes no more of them.
LEMMA InventoryDraws ==
  ASSUME NEW r, NEW o
  PROVE  AtMost(InventoryRow(r, o).draws, InventoryStreams)
<1>1. AtMost(NullSet("INV_NULLS"), InventoryStreams)
  BY InventoryBudgets DEF AtMost, Each, NullSet
<1>2. AtMost(Each(1, {"INV_QUANTITY_ON_HAND"}), InventoryStreams)
  BY InventoryBudgets DEF AtMost, Each
<1> QED  BY <1>1, <1>2, AtMostBoth DEF InventoryRow, Plain, PlainBut

\* A row of item takes no more of them.
LEMMA ItemDraws ==
  ASSUME NEW r, NEW o
  PROVE  AtMost(ItemRow(r, o).draws, Each(1, {"CC_HOURS"}) ++ ItemStreams)
<1> DEFINE B == Each(1, {"CC_HOURS"}) ++ ItemStreams
<1>1. AtMost(NullSet("I_NULLS"), B)
  BY ItemBudgets DEF AtMost, Each, NullSet, ++
<1>2. AtMost(Each(2, {"I_MANAGER_ID", "I_CURRENT_PRICE", "I_MANUFACT_ID",
                "I_PROMO_SK"}), B)
  BY ItemBudgets DEF AtMost, Each, ++
<1>3. AtMost(Each(1, {"I_SCD", "I_WHOLESALE_COST", "I_CATEGORY", "I_CLASS",
                "I_SIZE", "I_COLOR", "I_UNITS", "CC_HOURS"}), B)
  BY ItemBudgets DEF AtMost, Each, ++
<1>4. AtMost(Text("I_ITEM_DESC", 110, o), B)
  BY ItemBudgets DEF AtMost, Each, Text, ++
<1>5. AtMost(Each(23, {"I_FORMULATION"}), B)
  BY ItemBudgets DEF AtMost, Each, ++
<1> QED  BY <1>1, <1>2, <1>3, <1>4, <1>5, AtMostBoth DEF ItemRow

\* A row of promotion takes no more of them.
LEMMA PromotionDraws ==
  ASSUME NEW r, NEW o
  PROVE  AtMost(PromotionRow(r, o).draws, PromotionStreams)
<1>1. AtMost(NullSet("P_NULLS"), PromotionStreams)
  BY PromotionBudgets DEF AtMost, Each, NullSet
<1>2. AtMost(Each(1, {"P_START_DATE_ID", "P_END_DATE_ID", "P_ITEM_SK",
                "P_CHANNEL_DMAIL", "P_PURPOSE"}), PromotionStreams)
  BY PromotionBudgets DEF AtMost, Each
<1>3. AtMost(Text("P_CHANNEL_DETAILS", 41, o), PromotionStreams)
  BY PromotionBudgets DEF AtMost, Each, Text
<1> QED  BY <1>1, <1>2, <1>3, AtMostBoth DEF PromotionRow, Plain, PlainBut

\* A row of reason takes no more of them.
LEMMA ReasonDraws ==
  ASSUME NEW r, NEW o
  PROVE  AtMost(ReasonRow(r, o).draws, ReasonStreams)
  BY ReasonBudgets DEF ReasonRow, Plain, PlainBut, AtMost, Each, NullSet

\* A row of ship_mode takes no more of them.
LEMMA ShipModeDraws ==
  ASSUME NEW r, NEW o
  PROVE  AtMost(ShipModeRow(r, o).draws, ShipModeStreams)
<1>1. AtMost(NullSet("SM_NULLS"), ShipModeStreams)
  BY ShipModeBudgets DEF AtMost, Each, NullSet
<1>2. AtMost(Each(21, {"SM_CONTRACT"}), ShipModeStreams)
  BY ShipModeBudgets DEF AtMost, Each
<1> QED  BY <1>1, <1>2, AtMostBoth DEF ShipModeRow, Plain, PlainBut

\* A row of store takes no more of them.
LEMMA StoreDraws ==
  ASSUME NEW r, NEW o
  PROVE  AtMost(StoreRow(r, o).draws, StoreStreams)
<1>1. AtMost(NullSet("W_STORE_NULLS"), StoreStreams)
  BY StoreBudgets DEF AtMost, Each, NullSet
<1>2. AtMost(Each(1, {"W_STORE_SCD", "W_STORE_TYPE", "W_STORE_EMPLOYEES",
                "W_STORE_FLOOR_SPACE", "W_STORE_HOURS", "W_STORE_MARKET_ID",
                "W_STORE_TAX_PERCENTAGE", "W_STORE_GEOGRAPHY_CLASS",
                "W_STORE_DIVISION_NAME", "W_STORE_COMPANY_NAME"}), StoreStreams)
  BY StoreBudgets DEF AtMost, Each
<1>3. AtMost(Each(2, {"W_STORE_CLOSED_DATE_ID", "W_STORE_MANAGER",
                "W_STORE_MARKET_MANAGER"}), StoreStreams)
  BY StoreBudgets DEF AtMost, Each
<1>4. AtMost(Text("W_STORE_MARKET_DESC", 61, o), StoreStreams)
  BY StoreBudgets DEF AtMost, Each, Text
<1>5. AtMost(MkAddress("W_STORE_ADDRESS"), StoreStreams)
  BY StoreBudgets DEF AtMost, Each, MkAddress
<1> QED  BY <1>1, <1>2, <1>3, <1>4, <1>5, AtMostBoth DEF StoreRow

\* A row of time_dim takes no more of them.
LEMMA TimeDraws ==
  ASSUME NEW r, NEW o
  PROVE  AtMost(TimeRow(r, o).draws, TimeStreams)
  BY TimeBudgets DEF TimeRow, Plain, PlainBut, AtMost, Each, NullSet

\* A row of warehouse takes no more of them.
LEMMA WarehouseDraws ==
  ASSUME NEW r, NEW o
  PROVE  AtMost(WarehouseRow(r, o).draws, WarehouseStreams)
<1>1. AtMost(NullSet("W_NULLS"), WarehouseStreams)
  BY WarehouseBudgets DEF AtMost, Each, NullSet
<1>2. AtMost(Text("W_WAREHOUSE_NAME", 21, o), WarehouseStreams)
  BY WarehouseBudgets DEF AtMost, Each, Text
<1>3. AtMost(Each(1, {"W_WAREHOUSE_SQ_FT"}), WarehouseStreams)
  BY WarehouseBudgets DEF AtMost, Each
<1>4. AtMost(MkAddress("W_WAREHOUSE_ADDRESS"), WarehouseStreams)
  BY WarehouseBudgets DEF AtMost, Each, MkAddress
<1> QED  BY <1>1, <1>2, <1>3, <1>4, AtMostBoth DEF WarehouseRow, Plain, PlainBut

\* A row of web_page takes no more of them.
LEMMA WebPageDraws ==
  ASSUME NEW r, NEW o
  PROVE  AtMost(WebPageRow(r, o).draws, WebPageStreams)
<1>1. AtMost(NullSet("WP_NULLS"), WebPageStreams)
  BY WebPageBudgets DEF AtMost, Each, NullSet
<1>2. AtMost(Each(1, {"WP_SCD", "WP_ACCESS_DATE_SK", "WP_AUTOGEN_FLAG",
                "WP_CUSTOMER_SK", "WP_TYPE", "WP_LINK_COUNT",
                "WP_IMAGE_COUNT", "WP_MAX_AD_COUNT", "WP_CHAR_COUNT"}), WebPageStreams)
  BY WebPageBudgets DEF AtMost, Each
<1>3. AtMost(Each(2, {"WP_CREATION_DATE_SK"}), WebPageStreams)
  BY WebPageBudgets DEF AtMost, Each
<1> QED  BY <1>1, <1>2, <1>3, AtMostBoth DEF WebPageRow

\* A row of web_site takes no more of them.
LEMMA WebSiteDraws ==
  ASSUME NEW r, NEW o
  PROVE  AtMost(WebSiteRow(r, o).draws, Each(36, {"WEB_MARKET_CLASS"}) ++ WebSiteStreams)
<1> DEFINE B == Each(36, {"WEB_MARKET_CLASS"}) ++ WebSiteStreams
<1>1. AtMost(NullSet("WEB_NULLS"), B)
  BY WebSiteBudgets DEF AtMost, Each, NullSet, ++
<1>2. AtMost(IF FirstOfKey(r) THEN Each(1, {"WEB_OPEN_DATE",
                "WEB_CLOSE_DATE"}) ELSE NoDraws, B)
  BY WebSiteBudgets DEF AtMost, Each, NoDraws, ++
<1>3. AtMost(Each(1, {"WEB_SCD", "WEB_MARKET_ID", "WEB_COMPANY_ID",
                "WEB_TAX_PERCENTAGE"}), B)
  BY WebSiteBudgets DEF AtMost, Each, ++
<1>4. AtMost(Each(2, {"WEB_MANAGER", "WEB_MARKET_MANAGER"}), B)
  BY WebSiteBudgets DEF AtMost, Each, ++
<1>5. AtMost(Text("WEB_MARKET_CLASS", 36, o), B)
  BY WebSiteBudgets DEF AtMost, Each, Text, ++
<1>6. AtMost(Text("WEB_MARKET_DESC", 61, o), B)
  BY WebSiteBudgets DEF AtMost, Each, Text, ++
<1>7. AtMost(MkAddress("WEB_ADDRESS"), B)
  BY WebSiteBudgets DEF AtMost, Each, MkAddress, ++
<1> QED  BY <1>1, <1>2, <1>3, <1>4, <1>5, <1>6, <1>7, AtMostBoth DEF WebSiteRow

\* A row of s_inventory takes no more of them.
LEMMA SInventoryDraws ==
  ASSUME NEW r, NEW o
  PROVE  AtMost(SInventoryRow(r, o).draws, SInventoryStreams)
  BY SInventoryBudgets DEF SInventoryRow, Plain, PlainBut, AtMost, Each

\* A row of catalog_returns takes no more of them.
LEMMA CatalogReturnsDraws ==
  ASSUME NEW r, NEW o
  PROVE  AtMost(CatalogReturnsRow(r, o).draws, CatalogReturnsStreams)
<1>1. AtMost(NullSet("CR_NULLS"), CatalogReturnsStreams)
  BY CatalogReturnsBudgets DEF AtMost, Each, NullSet
<1>2. AtMost(Each(2, {"CR_RETURNING_CUSTOMER_SK", "CR_RETURNED_DATE_SK",
                "CR_RETURNED_TIME_SK"}), CatalogReturnsStreams)
  BY CatalogReturnsBudgets DEF AtMost, Each
<1>3. AtMost(Each(1, {"CR_RETURNING_CDEMO_SK", "CR_RETURNING_HDEMO_SK",
                "CR_RETURNING_ADDR_SK", "CR_SHIP_MODE_SK", "CR_WAREHOUSE_SK",
                "CR_REASON_SK"}), CatalogReturnsStreams)
  BY CatalogReturnsBudgets DEF AtMost, Each
<1>4. AtMost(Each(5, {"CR_PRICING"}), CatalogReturnsStreams)
  BY CatalogReturnsBudgets DEF AtMost, Each
<1> QED  BY <1>1, <1>2, <1>3, <1>4, AtMostBoth DEF CatalogReturnsRow, Plain, PlainBut

\* A row of store_returns takes no more of them.
LEMMA StoreReturnsDraws ==
  ASSUME NEW r, NEW o
  PROVE  AtMost(StoreReturnsRow(r, o).draws, StoreReturnsStreams)
<1>1. AtMost(NullSet("SR_NULLS"), StoreReturnsStreams)
  BY StoreReturnsBudgets DEF AtMost, Each, NullSet
<1>2. AtMost(Each(2, {"SR_RETURNED_DATE_SK"}), StoreReturnsStreams)
  BY StoreReturnsBudgets DEF AtMost, Each
<1>3. AtMost(Each(1, {"SR_CUSTOMER_SK", "SR_TICKET_NUMBER",
                "SR_RETURNED_TIME_SK", "SR_CDEMO_SK", "SR_HDEMO_SK",
                "SR_ADDR_SK", "SR_STORE_SK", "SR_REASON_SK"}), StoreReturnsStreams)
  BY StoreReturnsBudgets DEF AtMost, Each
<1>4. AtMost(Each(5, {"SR_PRICING"}), StoreReturnsStreams)
  BY StoreReturnsBudgets DEF AtMost, Each
<1> QED  BY <1>1, <1>2, <1>3, <1>4, AtMostBoth DEF StoreReturnsRow, Plain, PlainBut

\* A row of web_returns takes no more of them.
LEMMA WebReturnsDraws ==
  ASSUME NEW r, NEW o
  PROVE  AtMost(WebReturnsRow(r, o).draws, WebReturnsStreams)
<1>1. AtMost(NullSet("WR_NULLS"), WebReturnsStreams)
  BY WebReturnsBudgets DEF AtMost, Each, NullSet
<1>2. AtMost(Each(2, {"WR_RETURNED_DATE_SK", "WR_RETURNED_TIME_SK"}), WebReturnsStreams)
  BY WebReturnsBudgets DEF AtMost, Each
<1>3. AtMost(Each(1, {"WR_REFUNDED_CUSTOMER_SK", "WR_REFUNDED_CDEMO_SK",
                "WR_REFUNDED_HDEMO_SK", "WR_REFUNDED_ADDR_SK",
                "WR_RETURNING_CUSTOMER_SK", "WR_REASON_SK"}), WebReturnsStreams)
  BY WebReturnsBudgets DEF AtMost, Each
<1>4. AtMost(Each(5, {"WR_PRICING"}), WebReturnsStreams)
  BY WebReturnsBudgets DEF AtMost, Each
<1> QED  BY <1>1, <1>2, <1>3, <1>4, AtMostBoth DEF WebReturnsRow, Plain, PlainBut

\* A row of s_catalog_returns takes no more of them.
LEMMA SCatalogReturnsDraws ==
  ASSUME NEW r, NEW o
  PROVE  AtMost(SCatalogReturnsRow(r, o).draws, SCatalogReturnsStreams)
<1>1. AtMost(Each(1, {"S_CRET_DATE", "S_CRET_CALL_CENTER_ID",
                "S_CRET_REASON_ID", "S_CRET_SHIPMODE_ID",
                "S_CRET_WAREHOUSE_ID"}), SCatalogReturnsStreams)
  BY SCatalogReturnsBudgets DEF AtMost, Each
<1>2. AtMost(Each(2, {"S_CRET_TIME"}), SCatalogReturnsStreams)
  BY SCatalogReturnsBudgets DEF AtMost, Each
<1>3. AtMost(Each(1, {"S_CRET_PRICING"}), SCatalogReturnsStreams)
  BY SCatalogReturnsBudgets DEF AtMost, Each
<1> QED  BY <1>1, <1>2, <1>3, AtMostBoth DEF SCatalogReturnsRow, Plain, PlainBut

\* A row of s_store_returns takes no more of them.
LEMMA SStoreReturnsDraws ==
  ASSUME NEW r, NEW o
  PROVE  AtMost(SStoreReturnsRow(r, o).draws, SStoreReturnsStreams)
<1>1. AtMost(Each(1, {"S_SRET_RETURN_DATE", "S_SRET_REASON_ID",
                "S_SRET_PRICING"}), SStoreReturnsStreams)
  BY SStoreReturnsBudgets DEF AtMost, Each
<1>2. AtMost(Each(2, {"S_SRET_RETURN_TIME"}), SStoreReturnsStreams)
  BY SStoreReturnsBudgets DEF AtMost, Each
<1> QED  BY <1>1, <1>2, AtMostBoth DEF SStoreReturnsRow, Plain, PlainBut

\* A row of s_web_returns takes no more of them.
LEMMA SWebReturnsDraws ==
  ASSUME NEW r, NEW o
  PROVE  AtMost(SWebReturnsRow(r, o).draws, SWebReturnsStreams)
<1>1. AtMost(Each(1, {"S_WRET_RETURN_DATE", "S_WRET_PRICING"}), SWebReturnsStreams)
  BY SWebReturnsBudgets DEF AtMost, Each
<1>2. AtMost(Each(2, {"S_WRET_RETURN_TIME", "S_WRET_REASON_ID"}), SWebReturnsStreams)
  BY SWebReturnsBudgets DEF AtMost, Each
<1> QED  BY <1>1, <1>2, AtMostBoth DEF SWebReturnsRow, Plain, PlainBut

-----------------------------------------------------------------------------
(***************************************************************************)
(* The tables, their builders and what the rows of each have in common.    *)
(***************************************************************************)

\* The budgets of each table.
LEMMA Named ==
  /\ StreamsOf["call_center"] = CallCenterStreams
  /\ StreamsOf["catalog_page"] = CatalogPageStreams
  /\ StreamsOf["catalog_returns"] = CatalogReturnsStreams
  /\ StreamsOf["catalog_sales"] = CatalogSalesStreams
  /\ StreamsOf["customer"] = CustomerStreams
  /\ StreamsOf["customer_address"] = CustomerAddressStreams
  /\ StreamsOf["customer_demographics"] = CustomerDemographicsStreams
  /\ StreamsOf["date_dim"] = DateStreams
  /\ StreamsOf["household_demographics"] = HouseholdDemographicsStreams
  /\ StreamsOf["income_band"] = IncomeBandStreams
  /\ StreamsOf["inventory"] = InventoryStreams
  /\ StreamsOf["item"] = ItemStreams
  /\ StreamsOf["promotion"] = PromotionStreams
  /\ StreamsOf["reason"] = ReasonStreams
  /\ StreamsOf["ship_mode"] = ShipModeStreams
  /\ StreamsOf["store"] = StoreStreams
  /\ StreamsOf["store_returns"] = StoreReturnsStreams
  /\ StreamsOf["store_sales"] = StoreSalesStreams
  /\ StreamsOf["time_dim"] = TimeStreams
  /\ StreamsOf["warehouse"] = WarehouseStreams
  /\ StreamsOf["web_page"] = WebPageStreams
  /\ StreamsOf["web_returns"] = WebReturnsStreams
  /\ StreamsOf["web_sales"] = WebSalesStreams
  /\ StreamsOf["web_site"] = WebSiteStreams
  /\ StreamsOf["dbgen_version"] = NoDraws
  /\ StreamsOf["s_call_center"] = SCallCenterStreams
  /\ StreamsOf["s_catalog_order"] = SCatalogOrderStreams
  /\ StreamsOf["s_catalog_order_lineitem"] = SCatalogOrderLineitemStreams
  /\ StreamsOf["s_catalog_page"] = NoDraws
  /\ StreamsOf["s_catalog_returns"] = SCatalogReturnsStreams
  /\ StreamsOf["s_customer"] = SCustomerStreams
  /\ StreamsOf["s_customer_address"] = NoDraws
  /\ StreamsOf["s_inventory"] = SInventoryStreams
  /\ StreamsOf["s_item"] = SItemStreams
  /\ StreamsOf["s_promotion"] = SPromotionStreams
  /\ StreamsOf["s_purchase"] = SPurchaseStreams
  /\ StreamsOf["s_purchase_lineitem"] = SPurchaseLineitemStreams
  /\ StreamsOf["s_store"] = SStoreStreams
  /\ StreamsOf["s_store_returns"] = SStoreReturnsStreams
  /\ StreamsOf["s_warehouse"] = SWarehouseStreams
  /\ StreamsOf["s_web_order"] = SWebOrderStreams
  /\ StreamsOf["s_web_order_lineitem"] = SWebOrderLineitemStreams
  /\ StreamsOf["s_web_page"] = SWebPageStreams
  /\ StreamsOf["s_web_returns"] = SWebReturnsStreams
  /\ StreamsOf["s_web_site"] = NoDraws
  /\ StreamsOf["s_zip_to_gmt"] = NoDraws
<1>1. \A t \in DOMAIN BudgetsOf : StreamsOf[t] = BudgetsOf[t]
  BY DEF StreamsOf, ++
<1>2. \A t \in DOMAIN RefreshBudgetsOf \ DOMAIN BudgetsOf : StreamsOf[t] = RefreshBudgetsOf[t]
  BY DEF StreamsOf, ++
<1>3. /\ StreamsOf["call_center"] = CallCenterStreams
      /\ StreamsOf["catalog_page"] = CatalogPageStreams
      /\ StreamsOf["catalog_returns"] = CatalogReturnsStreams
      /\ StreamsOf["catalog_sales"] = CatalogSalesStreams
      /\ StreamsOf["customer"] = CustomerStreams
      /\ StreamsOf["customer_address"] = CustomerAddressStreams
      /\ StreamsOf["customer_demographics"] = CustomerDemographicsStreams
  BY <1>1 DEF BudgetsOf
<1>4. /\ StreamsOf["date_dim"] = DateStreams
      /\ StreamsOf["household_demographics"] = HouseholdDemographicsStreams
      /\ StreamsOf["income_band"] = IncomeBandStreams
      /\ StreamsOf["inventory"] = InventoryStreams
      /\ StreamsOf["item"] = ItemStreams
      /\ StreamsOf["promotion"] = PromotionStreams
      /\ StreamsOf["reason"] = ReasonStreams
  BY <1>1 DEF BudgetsOf
<1>5. /\ StreamsOf["ship_mode"] = ShipModeStreams
      /\ StreamsOf["store"] = StoreStreams
      /\ StreamsOf["store_returns"] = StoreReturnsStreams
      /\ StreamsOf["store_sales"] = StoreSalesStreams
      /\ StreamsOf["time_dim"] = TimeStreams
      /\ StreamsOf["warehouse"] = WarehouseStreams
      /\ StreamsOf["web_page"] = WebPageStreams
  BY <1>1 DEF BudgetsOf
<1>6. /\ StreamsOf["web_returns"] = WebReturnsStreams
      /\ StreamsOf["web_sales"] = WebSalesStreams
      /\ StreamsOf["web_site"] = WebSiteStreams
      /\ StreamsOf["dbgen_version"] = NoDraws
  BY <1>1 DEF BudgetsOf
<1>7. /\ StreamsOf["s_call_center"] = SCallCenterStreams
      /\ StreamsOf["s_catalog_order"] = SCatalogOrderStreams
      /\ StreamsOf["s_catalog_order_lineitem"] = SCatalogOrderLineitemStreams
      /\ StreamsOf["s_catalog_page"] = NoDraws
      /\ StreamsOf["s_catalog_returns"] = SCatalogReturnsStreams
      /\ StreamsOf["s_customer"] = SCustomerStreams
  BY <1>2 DEF BudgetsOf, RefreshBudgetsOf
<1>8. /\ StreamsOf["s_customer_address"] = NoDraws
      /\ StreamsOf["s_inventory"] = SInventoryStreams
      /\ StreamsOf["s_item"] = SItemStreams
      /\ StreamsOf["s_promotion"] = SPromotionStreams
      /\ StreamsOf["s_purchase"] = SPurchaseStreams
      /\ StreamsOf["s_purchase_lineitem"] = SPurchaseLineitemStreams
  BY <1>2 DEF BudgetsOf, RefreshBudgetsOf
<1>9. /\ StreamsOf["s_store"] = SStoreStreams
      /\ StreamsOf["s_store_returns"] = SStoreReturnsStreams
      /\ StreamsOf["s_warehouse"] = SWarehouseStreams
      /\ StreamsOf["s_web_order"] = SWebOrderStreams
      /\ StreamsOf["s_web_order_lineitem"] = SWebOrderLineitemStreams
      /\ StreamsOf["s_web_page"] = SWebPageStreams
  BY <1>2 DEF BudgetsOf, RefreshBudgetsOf
<1>10. /\ StreamsOf["s_web_returns"] = SWebReturnsStreams
      /\ StreamsOf["s_web_site"] = NoDraws
      /\ StreamsOf["s_zip_to_gmt"] = NoDraws
  BY <1>2 DEF BudgetsOf, RefreshBudgetsOf
<1> QED  BY <1>3, <1>4, <1>5, <1>6, <1>7, <1>8, <1>9, <1>10

\* The tables of the two schemas.
LEMMA Tables ==
  /\ WarehouseTables = {"call_center", "catalog_page", "catalog_returns",
                       "catalog_sales", "customer", "customer_address",
                       "customer_demographics", "date_dim",
                       "household_demographics", "income_band",
                       "inventory", "item", "promotion", "reason",
                       "ship_mode", "store", "store_returns",
                       "store_sales", "time_dim", "warehouse",
                       "web_page", "web_returns", "web_sales",
                       "web_site", "dbgen_version"}
  /\ RefreshTables = {"s_call_center", "s_catalog_order",
                       "s_catalog_order_lineitem", "s_catalog_page",
                       "s_catalog_returns", "s_customer",
                       "s_customer_address", "s_inventory", "s_item",
                       "s_promotion", "s_purchase",
                       "s_purchase_lineitem", "s_store",
                       "s_store_returns", "s_warehouse", "s_web_order",
                       "s_web_order_lineitem", "s_web_page",
                       "s_web_returns", "s_web_site", "s_zip_to_gmt"}
  /\ DOMAIN StreamsOf = WarehouseTables \cup RefreshTables
  BY DEF StreamsOf, BudgetsOf, RefreshBudgetsOf, ++, WarehouseTables, RefreshTables

\* The tables that are built with another.
LEMMA ChildrenAre ==
  /\ Children("catalog_sales") = {"catalog_returns"}
  /\ Children("store_sales") = {"store_returns"}
  /\ Children("web_sales") = {"web_returns"}
  /\ Children("s_catalog_order") = {"s_catalog_order_lineitem"}
  /\ Children("s_catalog_order_lineitem") = {"s_catalog_returns"}
  /\ Children("s_purchase") = {"s_purchase_lineitem"}
  /\ Children("s_purchase_lineitem") = {"s_store_returns"}
  /\ Children("s_web_order") = {"s_web_order_lineitem"}
  /\ Children("s_web_order_lineitem") = {"s_web_returns"}
  /\ \A t : t \notin DOMAIN ChildOf \cup DOMAIN RefreshChildOf => Children(t) = {}
  BY DEF Children, ChildOf, RefreshChildOf, ++

\* The tables that main's loop stops at.
LEMMA DriverTablesAre == DriverTables = {"call_center", "catalog_page",
                                         "catalog_sales", "customer",
                                         "customer_address",
                                         "customer_demographics",
                                         "date_dim",
                                         "household_demographics",
                                         "income_band", "inventory",
                                         "item", "promotion", "reason",
                                         "ship_mode", "store",
                                         "store_sales", "time_dim",
                                         "warehouse", "web_page",
                                         "web_sales", "web_site",
                                         "dbgen_version",
                                         "s_call_center",
                                         "s_catalog_order",
                                         "s_catalog_page", "s_customer",
                                         "s_customer_address",
                                         "s_inventory", "s_item",
                                         "s_promotion", "s_purchase",
                                         "s_store", "s_warehouse",
                                         "s_web_order", "s_web_page",
                                         "s_web_site", "s_zip_to_gmt"}

<1>1. UNION {Children(t) : t \in DOMAIN StreamsOf} = {"catalog_returns",
                                                   "store_returns",
                                                   "web_returns",
                                                   "s_catalog_order_lineitem",
                                                   "s_catalog_returns",
                                                   "s_purchase_lineitem",
                                                   "s_store_returns",
                                                   "s_web_order_lineitem",
                                                   "s_web_returns"}
  BY Tables, ChildrenAre DEF ChildOf, RefreshChildOf
<1> QED  BY <1>1, Tables DEF DriverTables

\* The builder of each warehouse table.
LEMMA WarehouseRowsNamed ==
  ASSUME NEW r, NEW o
  PROVE
         /\ Row("call_center", r, o) = CallCenterRow(r, o)
         /\ Row("catalog_page", r, o) = CatalogPageRow(r, o)
         /\ Row("catalog_returns", r, o) = CatalogReturnsRow(r, o)
         /\ Row("catalog_sales", r, o) = CatalogSalesRow(r, o)
         /\ Row("customer", r, o) = CustomerRow(r, o)
         /\ Row("customer_address", r, o) = CustomerAddressRow(r, o)
         /\ Row("customer_demographics", r, o) = CustomerDemographicsRow(r, o)
         /\ Row("date_dim", r, o) = DateRow(r, o)
         /\ Row("household_demographics", r, o) = HouseholdDemographicsRow(r, o)
         /\ Row("income_band", r, o) = IncomeBandRow(r, o)
         /\ Row("inventory", r, o) = InventoryRow(r, o)
         /\ Row("item", r, o) = ItemRow(r, o)
         /\ Row("promotion", r, o) = PromotionRow(r, o)
         /\ Row("reason", r, o) = ReasonRow(r, o)
         /\ Row("ship_mode", r, o) = ShipModeRow(r, o)
         /\ Row("store", r, o) = StoreRow(r, o)
         /\ Row("store_returns", r, o) = StoreReturnsRow(r, o)
         /\ Row("store_sales", r, o) = StoreSalesRow(r, o)
         /\ Row("time_dim", r, o) = TimeRow(r, o)
         /\ Row("warehouse", r, o) = WarehouseRow(r, o)
         /\ Row("web_page", r, o) = WebPageRow(r, o)
         /\ Row("web_returns", r, o) = WebReturnsRow(r, o)
         /\ Row("web_sales", r, o) = WebSalesRow(r, o)
         /\ Row("web_site", r, o) = WebSiteRow(r, o)
         /\ Row("dbgen_version", r, o) = DbgenVersionRow(r, o)
  BY Tables DEF Row, RowOf

\* The builder of each refresh table.
LEMMA RefreshRowsNamed ==
  ASSUME NEW r, NEW o
  PROVE
         /\ Row("s_call_center", r, o) = SCallCenterRow(r, o)
         /\ Row("s_catalog_order", r, o) = SCatalogOrderRow(r, o)
         /\ Row("s_catalog_page", r, o) = SCatalogPageRow(r, o)
         /\ Row("s_customer", r, o) = SCustomerRow(r, o)
         /\ Row("s_customer_address", r, o) = SCustomerAddressRow(r, o)
         /\ Row("s_inventory", r, o) = SInventoryRow(r, o)
         /\ Row("s_item", r, o) = SItemRow(r, o)
         /\ Row("s_promotion", r, o) = SPromotionRow(r, o)
         /\ Row("s_purchase", r, o) = SPurchaseRow(r, o)
         /\ Row("s_store", r, o) = SStoreRow(r, o)
         /\ Row("s_warehouse", r, o) = SWarehouseRow(r, o)
         /\ Row("s_web_order", r, o) = SWebOrderRow(r, o)
         /\ Row("s_web_page", r, o) = SWebPageRow(r, o)
         /\ Row("s_web_site", r, o) = SWebSiteRow(r, o)
         /\ Row("s_zip_to_gmt", r, o) = SZipRow(r, o)
  BY Tables DEF Row, RefreshRowOf

\* Two rows fix the same columns and treat the versions of a key alike.
SameShape(b, c) ==
  b.fixed = c.fixed /\ b.once = c.once /\ b.changes = c.changes /\ b.fresh = c.fresh

\* A row that keeps nothing of the rows before it.
IsPlain(b) == b.once = {} /\ b.changes = <<>> /\ ~b.fresh

\* b has the fields of a row and no others.
IsRow(b) ==
  b = [draws |-> b.draws, fixed |-> b.fixed, once |-> b.once, changes |-> b.changes,
       fresh |-> b.fresh]

\* A wrapper fixes and changes what the row it wraps does, and draws more.
LEMMA WrappedShape ==
  ASSUME NEW b, IsRow(b), NEW d
  PROVE  /\ Wrapped(b, d).draws = Plus(b.draws, d)
         /\ SameShape(Wrapped(b, d), b) /\ IsRow(Wrapped(b, d))
  BY DEF IsRow, Wrapped, SameShape

\* The rows of call_center fix and change the same columns.
LEMMA CallCenterShape ==
  ASSUME NEW r, NEW o, NEW q, NEW p
  PROVE  /\ SameShape(CallCenterRow(r, o), CallCenterRow(q, p))
         /\ IsRow(CallCenterRow(r, o))
  BY DEF CallCenterRow, SameShape, IsRow

\* The rows of catalog_page fix and change the same columns.
LEMMA CatalogPageShape ==
  ASSUME NEW r, NEW o, NEW q, NEW p
  PROVE  /\ SameShape(CatalogPageRow(r, o), CatalogPageRow(q, p))
         /\ IsRow(CatalogPageRow(r, o))
         /\ IsPlain(CatalogPageRow(r, o))
  BY DEF CatalogPageRow, SameShape, IsRow, Plain, PlainBut, IsPlain

\* The rows of catalog_returns fix and change the same columns.
LEMMA CatalogReturnsShape ==
  ASSUME NEW r, NEW o, NEW q, NEW p
  PROVE  /\ SameShape(CatalogReturnsRow(r, o), CatalogReturnsRow(q, p))
         /\ IsRow(CatalogReturnsRow(r, o))
         /\ IsPlain(CatalogReturnsRow(r, o))
  BY DEF CatalogReturnsRow, SameShape, IsRow, Plain, PlainBut, IsPlain

\* The rows of catalog_sales fix and change the same columns.
LEMMA CatalogSalesShape ==
  ASSUME NEW r, NEW o, NEW q, NEW p
  PROVE  /\ SameShape(CatalogSalesRow(r, o), CatalogSalesRow(q, p))
         /\ IsRow(CatalogSalesRow(r, o))
         /\ IsPlain(CatalogSalesRow(r, o))
  BY DEF CatalogSalesRow, SameShape, IsRow, Plain, PlainBut, IsPlain

\* The rows of customer fix and change the same columns.
LEMMA CustomerShape ==
  ASSUME NEW r, NEW o, NEW q, NEW p
  PROVE  /\ SameShape(CustomerRow(r, o), CustomerRow(q, p))
         /\ IsRow(CustomerRow(r, o))
         /\ IsPlain(CustomerRow(r, o))
  BY DEF CustomerRow, SameShape, IsRow, Plain, PlainBut, IsPlain

\* The rows of customer_address fix and change the same columns.
LEMMA CustomerAddressShape ==
  ASSUME NEW r, NEW o, NEW q, NEW p
  PROVE  /\ SameShape(CustomerAddressRow(r, o), CustomerAddressRow(q, p))
         /\ IsRow(CustomerAddressRow(r, o))
         /\ IsPlain(CustomerAddressRow(r, o))
  BY DEF CustomerAddressRow, SameShape, IsRow, Plain, PlainBut, IsPlain

\* The rows of customer_demographics fix and change the same columns.
LEMMA CustomerDemographicsShape ==
  ASSUME NEW r, NEW o, NEW q, NEW p
  PROVE  /\ SameShape(CustomerDemographicsRow(r, o), CustomerDemographicsRow(q, p))
         /\ IsRow(CustomerDemographicsRow(r, o))
         /\ IsPlain(CustomerDemographicsRow(r, o))
  BY DEF CustomerDemographicsRow, SameShape, IsRow, Plain, PlainBut, IsPlain

\* The rows of date_dim fix and change the same columns.
LEMMA DateShape ==
  ASSUME NEW r, NEW o, NEW q, NEW p
  PROVE  /\ SameShape(DateRow(r, o), DateRow(q, p))
         /\ IsRow(DateRow(r, o))
         /\ IsPlain(DateRow(r, o))
  BY DEF DateRow, SameShape, IsRow, Plain, PlainBut, IsPlain

\* The rows of household_demographics fix and change the same columns.
LEMMA HouseholdDemographicsShape ==
  ASSUME NEW r, NEW o, NEW q, NEW p
  PROVE  /\ SameShape(HouseholdDemographicsRow(r, o), HouseholdDemographicsRow(q, p))
         /\ IsRow(HouseholdDemographicsRow(r, o))
         /\ IsPlain(HouseholdDemographicsRow(r, o))
  BY DEF HouseholdDemographicsRow, SameShape, IsRow, Plain, PlainBut, IsPlain

\* The rows of income_band fix and change the same columns.
LEMMA IncomeBandShape ==
  ASSUME NEW r, NEW o, NEW q, NEW p
  PROVE  /\ SameShape(IncomeBandRow(r, o), IncomeBandRow(q, p))
         /\ IsRow(IncomeBandRow(r, o))
         /\ IsPlain(IncomeBandRow(r, o))
  BY DEF IncomeBandRow, SameShape, IsRow, Plain, PlainBut, IsPlain

\* The rows of inventory fix and change the same columns.
LEMMA InventoryShape ==
  ASSUME NEW r, NEW o, NEW q, NEW p
  PROVE  /\ SameShape(InventoryRow(r, o), InventoryRow(q, p))
         /\ IsRow(InventoryRow(r, o))
         /\ IsPlain(InventoryRow(r, o))
  BY DEF InventoryRow, SameShape, IsRow, Plain, PlainBut, IsPlain

\* The rows of item fix and change the same columns.
LEMMA ItemShape ==
  ASSUME NEW r, NEW o, NEW q, NEW p
  PROVE  /\ SameShape(ItemRow(r, o), ItemRow(q, p))
         /\ IsRow(ItemRow(r, o))
  BY DEF ItemRow, SameShape, IsRow

\* The rows of promotion fix and change the same columns.
LEMMA PromotionShape ==
  ASSUME NEW r, NEW o, NEW q, NEW p
  PROVE  /\ SameShape(PromotionRow(r, o), PromotionRow(q, p))
         /\ IsRow(PromotionRow(r, o))
         /\ IsPlain(PromotionRow(r, o))
  BY DEF PromotionRow, SameShape, IsRow, Plain, PlainBut, IsPlain

\* The rows of reason fix and change the same columns.
LEMMA ReasonShape ==
  ASSUME NEW r, NEW o, NEW q, NEW p
  PROVE  /\ SameShape(ReasonRow(r, o), ReasonRow(q, p))
         /\ IsRow(ReasonRow(r, o))
         /\ IsPlain(ReasonRow(r, o))
  BY DEF ReasonRow, SameShape, IsRow, Plain, PlainBut, IsPlain

\* The rows of ship_mode fix and change the same columns.
LEMMA ShipModeShape ==
  ASSUME NEW r, NEW o, NEW q, NEW p
  PROVE  /\ SameShape(ShipModeRow(r, o), ShipModeRow(q, p))
         /\ IsRow(ShipModeRow(r, o))
         /\ IsPlain(ShipModeRow(r, o))
  BY DEF ShipModeRow, SameShape, IsRow, Plain, PlainBut, IsPlain

\* The rows of store fix and change the same columns.
LEMMA StoreShape ==
  ASSUME NEW r, NEW o, NEW q, NEW p
  PROVE  /\ SameShape(StoreRow(r, o), StoreRow(q, p))
         /\ IsRow(StoreRow(r, o))
  BY DEF StoreRow, SameShape, IsRow

\* The rows of store_returns fix and change the same columns.
LEMMA StoreReturnsShape ==
  ASSUME NEW r, NEW o, NEW q, NEW p
  PROVE  /\ SameShape(StoreReturnsRow(r, o), StoreReturnsRow(q, p))
         /\ IsRow(StoreReturnsRow(r, o))
         /\ IsPlain(StoreReturnsRow(r, o))
  BY DEF StoreReturnsRow, SameShape, IsRow, Plain, PlainBut, IsPlain

\* The rows of store_sales fix and change the same columns.
LEMMA StoreSalesShape ==
  ASSUME NEW r, NEW o, NEW q, NEW p
  PROVE  /\ SameShape(StoreSalesRow(r, o), StoreSalesRow(q, p))
         /\ IsRow(StoreSalesRow(r, o))
         /\ IsPlain(StoreSalesRow(r, o))
  BY DEF StoreSalesRow, SameShape, IsRow, Plain, PlainBut, IsPlain

\* The rows of time_dim fix and change the same columns.
LEMMA TimeShape ==
  ASSUME NEW r, NEW o, NEW q, NEW p
  PROVE  /\ SameShape(TimeRow(r, o), TimeRow(q, p))
         /\ IsRow(TimeRow(r, o))
         /\ IsPlain(TimeRow(r, o))
  BY DEF TimeRow, SameShape, IsRow, Plain, PlainBut, IsPlain

\* The rows of warehouse fix and change the same columns.
LEMMA WarehouseShape ==
  ASSUME NEW r, NEW o, NEW q, NEW p
  PROVE  /\ SameShape(WarehouseRow(r, o), WarehouseRow(q, p))
         /\ IsRow(WarehouseRow(r, o))
         /\ IsPlain(WarehouseRow(r, o))
  BY DEF WarehouseRow, SameShape, IsRow, Plain, PlainBut, IsPlain

\* The rows of web_page fix and change the same columns.
LEMMA WebPageShape ==
  ASSUME NEW r, NEW o, NEW q, NEW p
  PROVE  /\ SameShape(WebPageRow(r, o), WebPageRow(q, p))
         /\ IsRow(WebPageRow(r, o))
  BY DEF WebPageRow, SameShape, IsRow

\* The rows of web_returns fix and change the same columns.
LEMMA WebReturnsShape ==
  ASSUME NEW r, NEW o, NEW q, NEW p
  PROVE  /\ SameShape(WebReturnsRow(r, o), WebReturnsRow(q, p))
         /\ IsRow(WebReturnsRow(r, o))
         /\ IsPlain(WebReturnsRow(r, o))
  BY DEF WebReturnsRow, SameShape, IsRow, Plain, PlainBut, IsPlain

\* The rows of web_sales fix and change the same columns.
LEMMA WebSalesShape ==
  ASSUME NEW r, NEW o, NEW q, NEW p
  PROVE  /\ SameShape(WebSalesRow(r, o), WebSalesRow(q, p))
         /\ IsRow(WebSalesRow(r, o))
         /\ IsPlain(WebSalesRow(r, o))
  BY DEF WebSalesRow, SameShape, IsRow, Plain, PlainBut, IsPlain

\* The rows of web_site fix and change the same columns.
LEMMA WebSiteShape ==
  ASSUME NEW r, NEW o, NEW q, NEW p
  PROVE  /\ SameShape(WebSiteRow(r, o), WebSiteRow(q, p))
         /\ IsRow(WebSiteRow(r, o))
  BY DEF WebSiteRow, SameShape, IsRow

\* The rows of dbgen_version fix and change the same columns.
LEMMA DbgenVersionShape ==
  ASSUME NEW r, NEW o, NEW q, NEW p
  PROVE  /\ SameShape(DbgenVersionRow(r, o), DbgenVersionRow(q, p))
         /\ IsRow(DbgenVersionRow(r, o))
         /\ IsPlain(DbgenVersionRow(r, o))
  BY DEF DbgenVersionRow, SameShape, IsRow, Plain, PlainBut, IsPlain

\* The rows of s_catalog_order fix and change the same columns.
LEMMA SCatalogOrderShape ==
  ASSUME NEW r, NEW o, NEW q, NEW p
  PROVE  /\ SameShape(SCatalogOrderRow(r, o), SCatalogOrderRow(q, p))
         /\ IsRow(SCatalogOrderRow(r, o))
         /\ IsPlain(SCatalogOrderRow(r, o))
  BY DEF SCatalogOrderRow, SameShape, IsRow, Plain, PlainBut, IsPlain

\* The rows of s_inventory fix and change the same columns.
LEMMA SInventoryShape ==
  ASSUME NEW r, NEW o, NEW q, NEW p
  PROVE  /\ SameShape(SInventoryRow(r, o), SInventoryRow(q, p))
         /\ IsRow(SInventoryRow(r, o))
         /\ IsPlain(SInventoryRow(r, o))
  BY DEF SInventoryRow, SameShape, IsRow, Plain, PlainBut, IsPlain

\* The rows of s_purchase fix and change the same columns.
LEMMA SPurchaseShape ==
  ASSUME NEW r, NEW o, NEW q, NEW p
  PROVE  /\ SameShape(SPurchaseRow(r, o), SPurchaseRow(q, p))
         /\ IsRow(SPurchaseRow(r, o))
         /\ IsPlain(SPurchaseRow(r, o))
  BY DEF SPurchaseRow, SameShape, IsRow, Plain, PlainBut, IsPlain

\* The rows of s_web_order fix and change the same columns.
LEMMA SWebOrderShape ==
  ASSUME NEW r, NEW o, NEW q, NEW p
  PROVE  /\ SameShape(SWebOrderRow(r, o), SWebOrderRow(q, p))
         /\ IsRow(SWebOrderRow(r, o))
         /\ IsPlain(SWebOrderRow(r, o))
  BY DEF SWebOrderRow, SameShape, IsRow, Plain, PlainBut, IsPlain

\* The rows of s_zip_to_gmt fix and change the same columns.
LEMMA SZipShape ==
  ASSUME NEW r, NEW o, NEW q, NEW p
  PROVE  /\ SameShape(SZipRow(r, o), SZipRow(q, p))
         /\ IsRow(SZipRow(r, o))
         /\ IsPlain(SZipRow(r, o))
  BY DEF SZipRow, SameShape, IsRow, Plain, PlainBut, IsPlain

\* The rows of s_call_center fix and change the same columns.
LEMMA SCallCenterShape ==
  ASSUME NEW r, NEW o, NEW q, NEW p
  PROVE  SameShape(SCallCenterRow(r, o), SCallCenterRow(q, p))
  BY CallCenterShape, WrappedShape DEF SCallCenterRow, SameShape, IsRow

\* The rows of s_item fix and change the same columns.
LEMMA SItemShape ==
  ASSUME NEW r, NEW o, NEW q, NEW p
  PROVE  SameShape(SItemRow(r, o), SItemRow(q, p))
  BY ItemShape, WrappedShape DEF SItemRow, SameShape, IsRow

\* The rows of s_promotion fix and change the same columns.
LEMMA SPromotionShape ==
  ASSUME NEW r, NEW o, NEW q, NEW p
  PROVE  /\ SameShape(SPromotionRow(r, o), SPromotionRow(q, p))
         /\ IsPlain(SPromotionRow(r, o))
  BY PromotionShape, WrappedShape DEF SPromotionRow, SameShape, IsRow, IsPlain

\* The rows of s_store fix and change the same columns.
LEMMA SStoreShape ==
  ASSUME NEW r, NEW o, NEW q, NEW p
  PROVE  SameShape(SStoreRow(r, o), SStoreRow(q, p))
  BY StoreShape, WrappedShape DEF SStoreRow, SameShape, IsRow

\* The rows of s_warehouse fix and change the same columns.
LEMMA SWarehouseShape ==
  ASSUME NEW r, NEW o, NEW q, NEW p
  PROVE  /\ SameShape(SWarehouseRow(r, o), SWarehouseRow(q, p))
         /\ IsPlain(SWarehouseRow(r, o))
  BY WarehouseShape, WrappedShape DEF SWarehouseRow, SameShape, IsRow, IsPlain

\* The rows of s_web_page fix and change the same columns.
LEMMA SWebPageShape ==
  ASSUME NEW r, NEW o, NEW q, NEW p
  PROVE  SameShape(SWebPageRow(r, o), SWebPageRow(q, p))
  BY WebPageShape, WrappedShape DEF SWebPageRow, SameShape, IsRow

\* The rows of s_customer fix and change the same columns.
LEMMA SCustomerShape ==
  ASSUME NEW r, NEW o, NEW q, NEW p
  PROVE  /\ SameShape(SCustomerRow(r, o), SCustomerRow(q, p))
         /\ IsPlain(SCustomerRow(r, o))
  BY CustomerAddressShape, WrappedShape DEF SCustomerRow, SameShape, IsRow, IsPlain

-----------------------------------------------------------------------------
(***************************************************************************)
(* Rows that fit: what a builder draws, of all the streams it touches.     *)
(***************************************************************************)

\* The streams that end with the row: those row_stop tops up.
Stopped(t) == OwnStreams(t) \cup (IF t \in StopsWrapped THEN OwnStreams(Wraps[t]) ELSE {})

\* Draws from the streams of t, within the budgets where they are kept.
Fits(t, d) ==
  \A s \in DOMAIN d :
    /\ s \in Touched(t) /\ d[s] \in Nat
    /\ s \in Stopped(t) \ MayOverrun => d[s] <= PerRow[s]

\* Draws from different streams.
Apart(d, e) == DOMAIN d \cap DOMAIN e = {}

\* Two draws that fit do so together.
LEMMA FitsBoth ==
  ASSUME NEW t, NEW d, NEW e, Fits(t, d), Fits(t, e)
  PROVE  Fits(t, d ++ e)
  BY DEF Fits, ++

\* So do the sums of draws from different streams.
LEMMA FitsPlus ==
  ASSUME NEW t, NEW d, NEW e, Fits(t, d), Fits(t, e), Apart(d, e)
  PROVE  Fits(t, Plus(d, e))
  BY DEF Fits, Plus, Apart

\* Draws apart from two others are apart from their sum.
LEMMA ApartPlus ==
  ASSUME NEW d, NEW e, NEW f, Apart(d, e), Apart(d, f)
  PROVE  Apart(d, Plus(e, f))
  BY DEF Apart, Plus

\* Budgets are numbers.
LEMMA BudgetsAreNumbers ==
  ASSUME NEW t \in DOMAIN StreamsOf
  PROVE  \A s \in DOMAIN StreamsOf[t] : StreamsOf[t][s] \in Nat
<1>1. CASE t = "call_center"
  BY <1>1, Named, CallCenterBudgets
<1>2. CASE t = "catalog_page"
  BY <1>2, Named, CatalogPageBudgets
<1>3. CASE t = "catalog_returns"
  BY <1>3, Named, CatalogReturnsBudgets
<1>4. CASE t = "catalog_sales"
  BY <1>4, Named, CatalogSalesBudgets
<1>5. CASE t = "customer"
  BY <1>5, Named, CustomerBudgets
<1>6. CASE t = "customer_address"
  BY <1>6, Named, CustomerAddressBudgets
<1>7. CASE t = "customer_demographics"
  BY <1>7, Named, CustomerDemographicsBudgets
<1>8. CASE t = "date_dim"
  BY <1>8, Named, DateBudgets
<1>9. CASE t = "household_demographics"
  BY <1>9, Named, HouseholdDemographicsBudgets
<1>10. CASE t = "income_band"
  BY <1>10, Named, IncomeBandBudgets
<1>11. CASE t = "inventory"
  BY <1>11, Named, InventoryBudgets
<1>12. CASE t = "item"
  BY <1>12, Named, ItemBudgets
<1>13. CASE t = "promotion"
  BY <1>13, Named, PromotionBudgets
<1>14. CASE t = "reason"
  BY <1>14, Named, ReasonBudgets
<1>15. CASE t = "ship_mode"
  BY <1>15, Named, ShipModeBudgets
<1>16. CASE t = "store"
  BY <1>16, Named, StoreBudgets
<1>17. CASE t = "store_returns"
  BY <1>17, Named, StoreReturnsBudgets
<1>18. CASE t = "store_sales"
  BY <1>18, Named, StoreSalesBudgets
<1>19. CASE t = "time_dim"
  BY <1>19, Named, TimeBudgets
<1>20. CASE t = "warehouse"
  BY <1>20, Named, WarehouseBudgets
<1>21. CASE t = "web_page"
  BY <1>21, Named, WebPageBudgets
<1>22. CASE t = "web_returns"
  BY <1>22, Named, WebReturnsBudgets
<1>23. CASE t = "web_sales"
  BY <1>23, Named, WebSalesBudgets
<1>24. CASE t = "web_site"
  BY <1>24, Named, WebSiteBudgets
<1>25. CASE t = "dbgen_version"
  BY <1>25, Named DEF NoDraws
<1>26. CASE t = "s_call_center"
  BY <1>26, Named, SCallCenterBudgets
<1>27. CASE t = "s_catalog_order"
  BY <1>27, Named, SCatalogOrderBudgets
<1>28. CASE t = "s_catalog_order_lineitem"
  BY <1>28, Named, SCatalogOrderLineitemBudgets
<1>29. CASE t = "s_catalog_page"
  BY <1>29, Named DEF NoDraws
<1>30. CASE t = "s_catalog_returns"
  BY <1>30, Named, SCatalogReturnsBudgets
<1>31. CASE t = "s_customer"
  BY <1>31, Named, SCustomerBudgets
<1>32. CASE t = "s_customer_address"
  BY <1>32, Named DEF NoDraws
<1>33. CASE t = "s_inventory"
  BY <1>33, Named, SInventoryBudgets
<1>34. CASE t = "s_item"
  BY <1>34, Named, SItemBudgets
<1>35. CASE t = "s_promotion"
  BY <1>35, Named, SPromotionBudgets
<1>36. CASE t = "s_purchase"
  BY <1>36, Named, SPurchaseBudgets
<1>37. CASE t = "s_purchase_lineitem"
  BY <1>37, Named, SPurchaseLineitemBudgets
<1>38. CASE t = "s_store"
  BY <1>38, Named, SStoreBudgets
<1>39. CASE t = "s_store_returns"
  BY <1>39, Named, SStoreReturnsBudgets
<1>40. CASE t = "s_warehouse"
  BY <1>40, Named, SWarehouseBudgets
<1>41. CASE t = "s_web_order"
  BY <1>41, Named, SWebOrderBudgets
<1>42. CASE t = "s_web_order_lineitem"
  BY <1>42, Named, SWebOrderLineitemBudgets
<1>43. CASE t = "s_web_page"
  BY <1>43, Named, SWebPageBudgets
<1>44. CASE t = "s_web_returns"
  BY <1>44, Named, SWebReturnsBudgets
<1>45. CASE t = "s_web_site"
  BY <1>45, Named DEF NoDraws
<1>46. CASE t = "s_zip_to_gmt"
  BY <1>46, Named DEF NoDraws
<1> QED  BY <1>1, <1>2, <1>3, <1>4, <1>5, <1>6, <1>7, <1>8, <1>9, <1>10, <1>11, <1>12, <1>13,
            <1>14, <1>15, <1>16, <1>17, <1>18, <1>19, <1>20, <1>21, <1>22, <1>23, <1>24,
            <1>25, <1>26, <1>27, <1>28, <1>29, <1>30, <1>31, <1>32, <1>33, <1>34, <1>35,
            <1>36, <1>37, <1>38, <1>39, <1>40, <1>41, <1>42, <1>43, <1>44, <1>45, <1>46,
            Tables

\* The streams are those of the tables.
LEMMA AllStreamsAre ==
  AllStreams = UNION {DOMAIN StreamsOf[t] : t \in DOMAIN StreamsOf}
  BY DEF AllStreams, SetOf

\* Each stream has one table, and its budget there.
LEMMA PerRowIs ==
  ASSUME NEW t \in DOMAIN StreamsOf, NEW s \in DOMAIN StreamsOf[t]
  PROVE  /\ s \in AllStreams
         /\ TableOfStream[s] = t
         /\ PerRow[s] = StreamsOf[t][s] /\ PerRow[s] \in Nat
<1>1. s \in AllStreams
  BY AllStreamsAre
<1>2. TableOfStream[s] \in DOMAIN StreamsOf /\ s \in DOMAIN StreamsOf[TableOfStream[s]]
  BY <1>1, AllStreamsAre DEF TableOfStream
<1>3. TableOfStream[s] = t
  BY <1>2, OneTablePerStream
<1> DEFINE b == CHOOSE budgets \in SetOf(StreamsOf) : s \in DOMAIN budgets
<1>4. b \in SetOf(StreamsOf) /\ s \in DOMAIN b
  BY DEF SetOf
<1>5. PICK u \in DOMAIN StreamsOf : b = StreamsOf[u]
  BY <1>4 DEF SetOf
<1>6. u = t
  BY <1>4, <1>5, OneTablePerStream
<1>7. PerRow[s] = b[s]
  BY <1>1 DEF PerRow
<1> QED  BY <1>1, <1>3, <1>5, <1>6, <1>7, BudgetsAreNumbers

\* A row that stays within the budgets of a table of the family fits, with what
\* it may take of the streams E besides.
LEMMA FitsIn ==
  ASSUME NEW t, NEW u \in Family(t) \cup WrappedBy(t), u \in DOMAIN StreamsOf,
         NEW n \in Nat, NEW E, E \subseteq Touched(t), E \cap Stopped(t) \subseteq MayOverrun,
         NEW d, AtMost(d, Each(n, E) ++ StreamsOf[u])
  PROVE  Fits(t, d)
<1> SUFFICES ASSUME NEW s \in DOMAIN d
             PROVE  /\ s \in Touched(t) /\ d[s] \in Nat
                    /\ s \in Stopped(t) \ MayOverrun => d[s] <= PerRow[s]
  BY DEF Fits
<1>1. CASE s \in E
  <2>1. d[s] \in 0..n
    BY <1>1 DEF AtMost, Each, ++
  <2> QED  BY <1>1, <2>1
<1>2. CASE s \notin E
  <2>1. s \in DOMAIN StreamsOf[u] /\ d[s] \in 0..StreamsOf[u][s]
    BY <1>2 DEF AtMost, Each, ++
  <2>2. s \in Touched(t)
    BY <2>1 DEF Touched, OwnStreams
  <2>3. PerRow[s] = StreamsOf[u][s] /\ PerRow[s] \in Nat
    BY <2>1, PerRowIs
  <2> QED  BY <2>1, <2>2, <2>3
<1> QED  BY <1>1, <1>2

\* Draws within the budgets of a table of the family fit.
LEMMA FitsOf ==
  ASSUME NEW t, NEW u \in Family(t) \cup WrappedBy(t), u \in DOMAIN StreamsOf,
         NEW d, AtMost(d, StreamsOf[u])
  PROVE  Fits(t, d)
<1>1. AtMost(d, Each(0, {}) ++ StreamsOf[u])
  BY DEF AtMost, Each, ++
<1> QED  BY <1>1, FitsIn

\* So do draws within the table's own budgets.
LEMMA FitsOwn ==
  ASSUME NEW t \in DOMAIN StreamsOf, NEW d, AtMost(d, StreamsOf[t])
  PROVE  Fits(t, d)
<1>1. t \in Family(t)
  BY DEF Family
<1> QED  BY <1>1, FitsOf

\* The table each wrapper takes its rows from.
LEMMA WrapsAre ==
  /\ DOMAIN Wraps = {"s_call_center", "s_catalog_page", "s_customer",
                     "s_customer_address", "s_item", "s_promotion", "s_store",
                     "s_warehouse", "s_web_page", "s_web_site"}
  /\ Wraps["s_call_center"] = "call_center" /\ Wraps["s_catalog_page"] = "catalog_page"
  /\ Wraps["s_customer"] = "customer_address"
  /\ Wraps["s_customer_address"] = "customer_address"
  /\ Wraps["s_item"] = "item" /\ Wraps["s_promotion"] = "promotion"
  /\ Wraps["s_store"] = "store" /\ Wraps["s_warehouse"] = "warehouse"
  /\ Wraps["s_web_page"] = "web_page" /\ Wraps["s_web_site"] = "web_site"
  BY DEF Wraps

\* The family and the wrapped table are touched.
LEMMA TouchedOf ==
  ASSUME NEW t, NEW u \in Family(t) \cup WrappedBy(t)
  PROVE  DOMAIN StreamsOf[u] \subseteq Touched(t)
  BY DEF Touched, OwnStreams

\* A table is in its family, with its children and theirs.
LEMMA FamilyOf ==
  ASSUME NEW t
  PROVE  /\ t \in Family(t) /\ Children(t) \subseteq Family(t)
         /\ \A c \in Children(t) : Children(c) \subseteq Family(t)
         /\ Children(t) = {} => Family(t) = {t}
         /\ t \in DOMAIN Wraps => Wraps[t] \in WrappedBy(t)
  BY DEF Family, WrappedBy

\* What a wrapper draws itself: a permutation, and the version of a key.
LEMMA WrapperFits ==
  ASSUME NEW t \in DOMAIN Wraps, NEW b, NEW d, IsRow(b), Fits(t, b.draws), Fits(t, d),
         Apart(b.draws, d)
  PROVE  Fits(t, Wrapped(b, d).draws)
  BY WrappedShape, FitsPlus

\* An order: its master, its lines and their returns.
LEMMA OrderFits ==
  ASSUME NEW t, NEW m, NEW d, NEW e, Fits(t, m), Fits(t, d), Fits(t, e),
         Apart(m, d), Apart(m, e), Apart(d, e)
  PROVE  Fits(t, Plus(m, Plus(d, e)))
  BY FitsPlus, ApartPlus

\* Numbers from streams that may be overrun.
LEMMA OverrunFits ==
  ASSUME NEW t, NEW u \in Family(t) \cup WrappedBy(t), u \in DOMAIN StreamsOf,
         NEW n \in Nat, NEW E, E \subseteq MayOverrun, E \subseteq DOMAIN StreamsOf[u],
         NEW d, AtMost(d, Each(n, E) ++ StreamsOf[u])
  PROVE  Fits(t, d)
  BY TouchedOf, FitsIn

\* A row of catalog_sales fits.
LEMMA CatalogSalesFits ==
  ASSUME NEW r, NEW o \in Outcomes("catalog_sales")
  PROVE  Fits("catalog_sales", CatalogSalesRow(r, o).draws)
<1> DEFINE shuffle == IF o.first THEN Each(1, {"CS_PERMUTE"}) ELSE NoDraws
           bill == CatalogSalesMaster(o) ++ Each(1, {"CS_ORDER_NUMBER"})
           lines == Times(o.lines, CatalogSalesDetail)
           back == Times(o.returned, CatalogReturnsRow(r, o).draws)
<1>0. /\ "catalog_sales" \in Family("catalog_sales")
      /\ "catalog_returns" \in Family("catalog_sales")
      /\ "catalog_sales" \in Family("catalog_sales")
      /\ o.lines \in 0..14 /\ o.returned \in 0..14
  BY FamilyOf, ChildrenAre DEF Outcomes, MostLines
<1>1. Fits("catalog_sales", shuffle)
  <2>1. AtMost(shuffle, Each(1, {"CS_PERMUTE"}) ++ StreamsOf["catalog_sales"])
    BY DEF AtMost, Each, ++, NoDraws
  <2>2. /\ {"CS_PERMUTE"} \subseteq MayOverrun
        /\ {"CS_PERMUTE"} \subseteq DOMAIN StreamsOf["catalog_sales"]
    BY Named, CatalogSalesBudgets DEF MayOverrun
  <2> QED  BY <1>0, <2>1, <2>2, Tables, OverrunFits
<1>2. Fits("catalog_sales", bill)
  <2>1. AtMost(Each(2, {"CS_SOLD_TIME_SK"}), CatalogSalesStreams)
    BY CatalogSalesBudgets DEF AtMost, Each
  <2>2. AtMost(Each(1, {"CS_CALL_CENTER_SK", "CS_BILL_CUSTOMER_SK",
                 "CS_BILL_CDEMO_SK", "CS_BILL_HDEMO_SK", "CS_BILL_ADDR_SK",
                 "CS_SOLD_ITEM_SK"}), CatalogSalesStreams)
    BY CatalogSalesBudgets DEF AtMost, Each
  <2>3. AtMost(Each(IF o.gift THEN 2 ELSE 1, {"CS_SHIP_CUSTOMER_SK"}), CatalogSalesStreams)
    BY CatalogSalesBudgets DEF AtMost, Each
  <2>4. AtMost(Each(IF o.gift THEN 1 ELSE 0, {"CS_SHIP_CDEMO_SK",
                 "CS_SHIP_HDEMO_SK", "CS_SHIP_ADDR_SK"}), CatalogSalesStreams)
    BY CatalogSalesBudgets DEF AtMost, Each
  <2>5. AtMost(Each(1, {"CS_ORDER_NUMBER"}), CatalogSalesStreams)
    BY CatalogSalesBudgets DEF AtMost, Each
  <2>6. \A d : AtMost(d, CatalogSalesStreams) => Fits("catalog_sales", d)
    BY Named, Tables, FitsOwn
  <2> QED  BY <1>1, <2>1, <2>2, <2>3, <2>4, <2>5, <2>6, FitsBoth DEF CatalogSalesMaster
<1>3. Fits("catalog_sales", lines)
  <2>1. AtMost(lines, CatalogSalesStreams)
    BY <1>0, CatalogSalesBudgets DEF AtMost, CatalogSalesDetail, Times, Each, ++
  <2> QED  BY <1>0, <2>1, Named, Tables, FitsOf
<1>4. Fits("catalog_sales", back)
  <2>1. AtMost(back, CatalogReturnsStreams)
    BY <1>0, CatalogReturnsBudgets DEF AtMost, CatalogReturnsRow, Plain, PlainBut, Times,
       Each, ++, NullSet
  <2> QED  BY <1>0, <2>1, Named, Tables, FitsOf
<1>5. Apart(bill, lines)
  BY SMTT(30) DEF Apart, CatalogSalesMaster, Each, ++, NoDraws, CatalogSalesDetail, Times
<1>6. Apart(bill, back)
  BY SMTT(30) DEF Apart, CatalogSalesMaster, Each, ++, NoDraws, CatalogReturnsRow, Plain, PlainBut,
     Times, NullSet
<1>7. Apart(lines, back)
  BY DEF Apart, CatalogSalesDetail, Times, Each, ++, CatalogReturnsRow, Plain, PlainBut,
     NullSet
<1>8. Fits("catalog_sales", Plus(bill, Plus(lines, back)))
  BY <1>2, <1>3, <1>4, <1>5, <1>6, <1>7, OrderFits
<1> QED  BY <1>8 DEF CatalogSalesRow, Plain, PlainBut

\* A row of store_sales fits.
LEMMA StoreSalesFits ==
  ASSUME NEW r, NEW o \in Outcomes("store_sales")
  PROVE  Fits("store_sales", StoreSalesRow(r, o).draws)
<1> DEFINE shuffle == IF o.first THEN Each(1, {"SS_PERMUTATION"}) ELSE NoDraws
           bill == StoreSalesMaster(o) ++ Each(1, {"SS_TICKET_NUMBER"})
           lines == Times(o.lines, StoreSalesDetail)
           back == Times(o.returned, StoreReturnsRow(r, o).draws)
<1>0. /\ "store_sales" \in Family("store_sales") /\ "store_returns" \in Family("store_sales")
      /\ "store_sales" \in Family("store_sales")
      /\ o.lines \in 0..16 /\ o.returned \in 0..16
  BY FamilyOf, ChildrenAre DEF Outcomes, MostLines
<1>1. Fits("store_sales", shuffle)
  <2>1. AtMost(shuffle, Each(1, {"SS_PERMUTATION"}) ++ StreamsOf["store_sales"])
    BY DEF AtMost, Each, ++, NoDraws
  <2>2. /\ {"SS_PERMUTATION"} \subseteq MayOverrun
        /\ {"SS_PERMUTATION"} \subseteq DOMAIN StreamsOf["store_sales"]
    BY Named, StoreSalesBudgets DEF MayOverrun
  <2> QED  BY <1>0, <2>1, <2>2, Tables, OverrunFits
<1>2. Fits("store_sales", bill)
  <2>1. AtMost(Each(2, {"SS_SOLD_TIME_SK", "SS_SOLD_DATE_SK"}), StoreSalesStreams)
    BY StoreSalesBudgets DEF AtMost, Each
  <2>2. AtMost(Each(1, {"SS_SOLD_STORE_SK", "SS_SOLD_CUSTOMER_SK",
                 "SS_SOLD_CDEMO_SK", "SS_SOLD_HDEMO_SK", "SS_SOLD_ADDR_SK",
                 "SS_SOLD_ITEM_SK"}), StoreSalesStreams)
    BY StoreSalesBudgets DEF AtMost, Each
  <2>3. AtMost(Each(1, {"SS_TICKET_NUMBER"}), StoreSalesStreams)
    BY StoreSalesBudgets DEF AtMost, Each
  <2>4. \A d : AtMost(d, StoreSalesStreams) => Fits("store_sales", d)
    BY Named, Tables, FitsOwn
  <2> QED  BY <1>1, <2>1, <2>2, <2>3, <2>4, FitsBoth DEF StoreSalesMaster
<1>3. Fits("store_sales", lines)
  <2>1. AtMost(lines, StoreSalesStreams)
    BY <1>0, StoreSalesBudgets DEF AtMost, StoreSalesDetail, Times, Each, ++, NullSet
  <2> QED  BY <1>0, <2>1, Named, Tables, FitsOf
<1>4. Fits("store_sales", back)
  <2>1. AtMost(back, StoreReturnsStreams)
    BY <1>0, StoreReturnsBudgets DEF AtMost, StoreReturnsRow, Plain, PlainBut, Times, Each,
       ++, NullSet
  <2> QED  BY <1>0, <2>1, Named, Tables, FitsOf
<1>5. Apart(bill, lines)
  BY DEF Apart, StoreSalesMaster, Each, ++, NoDraws, StoreSalesDetail, Times, NullSet
<1>6. Apart(bill, back)
  BY DEF Apart, StoreSalesMaster, Each, ++, NoDraws, StoreReturnsRow, Plain, PlainBut, Times,
     NullSet
<1>7. Apart(lines, back)
  BY DEF Apart, StoreSalesDetail, Times, Each, ++, NullSet, StoreReturnsRow, Plain, PlainBut
<1>8. Fits("store_sales", Plus(bill, Plus(lines, back)))
  BY <1>2, <1>3, <1>4, <1>5, <1>6, <1>7, OrderFits
<1> QED  BY <1>8 DEF StoreSalesRow, Plain, PlainBut

\* A row of web_sales fits.
LEMMA WebSalesFits ==
  ASSUME NEW r, NEW o \in Outcomes("web_sales")
  PROVE  Fits("web_sales", WebSalesRow(r, o).draws)
<1> DEFINE shuffle == IF o.first THEN Each(1, {"WS_PERMUTATION"}) ELSE NoDraws
           bill == WebSalesMaster(o) ++ Each(1, {"WS_ORDER_NUMBER"})
           lines == Times(o.lines, WebSalesDetail)
           back == Times(o.returned, WebReturnsRow(r, o).draws)
<1>0. /\ "web_sales" \in Family("web_sales") /\ "web_returns" \in Family("web_sales")
      /\ "web_sales" \in Family("web_sales")
      /\ o.lines \in 0..16 /\ o.returned \in 0..16
  BY FamilyOf, ChildrenAre DEF Outcomes, MostLines
<1>1. Fits("web_sales", shuffle)
  <2>1. AtMost(shuffle, Each(1, {"WS_PERMUTATION"}) ++ StreamsOf["web_sales"])
    BY DEF AtMost, Each, ++, NoDraws
  <2>2. /\ {"WS_PERMUTATION"} \subseteq MayOverrun
        /\ {"WS_PERMUTATION"} \subseteq DOMAIN StreamsOf["web_sales"]
    BY Named, WebSalesBudgets DEF MayOverrun
  <2> QED  BY <1>0, <2>1, <2>2, Tables, OverrunFits
<1>2. Fits("web_sales", bill)
  <2>1. AtMost(Each(2, {"WS_SOLD_DATE_SK", "WS_SOLD_TIME_SK"}), WebSalesStreams)
    BY WebSalesBudgets DEF AtMost, Each
  <2>2. AtMost(Each(1, {"WS_BILL_CUSTOMER_SK", "WS_BILL_CDEMO_SK",
                 "WS_BILL_HDEMO_SK", "WS_BILL_ADDR_SK", "WS_ITEM_SK"}), WebSalesStreams)
    BY WebSalesBudgets DEF AtMost, Each
  <2>3. AtMost(Each(IF o.gift THEN 2 ELSE 1, {"WS_SHIP_CUSTOMER_SK"}), WebSalesStreams)
    BY WebSalesBudgets DEF AtMost, Each
  <2>4. AtMost(Each(IF o.gift THEN 1 ELSE 0, {"WS_SHIP_CDEMO_SK",
                 "WS_SHIP_HDEMO_SK", "WS_SHIP_ADDR_SK"}), WebSalesStreams)
    BY WebSalesBudgets DEF AtMost, Each
  <2>5. AtMost(Each(1, {"WS_ORDER_NUMBER"}), WebSalesStreams)
    BY WebSalesBudgets DEF AtMost, Each
  <2>6. AtMost(bill, WebSalesStreams)
    BY <2>1, <2>2, <2>3, <2>4, <2>5, AtMostBoth DEF WebSalesMaster
  <2> QED  BY <2>6, Named, Tables, FitsOwn
<1>3. Fits("web_sales", lines)
  <2>1. AtMost(lines, WebSalesStreams)
    BY <1>0, WebSalesBudgets DEF AtMost, WebSalesDetail, Times, Each, ++, NullSet
  <2> QED  BY <1>0, <2>1, Named, Tables, FitsOf
<1>4. Fits("web_sales", back)
  <2>1. AtMost(back, WebReturnsStreams)
    BY <1>0, WebReturnsBudgets DEF AtMost, WebReturnsRow, Plain, PlainBut, Times, Each, ++,
       NullSet
  <2> QED  BY <1>0, <2>1, Named, Tables, FitsOf
<1>5. Apart(bill, lines)
  BY DEF Apart, WebSalesMaster, Each, ++, NoDraws, WebSalesDetail, Times, NullSet
<1>6. Apart(bill, back)
  BY DEF Apart, WebSalesMaster, Each, ++, NoDraws, WebReturnsRow, Plain, PlainBut, Times,
     NullSet
<1>7. Apart(lines, back)
  BY DEF Apart, WebSalesDetail, Times, Each, ++, NullSet, WebReturnsRow, Plain, PlainBut
<1>8. Fits("web_sales", Plus(bill, Plus(lines, back)))
  BY <1>2, <1>3, <1>4, <1>5, <1>6, <1>7, OrderFits
<1> QED  BY <1>1, <1>8, FitsBoth DEF WebSalesRow, Plain, PlainBut

\* A row of s_catalog_order fits.
LEMMA SCatalogOrderFits ==
  ASSUME NEW r, NEW o \in Outcomes("s_catalog_order")
  PROVE  Fits("s_catalog_order", SCatalogOrderRow(r, o).draws)
<1> DEFINE shuffle == IF o.first THEN Each(1, {"S_CLIN_PERMUTE"}) ELSE NoDraws
           bill == SCatalogOrderMaster(o) ++ Each(1, {"S_CLIN_ITEM_ID"})
           lines == Times(CatalogOrderLines, SCatalogOrderDetail)
           back == Times(o.returned, SCatalogReturnsRow(r, o).draws)
<1>0. /\ "s_catalog_order" \in Family("s_catalog_order")
      /\ "s_catalog_returns" \in Family("s_catalog_order")
      /\ "s_catalog_order_lineitem" \in Family("s_catalog_order")
      /\ o.lines \in 0..9 /\ o.returned \in 0..9
  BY FamilyOf, ChildrenAre DEF Outcomes, MostLines, CatalogOrderLines
<1>1. Fits("s_catalog_order", shuffle)
  <2>1. AtMost(shuffle, Each(1, {"S_CLIN_PERMUTE"}) ++ StreamsOf["s_catalog_order_lineitem"])
    BY DEF AtMost, Each, ++, NoDraws
  <2>2. /\ {"S_CLIN_PERMUTE"} \subseteq MayOverrun
        /\ {"S_CLIN_PERMUTE"} \subseteq DOMAIN StreamsOf["s_catalog_order_lineitem"]
    BY Named, SCatalogOrderLineitemBudgets DEF MayOverrun
  <2> QED  BY <1>0, <2>1, <2>2, Tables, OverrunFits
<1>2. Fits("s_catalog_order", bill)
  <2>1. AtMost(Each(1, {"S_CORD_ORDER_TIME", "S_CORD_BILL_CUSTOMER_ID",
                 "S_CORD_SHIP_MODE_ID"}), SCatalogOrderStreams)
    BY SCatalogOrderBudgets DEF AtMost, Each
  <2>2. AtMost(Each(IF o.gift THEN 2 ELSE 1, {"S_CORD_SHIP_CUSTOMER_ID"}), SCatalogOrderStreams)
    BY SCatalogOrderBudgets DEF AtMost, Each
  <2>3. AtMost(Text("S_CORD_COMMENT", 61, o), SCatalogOrderStreams)
    BY SCatalogOrderBudgets DEF AtMost, Each, Text
  <2>4. AtMost(Each(1, {"S_CLIN_ITEM_ID"}), SCatalogOrderStreams)
    BY SCatalogOrderBudgets DEF AtMost, Each
  <2>5. AtMost(bill, SCatalogOrderStreams)
    BY <2>1, <2>2, <2>3, <2>4, AtMostBoth DEF SCatalogOrderMaster
  <2> QED  BY <2>5, Named, Tables, FitsOwn
<1>3. Fits("s_catalog_order", lines)
  <2> DEFINE E == {"S_CLIN_PROMOTION_ID", "S_CLIN_WAREHOUSE_ID",
                   "S_CLIN_SHIP_DATE", "S_CLIN_IS_RETURNED",
                   "S_CLIN_CATALOG_PAGE_ID", "S_CLIN_PRICING"}
  <2>1. AtMost(lines, Each(72, E) ++ StreamsOf["s_catalog_order_lineitem"])
    BY <1>0 DEF AtMost, SCatalogOrderDetail, SCatalogOrderLineitem, Times, Each, ++,
       CatalogOrderLines
  <2>2. E \subseteq MayOverrun /\ E \subseteq DOMAIN StreamsOf["s_catalog_order_lineitem"]
    BY Named, SCatalogOrderLineitemBudgets DEF MayOverrun
  <2> QED  BY <1>0, <2>1, <2>2, Tables, OverrunFits
<1>4. Fits("s_catalog_order", back)
  <2>1. AtMost(back, SCatalogReturnsStreams)
    BY <1>0, SCatalogReturnsBudgets DEF AtMost, SCatalogReturnsRow, Plain, PlainBut, Times,
       Each, ++
  <2> QED  BY <1>0, <2>1, Named, Tables, FitsOf
<1>5. Apart(bill, lines)
  BY DEF Apart, SCatalogOrderMaster, Each, ++, NoDraws, Text, SCatalogOrderDetail,
     SCatalogOrderLineitem, Times, CatalogOrderLines
<1>6. Apart(bill, back)
  BY DEF Apart, SCatalogOrderMaster, Each, ++, NoDraws, Text, SCatalogReturnsRow, Plain,
     PlainBut, Times
<1>7. Apart(lines, back)
  BY DEF Apart, SCatalogOrderDetail, SCatalogOrderLineitem, Times, Each, ++,
     CatalogOrderLines, SCatalogReturnsRow, Plain, PlainBut
<1>8. Fits("s_catalog_order", Plus(bill, Plus(lines, back)))
  BY <1>2, <1>3, <1>4, <1>5, <1>6, <1>7, OrderFits
<1> QED  BY <1>1, <1>8, FitsBoth DEF SCatalogOrderRow, Plain, PlainBut, Shuffle

\* A row of s_purchase fits.
LEMMA SPurchaseFits ==
  ASSUME NEW r, NEW o \in Outcomes("s_purchase")
  PROVE  Fits("s_purchase", SPurchaseRow(r, o).draws)
<1> DEFINE shuffle == IF o.first THEN Each(1, {"S_PLINE_PERMUTE"}) ELSE NoDraws
           bill == SPurchaseMaster(o) ++ Each(1, {"S_PLINE_ITEM_ID"})
           lines == Times(PurchaseLines, SPurchaseDetail(o))
           back == Times(o.returned, SStoreReturnsRow(r, o).draws)
<1>0. /\ "s_purchase" \in Family("s_purchase") /\ "s_store_returns" \in Family("s_purchase")
      /\ "s_purchase_lineitem" \in Family("s_purchase")
      /\ o.lines \in 0..12 /\ o.returned \in 0..12
  BY FamilyOf, ChildrenAre DEF Outcomes, MostLines, PurchaseLines
<1>1. Fits("s_purchase", shuffle)
  <2>1. AtMost(shuffle, Each(1, {"S_PLINE_PERMUTE"}) ++ StreamsOf["s_purchase_lineitem"])
    BY DEF AtMost, Each, ++, NoDraws
  <2>2. /\ {"S_PLINE_PERMUTE"} \subseteq MayOverrun
        /\ {"S_PLINE_PERMUTE"} \subseteq DOMAIN StreamsOf["s_purchase_lineitem"]
    BY Named, SPurchaseLineitemBudgets DEF MayOverrun
  <2> QED  BY <1>0, <2>1, <2>2, Tables, OverrunFits
<1>2. Fits("s_purchase", bill)
  <2>1. AtMost(Each(1, {"S_PURCHASE_STORE_ID", "S_PURCHASE_CUSTOMER_ID",
                 "S_PURCHASE_REGISTER", "S_PURCHASE_CLERK"}), SPurchaseStreams)
    BY SPurchaseBudgets DEF AtMost, Each
  <2>2. AtMost(Text("S_PURCHASE_COMMENT", 61, o), SPurchaseStreams)
    BY SPurchaseBudgets DEF AtMost, Each, Text
  <2>3. AtMost(Each(1, {"S_PLINE_ITEM_ID"}), SPurchaseStreams)
    BY SPurchaseBudgets DEF AtMost, Each
  <2>4. AtMost(bill, SPurchaseStreams)
    BY <2>1, <2>2, <2>3, AtMostBoth DEF SPurchaseMaster
  <2> QED  BY <2>4, Named, Tables, FitsOwn
<1>3. Fits("s_purchase", lines)
  <2>1. AtMost(lines, SPurchaseLineitemStreams)
    BY <1>0, SPurchaseLineitemBudgets DEF AtMost, SPurchaseDetail, SPurchaseLineitem, Times,
       Each, ++, Text, PurchaseLines
  <2> QED  BY <1>0, <2>1, Named, Tables, FitsOf
<1>4. Fits("s_purchase", back)
  <2> DEFINE E == {"S_SRET_RETURN_TIME"}
  <2>1. AtMost(back, Each(24, E) ++ StreamsOf["s_store_returns"])
    BY <1>0, Named, SStoreReturnsBudgets DEF AtMost, SStoreReturnsRow, Plain, PlainBut,
       Times, Each, ++
  <2>2. E \subseteq MayOverrun /\ E \subseteq DOMAIN StreamsOf["s_store_returns"]
    BY Named, SStoreReturnsBudgets DEF MayOverrun
  <2> QED  BY <1>0, <2>1, <2>2, Tables, OverrunFits
<1>5. Apart(bill, lines)
  BY DEF Apart, SPurchaseMaster, Each, ++, NoDraws, Text, SPurchaseDetail, SPurchaseLineitem,
     Times, PurchaseLines
<1>6. Apart(bill, back)
  BY DEF Apart, SPurchaseMaster, Each, ++, NoDraws, Text, SStoreReturnsRow, Plain, PlainBut,
     Times
<1>7. Apart(lines, back)
  BY DEF Apart, SPurchaseDetail, SPurchaseLineitem, Times, Each, ++, Text, PurchaseLines,
     SStoreReturnsRow, Plain, PlainBut
<1>8. Fits("s_purchase", Plus(bill, Plus(lines, back)))
  BY <1>2, <1>3, <1>4, <1>5, <1>6, <1>7, OrderFits
<1> QED  BY <1>1, <1>8, FitsBoth DEF SPurchaseRow, Plain, PlainBut, Shuffle

\* A row of s_web_order fits.
LEMMA SWebOrderFits ==
  ASSUME NEW r, NEW o \in Outcomes("s_web_order")
  PROVE  Fits("s_web_order", SWebOrderRow(r, o).draws)
<1> DEFINE shuffle == IF o.first THEN Each(1, {"S_WLIN_PERMUTE"}) ELSE NoDraws
           bill == SWebOrderMaster(o) ++ Each(1, {"S_WLIN_ITEM_ID"})
           lines == Times(WebOrderLines, SWebOrderDetail)
           back == Times(o.returned, SWebReturnsRow(r, o).draws)
<1>0. /\ "s_web_order" \in Family("s_web_order") /\ "s_web_returns" \in Family("s_web_order")
      /\ "s_web_order_lineitem" \in Family("s_web_order")
      /\ o.lines \in 0..12 /\ o.returned \in 0..12
  BY FamilyOf, ChildrenAre DEF Outcomes, MostLines, WebOrderLines
<1>1. Fits("s_web_order", shuffle)
  <2>1. AtMost(shuffle, Each(1, {"S_WLIN_PERMUTE"}) ++ StreamsOf["s_web_order_lineitem"])
    BY DEF AtMost, Each, ++, NoDraws
  <2>2. /\ {"S_WLIN_PERMUTE"} \subseteq MayOverrun
        /\ {"S_WLIN_PERMUTE"} \subseteq DOMAIN StreamsOf["s_web_order_lineitem"]
    BY Named, SWebOrderLineitemBudgets DEF MayOverrun
  <2> QED  BY <1>0, <2>1, <2>2, Tables, OverrunFits
<1>2. Fits("s_web_order", bill)
  <2>1. AtMost(Each(1, {"S_WORD_ORDER_TIME", "S_WORD_BILL_CUSTOMER_ID",
                 "S_WORD_SHIP_MODE_ID", "S_WORD_WEB_SITE_ID"}), SWebOrderStreams)
    BY SWebOrderBudgets DEF AtMost, Each
  <2>2. AtMost(Each(IF o.gift THEN 2 ELSE 1, {"S_WORD_SHIP_CUSTOMER_ID"}), SWebOrderStreams)
    BY SWebOrderBudgets DEF AtMost, Each
  <2>3. AtMost(Text("S_WORD_COMMENT", 61, o), SWebOrderStreams)
    BY SWebOrderBudgets DEF AtMost, Each, Text
  <2>4. AtMost(Each(1, {"S_WLIN_ITEM_ID"}), SWebOrderStreams)
    BY SWebOrderBudgets DEF AtMost, Each
  <2>5. AtMost(bill, SWebOrderStreams)
    BY <2>1, <2>2, <2>3, <2>4, AtMostBoth DEF SWebOrderMaster
  <2> QED  BY <2>5, Named, Tables, FitsOwn
<1>3. Fits("s_web_order", lines)
  <2>1. AtMost(lines, SWebOrderLineitemStreams)
    BY <1>0, SWebOrderLineitemBudgets DEF AtMost, SWebOrderDetail, SWebOrderLineitem, Times,
       Each, ++, WebOrderLines
  <2> QED  BY <1>0, <2>1, Named, Tables, FitsOf
<1>4. Fits("s_web_order", back)
  <2> DEFINE E == {"S_WRET_RETURN_TIME", "S_WRET_REASON_ID"}
  <2>1. AtMost(back, Each(24, E) ++ StreamsOf["s_web_returns"])
    BY <1>0, Named, SWebReturnsBudgets DEF AtMost, SWebReturnsRow, Plain, PlainBut, Times,
       Each, ++
  <2>2. E \subseteq MayOverrun /\ E \subseteq DOMAIN StreamsOf["s_web_returns"]
    BY Named, SWebReturnsBudgets DEF MayOverrun
  <2> QED  BY <1>0, <2>1, <2>2, Tables, OverrunFits
<1>5. Apart(bill, lines)
  BY DEF Apart, SWebOrderMaster, Each, ++, NoDraws, Text, SWebOrderDetail, SWebOrderLineitem,
     Times, WebOrderLines
<1>6. Apart(bill, back)
  BY DEF Apart, SWebOrderMaster, Each, ++, NoDraws, Text, SWebReturnsRow, Plain, PlainBut,
     Times
<1>7. Apart(lines, back)
  BY DEF Apart, SWebOrderDetail, SWebOrderLineitem, Times, Each, ++, WebOrderLines,
     SWebReturnsRow, Plain, PlainBut
<1>8. Fits("s_web_order", Plus(bill, Plus(lines, back)))
  BY <1>2, <1>3, <1>4, <1>5, <1>6, <1>7, OrderFits
<1> QED  BY <1>1, <1>8, FitsBoth DEF SWebOrderRow, Plain, PlainBut, Shuffle

\* A table without children stops its own streams only.
LEMMA OwnAlone ==
  ASSUME NEW t, Children(t) = {}
  PROVE  OwnStreams(t) = DOMAIN StreamsOf[t]
  BY FamilyOf DEF OwnStreams

\* A row of s_call_center fits.
LEMMA SCallCenterFits ==
  ASSUME NEW r, NEW o
  PROVE  Fits("s_call_center", SCallCenterRow(r, o).draws)
<1> DEFINE b == CallCenterRow(o.sk, o)
           d == Plus(Shuffle("S_CALL_CENTER_ID", o),
                  PickVersion("S_CALL_CENTER_ID", o.sk))
           own == StreamsOf["s_call_center"]
<1>1. "s_call_center" \in Family("s_call_center") /\ "call_center" \in WrappedBy("s_call_center")
  BY FamilyOf, WrapsAre
<1>2. Fits("s_call_center", b.draws)
  BY <1>1, Named, Tables, CallCenterDraws, FitsOf
<1>3. Fits("s_call_center", d)
  <2>1. AtMost(d, Each(2, {"S_CALL_CENTER_ID"}) ++ own)
    BY Named, SCallCenterBudgets DEF AtMost, Each, ++, Shuffle, NoDraws, PickVersion, Plus
  <2>2. /\ {"S_CALL_CENTER_ID"} \subseteq MayOverrun
        /\ {"S_CALL_CENTER_ID"} \subseteq DOMAIN own
    BY Named, SCallCenterBudgets DEF MayOverrun
  <2> QED  BY <1>1, <2>1, <2>2, Tables, OverrunFits
<1>4. Apart(b.draws, d)
  <2>1. DOMAIN b.draws \subseteq DOMAIN CallCenterStreams
    BY CallCenterDraws DEF AtMost
  <2> QED  BY <2>1, CallCenterBudgets DEF Apart, Each, ++, Shuffle, NoDraws, PickVersion, Plus
<1>5. IsRow(b)
  BY CallCenterShape
<1>6. Fits("s_call_center", Wrapped(b, d).draws)
  BY <1>2, <1>3, <1>4, <1>5, WrapsAre, WrapperFits
<1> QED  BY <1>6 DEF SCallCenterRow

\* A row of s_item fits.
LEMMA SItemFits ==
  ASSUME NEW r, NEW o
  PROVE  Fits("s_item", SItemRow(r, o).draws)
<1> DEFINE b == ItemRow(o.sk, o)
           d == Shuffle("S_ITEM_PERMUTE", o) ++ PickVersion("S_ITEM_ID", o.sk)
           own == StreamsOf["s_item"]
<1>1. "s_item" \in Family("s_item") /\ "item" \in WrappedBy("s_item")
  BY FamilyOf, WrapsAre
<1>2. Fits("s_item", b.draws)
  <2>1. {"CC_HOURS"} \subseteq Touched("s_item")
    <3>1. Borrowed("s_item") = {"CC_HOURS"}
      BY WrapsAre DEF Borrowed, WrappedBy
    <3>2. \A t : Borrowed(t) \subseteq Touched(t)
      BY DEF Touched
    <3> QED  BY <3>1, <3>2
  <2>2. "CC_HOURS" \notin Stopped("s_item")
    <3>1. Children("s_item") = {} /\ Children("item") = {}
      BY ChildrenAre DEF ChildOf, RefreshChildOf
    <3>2. OwnStreams("s_item") = DOMAIN SItemStreams /\ OwnStreams("item") = DOMAIN ItemStreams
      BY <3>1, OwnAlone, Named
    <3>3. Stopped("s_item") = DOMAIN SItemStreams \cup DOMAIN ItemStreams
      BY <3>2, WrapsAre DEF Stopped, StopsWrapped
    <3> QED  BY <3>3, SItemBudgets, ItemBudgets
  <2> QED  BY <1>1, <2>1, <2>2, Named, Tables, ItemDraws, FitsIn
<1>3. Fits("s_item", d)
  <2>1. AtMost(d, Each(1, {"S_ITEM_PERMUTE"}) ++ own)
    BY Named, SItemBudgets DEF AtMost, Each, ++, Shuffle, NoDraws, PickVersion
  <2>2. /\ {"S_ITEM_PERMUTE"} \subseteq MayOverrun
        /\ {"S_ITEM_PERMUTE"} \subseteq DOMAIN own
    BY Named, SItemBudgets DEF MayOverrun
  <2> QED  BY <1>1, <2>1, <2>2, Tables, OverrunFits
<1>4. Apart(b.draws, d)
  <2>1. DOMAIN b.draws \subseteq DOMAIN ItemStreams \cup {"CC_HOURS"}
    BY ItemDraws DEF AtMost, Each, ++
  <2> QED  BY <2>1, ItemBudgets DEF Apart, Each, ++, Shuffle, NoDraws, PickVersion
<1>5. IsRow(b)
  BY ItemShape
<1>6. Fits("s_item", Wrapped(b, d).draws)
  BY <1>2, <1>3, <1>4, <1>5, WrapsAre, WrapperFits
<1> QED  BY <1>6 DEF SItemRow

\* A row of s_promotion fits.
LEMMA SPromotionFits ==
  ASSUME NEW r, NEW o
  PROVE  Fits("s_promotion", SPromotionRow(r, o).draws)
<1> DEFINE b == PromotionRow(o.sk, o)
           d == Shuffle("S_PROMOTION_ID", o)
           own == StreamsOf["s_promotion"]
<1>1. "s_promotion" \in Family("s_promotion") /\ "promotion" \in WrappedBy("s_promotion")
  BY FamilyOf, WrapsAre
<1>2. Fits("s_promotion", b.draws)
  BY <1>1, Named, Tables, PromotionDraws, FitsOf
<1>3. Fits("s_promotion", d)
  <2>1. AtMost(d, Each(1, {"S_PROMOTION_ID"}) ++ own)
    BY Named, SPromotionBudgets DEF AtMost, Each, ++, Shuffle, NoDraws
  <2>2. /\ {"S_PROMOTION_ID"} \subseteq MayOverrun
        /\ {"S_PROMOTION_ID"} \subseteq DOMAIN own
    BY Named, SPromotionBudgets DEF MayOverrun
  <2> QED  BY <1>1, <2>1, <2>2, Tables, OverrunFits
<1>4. Apart(b.draws, d)
  <2>1. DOMAIN b.draws \subseteq DOMAIN PromotionStreams
    BY PromotionDraws DEF AtMost
  <2> QED  BY <2>1, PromotionBudgets DEF Apart, Each, ++, Shuffle, NoDraws
<1>5. IsRow(b)
  BY PromotionShape
<1>6. Fits("s_promotion", Wrapped(b, d).draws)
  BY <1>2, <1>3, <1>4, <1>5, WrapsAre, WrapperFits
<1> QED  BY <1>6 DEF SPromotionRow

\* A row of s_store fits.
LEMMA SStoreFits ==
  ASSUME NEW r, NEW o
  PROVE  Fits("s_store", SStoreRow(r, o).draws)
<1> DEFINE b == StoreRow(o.sk, o)
           d == Plus(Shuffle("S_STORE_ID", o), PickVersion("S_STORE_ID",
                  o.sk))
           own == StreamsOf["s_store"]
<1>1. "s_store" \in Family("s_store") /\ "store" \in WrappedBy("s_store")
  BY FamilyOf, WrapsAre
<1>2. Fits("s_store", b.draws)
  BY <1>1, Named, Tables, StoreDraws, FitsOf
<1>3. Fits("s_store", d)
  <2>1. AtMost(d, Each(2, {"S_STORE_ID"}) ++ own)
    BY Named, SStoreBudgets DEF AtMost, Each, ++, Shuffle, NoDraws, PickVersion, Plus
  <2>2. /\ {"S_STORE_ID"} \subseteq MayOverrun
        /\ {"S_STORE_ID"} \subseteq DOMAIN own
    BY Named, SStoreBudgets DEF MayOverrun
  <2> QED  BY <1>1, <2>1, <2>2, Tables, OverrunFits
<1>4. Apart(b.draws, d)
  <2>1. DOMAIN b.draws \subseteq DOMAIN StoreStreams
    BY StoreDraws DEF AtMost
  <2> QED  BY <2>1, StoreBudgets DEF Apart, Each, ++, Shuffle, NoDraws, PickVersion, Plus
<1>5. IsRow(b)
  BY StoreShape
<1>6. Fits("s_store", Wrapped(b, d).draws)
  BY <1>2, <1>3, <1>4, <1>5, WrapsAre, WrapperFits
<1> QED  BY <1>6 DEF SStoreRow

\* A row of s_warehouse fits.
LEMMA SWarehouseFits ==
  ASSUME NEW r, NEW o
  PROVE  Fits("s_warehouse", SWarehouseRow(r, o).draws)
<1> DEFINE b == WarehouseRow(o.sk, o)
           d == Shuffle("S_WRHS_ID", o)
           own == StreamsOf["s_warehouse"]
<1>1. "s_warehouse" \in Family("s_warehouse") /\ "warehouse" \in WrappedBy("s_warehouse")
  BY FamilyOf, WrapsAre
<1>2. Fits("s_warehouse", b.draws)
  BY <1>1, Named, Tables, WarehouseDraws, FitsOf
<1>3. Fits("s_warehouse", d)
  <2>1. AtMost(d, Each(1, {"S_WRHS_ID"}) ++ own)
    BY Named, SWarehouseBudgets DEF AtMost, Each, ++, Shuffle, NoDraws
  <2>2. /\ {"S_WRHS_ID"} \subseteq MayOverrun
        /\ {"S_WRHS_ID"} \subseteq DOMAIN own
    BY Named, SWarehouseBudgets DEF MayOverrun
  <2> QED  BY <1>1, <2>1, <2>2, Tables, OverrunFits
<1>4. Apart(b.draws, d)
  <2>1. DOMAIN b.draws \subseteq DOMAIN WarehouseStreams
    BY WarehouseDraws DEF AtMost
  <2> QED  BY <2>1, WarehouseBudgets DEF Apart, Each, ++, Shuffle, NoDraws
<1>5. IsRow(b)
  BY WarehouseShape
<1>6. Fits("s_warehouse", Wrapped(b, d).draws)
  BY <1>2, <1>3, <1>4, <1>5, WrapsAre, WrapperFits
<1> QED  BY <1>6 DEF SWarehouseRow

\* A row of s_web_page fits.
LEMMA SWebPageFits ==
  ASSUME NEW r, NEW o
  PROVE  Fits("s_web_page", SWebPageRow(r, o).draws)
<1> DEFINE b == WebPageRow(o.sk, o)
           d == Shuffle("S_WPAG_PERMUTE", o) ++ PickVersion("S_WPAG_ID", o.sk)
           own == StreamsOf["s_web_page"]
<1>1. "s_web_page" \in Family("s_web_page") /\ "web_page" \in WrappedBy("s_web_page")
  BY FamilyOf, WrapsAre
<1>2. Fits("s_web_page", b.draws)
  BY <1>1, Named, Tables, WebPageDraws, FitsOf
<1>3. Fits("s_web_page", d)
  <2>1. AtMost(d, Each(1, {"S_WPAG_PERMUTE"}) ++ own)
    BY Named, SWebPageBudgets DEF AtMost, Each, ++, Shuffle, NoDraws, PickVersion
  <2>2. /\ {"S_WPAG_PERMUTE"} \subseteq MayOverrun
        /\ {"S_WPAG_PERMUTE"} \subseteq DOMAIN own
    BY Named, SWebPageBudgets DEF MayOverrun
  <2> QED  BY <1>1, <2>1, <2>2, Tables, OverrunFits
<1>4. Apart(b.draws, d)
  <2>1. DOMAIN b.draws \subseteq DOMAIN WebPageStreams
    BY WebPageDraws DEF AtMost
  <2> QED  BY <2>1, WebPageBudgets DEF Apart, Each, ++, Shuffle, NoDraws, PickVersion
<1>5. IsRow(b)
  BY WebPageShape
<1>6. Fits("s_web_page", Wrapped(b, d).draws)
  BY <1>2, <1>3, <1>4, <1>5, WrapsAre, WrapperFits
<1> QED  BY <1>6 DEF SWebPageRow

\* A row of s_customer fits.
LEMMA SCustomerFits ==
  ASSUME NEW r, NEW o
  PROVE  Fits("s_customer", SCustomerRow(r, o).draws)
<1> DEFINE b == CustomerAddressRow(r, o)
           d == Shuffle("S_CUST_ID", o) ++ Each(1, {"S_CUST_GENDER",
                  "S_CUST_FIRST_NAME", "S_CUST_SALUTATION",
                  "S_CUST_LAST_NAME", "S_CUST_PREFERRED_FLAG",
                  "S_CUST_BIRTH_DATE", "S_CUST_FIRST_PURCHASE_DATE",
                  "S_CUST_FIRST_SHIPTO_DATE", "S_CUST_LAST_LOGIN",
                  "S_CUST_LAST_REVIEW", "S_CUST_LOCATION_TYPE",
                  "S_CUST_VEHICLE_CNT", "S_CUST_INCOME",
                  "S_CUST_PURCHASE_ESTIMATE"}) ++ Each(14,
                  {"S_CUST_LOGIN"}) ++ Each(23, {"S_CUST_EMAIL"}) ++ Each(4,
                  {"S_CUST_PRIMARY_MACHINE", "S_CUST_SECONDARY_MACHINE"})
           own == StreamsOf["s_customer"]
<1>1. "s_customer" \in Family("s_customer") /\ "customer_address" \in WrappedBy("s_customer")
  BY FamilyOf, WrapsAre
<1>2. Fits("s_customer", b.draws)
  BY <1>1, Named, Tables, CustomerAddressDraws, FitsOf
<1>3. Fits("s_customer", d)
  <2>1. AtMost(Shuffle("S_CUST_ID", o), Each(1, {"S_CUST_ID"}) ++ own)
    BY Named, SCustomerBudgets DEF AtMost, Each, Shuffle, ++, NoDraws
  <2>2. AtMost(Each(1, {"S_CUST_GENDER", "S_CUST_FIRST_NAME",
                 "S_CUST_SALUTATION", "S_CUST_LAST_NAME",
                 "S_CUST_PREFERRED_FLAG", "S_CUST_BIRTH_DATE",
                 "S_CUST_FIRST_PURCHASE_DATE", "S_CUST_FIRST_SHIPTO_DATE",
                 "S_CUST_LAST_LOGIN", "S_CUST_LAST_REVIEW",
                 "S_CUST_LOCATION_TYPE", "S_CUST_VEHICLE_CNT",
                 "S_CUST_INCOME", "S_CUST_PURCHASE_ESTIMATE"}), Each(1, {"S_CUST_ID"}) ++ own)
    BY Named, SCustomerBudgets DEF AtMost, Each, ++
  <2>3. AtMost(Each(14, {"S_CUST_LOGIN"}), Each(1, {"S_CUST_ID"}) ++ own)
    BY Named, SCustomerBudgets DEF AtMost, Each, ++
  <2>4. AtMost(Each(23, {"S_CUST_EMAIL"}), Each(1, {"S_CUST_ID"}) ++ own)
    BY Named, SCustomerBudgets DEF AtMost, Each, ++
  <2>5. AtMost(Each(4, {"S_CUST_PRIMARY_MACHINE", "S_CUST_SECONDARY_MACHINE"}),
               Each(1, {"S_CUST_ID"}) ++ own)
    BY Named, SCustomerBudgets DEF AtMost, Each, ++
  <2>6. AtMost(d, Each(1, {"S_CUST_ID"}) ++ own)
    BY <2>1, <2>2, <2>3, <2>4, <2>5, AtMostBoth
  <2>7. {"S_CUST_ID"} \subseteq MayOverrun /\ {"S_CUST_ID"} \subseteq DOMAIN own
    BY Named, SCustomerBudgets DEF MayOverrun
  <2> QED  BY <1>1, <2>6, <2>7, Tables, OverrunFits
<1>4. Apart(b.draws, d)
  <2>1. DOMAIN b.draws \subseteq DOMAIN CustomerAddressStreams
    BY CustomerAddressDraws DEF AtMost
  <2> QED  BY <2>1, CustomerAddressBudgets DEF Apart, Each, ++, Shuffle, NoDraws
<1>5. IsRow(b)
  BY CustomerAddressShape
<1>6. Fits("s_customer", Wrapped(b, d).draws)
  BY <1>2, <1>3, <1>4, <1>5, WrapsAre, WrapperFits
<1>7. IsRow(Wrapped(b, d))
  BY <1>5, WrappedShape
<1> QED  BY <1>6, <1>7 DEF SCustomerRow, IsRow

\* A row of item fits.
LEMMA ItemFits ==
  ASSUME NEW r, NEW o
  PROVE  Fits("item", ItemRow(r, o).draws)
<1>1. Borrowed("item") = {"CC_HOURS"} /\ \A t : Borrowed(t) \subseteq Touched(t)
  BY DEF Borrowed, Touched
<1>2. Children("item") = {} /\ "item" \notin StopsWrapped
  BY ChildrenAre DEF ChildOf, RefreshChildOf, StopsWrapped
<1>3. OwnStreams("item") = DOMAIN ItemStreams
  BY <1>2, OwnAlone, Named
<1>4. "CC_HOURS" \notin Stopped("item")
  BY <1>2, <1>3, ItemBudgets DEF Stopped
<1>5. "item" \in Family("item")
  BY FamilyOf
<1> QED  BY <1>1, <1>4, <1>5, Named, Tables, ItemDraws, FitsIn

\* A row of web_site fits.
LEMMA WebSiteFits ==
  ASSUME NEW t \in {"web_site", "s_web_site"}, NEW r, NEW o
  PROVE  Fits(t, WebSiteRow(r, o).draws)
<1>1. "web_site" \in Family(t) \cup WrappedBy(t)
  BY FamilyOf, WrapsAre
<1>2. {"WEB_MARKET_CLASS"} \subseteq MayOverrun
  BY DEF MayOverrun
<1>3. {"WEB_MARKET_CLASS"} \subseteq DOMAIN StreamsOf["web_site"]
  BY Named, WebSiteBudgets
<1> QED  BY <1>1, <1>2, <1>3, Named, Tables, WebSiteDraws, OverrunFits

\* The numbers a row takes are of its table, and within the budgets.
LEMMA RowFits ==
  ASSUME NEW t \in DriverTables, NEW r, NEW o \in Outcomes(t)
  PROVE  Fits(t, Row(t, r, o).draws)
<1>1. CASE t = "call_center"
  BY <1>1, CallCenterDraws, FitsOwn, Named, Tables, WarehouseRowsNamed
<1>2. CASE t = "catalog_page"
  BY <1>2, CatalogPageDraws, FitsOwn, Named, Tables, WarehouseRowsNamed
<1>3. CASE t = "catalog_sales"
  BY <1>3, CatalogSalesFits, WarehouseRowsNamed
<1>4. CASE t = "customer"
  BY <1>4, CustomerDraws, FitsOwn, Named, Tables, WarehouseRowsNamed
<1>5. CASE t = "customer_address"
  BY <1>5, CustomerAddressDraws, FitsOwn, Named, Tables, WarehouseRowsNamed
<1>6. CASE t = "customer_demographics"
  BY <1>6, CustomerDemographicsDraws, FitsOwn, Named, Tables, WarehouseRowsNamed
<1>7. CASE t = "date_dim"
  BY <1>7, DateDraws, FitsOwn, Named, Tables, WarehouseRowsNamed
<1>8. CASE t = "household_demographics"
  BY <1>8, HouseholdDemographicsDraws, FitsOwn, Named, Tables, WarehouseRowsNamed
<1>9. CASE t = "income_band"
  BY <1>9, IncomeBandDraws, FitsOwn, Named, Tables, WarehouseRowsNamed
<1>10. CASE t = "inventory"
  BY <1>10, InventoryDraws, FitsOwn, Named, Tables, WarehouseRowsNamed
<1>11. CASE t = "item"
  BY <1>11, ItemFits, WarehouseRowsNamed
<1>12. CASE t = "promotion"
  BY <1>12, PromotionDraws, FitsOwn, Named, Tables, WarehouseRowsNamed
<1>13. CASE t = "reason"
  BY <1>13, ReasonDraws, FitsOwn, Named, Tables, WarehouseRowsNamed
<1>14. CASE t = "ship_mode"
  BY <1>14, ShipModeDraws, FitsOwn, Named, Tables, WarehouseRowsNamed
<1>15. CASE t = "store"
  BY <1>15, StoreDraws, FitsOwn, Named, Tables, WarehouseRowsNamed
<1>16. CASE t = "store_sales"
  BY <1>16, StoreSalesFits, WarehouseRowsNamed
<1>17. CASE t = "time_dim"
  BY <1>17, TimeDraws, FitsOwn, Named, Tables, WarehouseRowsNamed
<1>18. CASE t = "warehouse"
  BY <1>18, WarehouseDraws, FitsOwn, Named, Tables, WarehouseRowsNamed
<1>19. CASE t = "web_page"
  BY <1>19, WebPageDraws, FitsOwn, Named, Tables, WarehouseRowsNamed
<1>20. CASE t = "web_sales"
  BY <1>20, WebSalesFits, WarehouseRowsNamed
<1>21. CASE t = "web_site"
  BY <1>21, WebSiteFits, WarehouseRowsNamed
<1>22. CASE t = "dbgen_version"
  BY <1>22, WarehouseRowsNamed DEF DbgenVersionRow, Fits, NoDraws, Plain, PlainBut
<1>23. CASE t = "s_call_center"
  BY <1>23, SCallCenterFits, RefreshRowsNamed
<1>24. CASE t = "s_catalog_order"
  BY <1>24, SCatalogOrderFits, RefreshRowsNamed
<1>25. CASE t = "s_catalog_page"
  <2>1. "catalog_page" \in WrappedBy(t)
    BY <1>25, FamilyOf, WrapsAre
  <2> QED  BY <1>25, <2>1, CatalogPageDraws, FitsOf, Named, Tables, RefreshRowsNamed
              DEF SCatalogPageRow
<1>26. CASE t = "s_customer"
  BY <1>26, SCustomerFits, RefreshRowsNamed
<1>27. CASE t = "s_customer_address"
  <2>1. "customer_address" \in WrappedBy(t)
    BY <1>27, FamilyOf, WrapsAre
  <2> QED  BY <1>27, <2>1, CustomerAddressDraws, FitsOf, Named, Tables, RefreshRowsNamed
              DEF SCustomerAddressRow
<1>28. CASE t = "s_inventory"
  BY <1>28, SInventoryDraws, FitsOwn, Named, Tables, RefreshRowsNamed
<1>29. CASE t = "s_item"
  BY <1>29, SItemFits, RefreshRowsNamed
<1>30. CASE t = "s_promotion"
  BY <1>30, SPromotionFits, RefreshRowsNamed
<1>31. CASE t = "s_purchase"
  BY <1>31, SPurchaseFits, RefreshRowsNamed
<1>32. CASE t = "s_store"
  BY <1>32, SStoreFits, RefreshRowsNamed
<1>33. CASE t = "s_warehouse"
  BY <1>33, SWarehouseFits, RefreshRowsNamed
<1>34. CASE t = "s_web_order"
  BY <1>34, SWebOrderFits, RefreshRowsNamed
<1>35. CASE t = "s_web_page"
  BY <1>35, SWebPageFits, RefreshRowsNamed
<1>36. CASE t = "s_web_site"
  BY <1>36, WebSiteFits, RefreshRowsNamed DEF SWebSiteRow
<1>37. CASE t = "s_zip_to_gmt"
  BY <1>37, RefreshRowsNamed DEF SZipRow, Fits, NoDraws, Plain, PlainBut
<1> QED  BY <1>1, <1>2, <1>3, <1>4, <1>5, <1>6, <1>7, <1>8, <1>9, <1>10, <1>11, <1>12, <1>13,
            <1>14, <1>15, <1>16, <1>17, <1>18, <1>19, <1>20, <1>21, <1>22, <1>23, <1>24,
            <1>25, <1>26, <1>27, <1>28, <1>29, <1>30, <1>31, <1>32, <1>33, <1>34, <1>35,
            <1>36, <1>37, DriverTablesAre

\* The tables whose builders keep what an earlier row computed.
Versioned ==
  {"call_center", "item", "store", "web_page", "web_site", "s_call_center",
   "s_item", "s_store", "s_web_page", "s_web_site"}

\* What a row fixes and changes does not depend on its number or its choices.
LEMMA RowShape ==
  ASSUME NEW t \in DriverTables, NEW r, NEW o, NEW q, NEW p
  PROVE  /\ SameShape(Row(t, r, o), Row(t, q, p))
         /\ t \notin Versioned => IsPlain(Row(t, r, o))
<1>1. CASE t = "call_center"
  BY <1>1, CallCenterShape, WarehouseRowsNamed DEF Versioned
<1>2. CASE t = "catalog_page"
  BY <1>2, CatalogPageShape, WarehouseRowsNamed
<1>3. CASE t = "catalog_sales"
  BY <1>3, CatalogSalesShape, WarehouseRowsNamed
<1>4. CASE t = "customer"
  BY <1>4, CustomerShape, WarehouseRowsNamed
<1>5. CASE t = "customer_address"
  BY <1>5, CustomerAddressShape, WarehouseRowsNamed
<1>6. CASE t = "customer_demographics"
  BY <1>6, CustomerDemographicsShape, WarehouseRowsNamed
<1>7. CASE t = "date_dim"
  BY <1>7, DateShape, WarehouseRowsNamed
<1>8. CASE t = "household_demographics"
  BY <1>8, HouseholdDemographicsShape, WarehouseRowsNamed
<1>9. CASE t = "income_band"
  BY <1>9, IncomeBandShape, WarehouseRowsNamed
<1>10. CASE t = "inventory"
  BY <1>10, InventoryShape, WarehouseRowsNamed
<1>11. CASE t = "item"
  BY <1>11, ItemShape, WarehouseRowsNamed DEF Versioned
<1>12. CASE t = "promotion"
  BY <1>12, PromotionShape, WarehouseRowsNamed
<1>13. CASE t = "reason"
  BY <1>13, ReasonShape, WarehouseRowsNamed
<1>14. CASE t = "ship_mode"
  BY <1>14, ShipModeShape, WarehouseRowsNamed
<1>15. CASE t = "store"
  BY <1>15, StoreShape, WarehouseRowsNamed DEF Versioned
<1>16. CASE t = "store_sales"
  BY <1>16, StoreSalesShape, WarehouseRowsNamed
<1>17. CASE t = "time_dim"
  BY <1>17, TimeShape, WarehouseRowsNamed
<1>18. CASE t = "warehouse"
  BY <1>18, WarehouseShape, WarehouseRowsNamed
<1>19. CASE t = "web_page"
  BY <1>19, WebPageShape, WarehouseRowsNamed DEF Versioned
<1>20. CASE t = "web_sales"
  BY <1>20, WebSalesShape, WarehouseRowsNamed
<1>21. CASE t = "web_site"
  BY <1>21, WebSiteShape, WarehouseRowsNamed DEF Versioned
<1>22. CASE t = "dbgen_version"
  BY <1>22, DbgenVersionShape, WarehouseRowsNamed
<1>23. CASE t = "s_call_center"
  BY <1>23, SCallCenterShape, RefreshRowsNamed DEF Versioned
<1>24. CASE t = "s_catalog_order"
  BY <1>24, SCatalogOrderShape, RefreshRowsNamed
<1>25. CASE t = "s_catalog_page"
  BY <1>25, CatalogPageShape, RefreshRowsNamed DEF SCatalogPageRow
<1>26. CASE t = "s_customer"
  BY <1>26, SCustomerShape, RefreshRowsNamed
<1>27. CASE t = "s_customer_address"
  BY <1>27, CustomerAddressShape, RefreshRowsNamed DEF SCustomerAddressRow
<1>28. CASE t = "s_inventory"
  BY <1>28, SInventoryShape, RefreshRowsNamed
<1>29. CASE t = "s_item"
  BY <1>29, SItemShape, RefreshRowsNamed DEF Versioned
<1>30. CASE t = "s_promotion"
  BY <1>30, SPromotionShape, RefreshRowsNamed
<1>31. CASE t = "s_purchase"
  BY <1>31, SPurchaseShape, RefreshRowsNamed
<1>32. CASE t = "s_store"
  BY <1>32, SStoreShape, RefreshRowsNamed DEF Versioned
<1>33. CASE t = "s_warehouse"
  BY <1>33, SWarehouseShape, RefreshRowsNamed
<1>34. CASE t = "s_web_order"
  BY <1>34, SWebOrderShape, RefreshRowsNamed
<1>35. CASE t = "s_web_page"
  BY <1>35, SWebPageShape, RefreshRowsNamed DEF Versioned
<1>36. CASE t = "s_web_site"
  BY <1>36, WebSiteShape, RefreshRowsNamed DEF SWebSiteRow, Versioned
<1>37. CASE t = "s_zip_to_gmt"
  BY <1>37, SZipShape, RefreshRowsNamed
<1> QED  BY <1>1, <1>2, <1>3, <1>4, <1>5, <1>6, <1>7, <1>8, <1>9, <1>10, <1>11, <1>12, <1>13,
            <1>14, <1>15, <1>16, <1>17, <1>18, <1>19, <1>20, <1>21, <1>22, <1>23, <1>24,
            <1>25, <1>26, <1>27, <1>28, <1>29, <1>30, <1>31, <1>32, <1>33, <1>34, <1>35,
            <1>36, <1>37, DriverTablesAre

-----------------------------------------------------------------------------
(***************************************************************************)
(* The memory of the generator, and what each function does to it.         *)
(***************************************************************************)

\* What the generator can have in memory while it builds t from the streams S.
Memory(S, t) ==
  [pos : [S -> Nat], used : [S -> Nat],
   cur : [PrintedColumns(t) -> 0..MaxRow], old : [PrintedColumns(t) -> 0..MaxRow],
   started : BOOLEAN, shuffled : Int, over : SUBSET AllStreams]

\* A process that builds t and has its streams.
Serves(S, t) == t \in DriverTables /\ Touched(t) \subseteq S /\ S \subseteq AllStreams

\* How the choices of a row come out; the first one draws the permutation.
ChoicesOf(g, t, r, luck) == [Outcome(luck, t, r) EXCEPT !.first = ~g.started]

\* The tables a builder works with are those of the schemas.
LEMMA TablesKnown ==
  ASSUME NEW t \in DriverTables
  PROVE  /\ t \in DOMAIN StreamsOf
         /\ Family(t) \cup WrappedBy(t) \subseteq DOMAIN StreamsOf
         /\ t \in DOMAIN Wraps => Wraps[t] \in DOMAIN StreamsOf /\ Children(Wraps[t]) = {}
<1>1. t \in DOMAIN StreamsOf
  BY DEF DriverTables, StreamsOf, ++, WarehouseTables, RefreshTables
<1>2. \A u \in DOMAIN StreamsOf : Children(u) \subseteq DOMAIN StreamsOf
  BY ChildrenAre, Tables DEF ChildOf, RefreshChildOf
<1>3. Family(t) \subseteq DOMAIN StreamsOf
  BY <1>1, <1>2 DEF Family
<1>4. t \in DOMAIN Wraps => Wraps[t] \in DOMAIN StreamsOf /\ Children(Wraps[t]) = {}
  BY WrapsAre, Tables, ChildrenAre DEF ChildOf, RefreshChildOf
<1> QED  BY <1>1, <1>3, <1>4 DEF WrappedBy

\* The streams it touches, and those it stops, are known.
LEMMA StreamsKnown ==
  ASSUME NEW t \in DriverTables
  PROVE  /\ Touched(t) \subseteq AllStreams
         /\ OwnStreams(t) \subseteq Stopped(t) /\ Stopped(t) \subseteq Touched(t)
         /\ t \in StopsWrapped => OwnStreams(Wraps[t]) \subseteq Stopped(t)
<1>1. OwnStreams(t) \subseteq AllStreams
  BY TablesKnown, AllStreamsAre DEF OwnStreams
<1>2. "CC_HOURS" \in AllStreams
  BY Named, CallCenterBudgets, Tables, AllStreamsAre
<1>3. Borrowed(t) \subseteq AllStreams
  BY <1>2 DEF Borrowed
<1>4. Touched(t) \subseteq AllStreams
  BY <1>1, <1>3, TablesKnown, AllStreamsAre DEF Touched
<1>5. t \in StopsWrapped => t \in DOMAIN Wraps
  BY WrapsAre DEF StopsWrapped
<1>6. ASSUME t \in StopsWrapped PROVE OwnStreams(Wraps[t]) \subseteq Touched(t)
  BY <1>5, <1>6, TablesKnown, OwnAlone, FamilyOf, TouchedOf
<1>7. Stopped(t) \subseteq Touched(t)
  BY <1>6 DEF Stopped, Touched
<1> QED  BY <1>4, <1>7 DEF Stopped

\* A permutation is drawn from a stream of the table; rows have no share of it
\* but in the few tables that pick rows from the same stream.
LEMMA ShuffleStreamKnown ==
  ASSUME NEW t \in DriverTables, t \in DOMAIN ShuffleStream
  PROVE  /\ ShuffleStream[t] \in Touched(t) \ Borrowed(t)
         /\ ShuffleStream[t] \in OwnStreams(t)
         /\ t # "s_promotion" =>
              t \in {"s_call_center", "s_store", "s_warehouse"} \/ PerRow[ShuffleStream[t]] = 0
<1>1. \A u \in Family(t) : \A q : q \in DOMAIN StreamsOf[u] => q \in OwnStreams(t)
  BY DEF OwnStreams
<1>2. CASE t = "catalog_sales"
  <2>1. ShuffleStream[t] = "CS_PERMUTE" /\ "catalog_sales" \in Family(t)
    BY <1>2, FamilyOf, ChildrenAre DEF ShuffleStream
  <2>2. "CS_PERMUTE" \in DOMAIN StreamsOf["catalog_sales"]
    BY Named, CatalogSalesBudgets
  <2> QED  BY <1>1, <1>2, <2>1, <2>2, PerRowIs, Tables, Named, CatalogSalesBudgets
              DEF Touched, Borrowed
<1>3. CASE t = "store_sales"
  <2>1. ShuffleStream[t] = "SS_PERMUTATION" /\ "store_sales" \in Family(t)
    BY <1>3, FamilyOf, ChildrenAre DEF ShuffleStream
  <2>2. "SS_PERMUTATION" \in DOMAIN StreamsOf["store_sales"]
    BY Named, StoreSalesBudgets
  <2> QED  BY <1>1, <1>3, <2>1, <2>2, PerRowIs, Tables, Named, StoreSalesBudgets DEF Touched,
              Borrowed
<1>4. CASE t = "web_sales"
  <2>1. ShuffleStream[t] = "WS_PERMUTATION" /\ "web_sales" \in Family(t)
    BY <1>4, FamilyOf, ChildrenAre DEF ShuffleStream
  <2>2. "WS_PERMUTATION" \in DOMAIN StreamsOf["web_sales"]
    BY Named, WebSalesBudgets
  <2> QED  BY <1>1, <1>4, <2>1, <2>2, PerRowIs, Tables, Named, WebSalesBudgets DEF Touched,
              Borrowed
<1>5. CASE t = "s_call_center"
  <2>1. ShuffleStream[t] = "S_CALL_CENTER_ID" /\ "s_call_center" \in Family(t)
    BY <1>5, FamilyOf, ChildrenAre DEF ShuffleStream
  <2>2. "S_CALL_CENTER_ID" \in DOMAIN StreamsOf["s_call_center"]
    BY Named, SCallCenterBudgets
  <2> QED  BY <1>1, <1>5, <2>1, <2>2, PerRowIs, Tables, Named, SCallCenterBudgets
              DEF Touched, Borrowed
<1>6. CASE t = "s_customer"
  <2>1. ShuffleStream[t] = "S_CUST_ID" /\ "s_customer" \in Family(t)
    BY <1>6, FamilyOf, ChildrenAre DEF ShuffleStream
  <2>2. "S_CUST_ID" \in DOMAIN StreamsOf["s_customer"]
    BY Named, SCustomerBudgets
  <2> QED  BY <1>1, <1>6, <2>1, <2>2, PerRowIs, Tables, Named, SCustomerBudgets DEF Touched,
              Borrowed
<1>7. CASE t = "s_item"
  <2>1. ShuffleStream[t] = "S_ITEM_PERMUTE" /\ "s_item" \in Family(t)
    BY <1>7, FamilyOf, ChildrenAre DEF ShuffleStream
  <2>2. "S_ITEM_PERMUTE" \in DOMAIN StreamsOf["s_item"]
    BY Named, SItemBudgets
  <2> QED  BY <1>1, <1>7, <2>1, <2>2, PerRowIs, Tables, Named, SItemBudgets DEF Touched,
              Borrowed
<1>8. CASE t = "s_promotion"
  <2>1. ShuffleStream[t] = "S_PROMOTION_ID" /\ "s_promotion" \in Family(t)
    BY <1>8, FamilyOf, ChildrenAre DEF ShuffleStream
  <2>2. "S_PROMOTION_ID" \in DOMAIN StreamsOf["s_promotion"]
    BY Named, SPromotionBudgets
  <2> QED  BY <1>1, <1>8, <2>1, <2>2, PerRowIs, Tables, Named, SPromotionBudgets DEF Touched,
              Borrowed
<1>9. CASE t = "s_store"
  <2>1. ShuffleStream[t] = "S_STORE_ID" /\ "s_store" \in Family(t)
    BY <1>9, FamilyOf, ChildrenAre DEF ShuffleStream
  <2>2. "S_STORE_ID" \in DOMAIN StreamsOf["s_store"]
    BY Named, SStoreBudgets
  <2> QED  BY <1>1, <1>9, <2>1, <2>2, PerRowIs, Tables, Named, SStoreBudgets DEF Touched,
              Borrowed
<1>10. CASE t = "s_warehouse"
  <2>1. ShuffleStream[t] = "S_WRHS_ID" /\ "s_warehouse" \in Family(t)
    BY <1>10, FamilyOf, ChildrenAre DEF ShuffleStream
  <2>2. "S_WRHS_ID" \in DOMAIN StreamsOf["s_warehouse"]
    BY Named, SWarehouseBudgets
  <2> QED  BY <1>1, <1>10, <2>1, <2>2, PerRowIs, Tables, Named, SWarehouseBudgets
              DEF Touched, Borrowed
<1>11. CASE t = "s_web_page"
  <2>1. ShuffleStream[t] = "S_WPAG_PERMUTE" /\ "s_web_page" \in Family(t)
    BY <1>11, FamilyOf, ChildrenAre DEF ShuffleStream
  <2>2. "S_WPAG_PERMUTE" \in DOMAIN StreamsOf["s_web_page"]
    BY Named, SWebPageBudgets
  <2> QED  BY <1>1, <1>11, <2>1, <2>2, PerRowIs, Tables, Named, SWebPageBudgets DEF Touched,
              Borrowed
<1>12. CASE t = "s_catalog_order"
  <2>1. ShuffleStream[t] = "S_CLIN_PERMUTE" /\ "s_catalog_order_lineitem" \in Family(t)
    BY <1>12, FamilyOf, ChildrenAre DEF ShuffleStream
  <2>2. "S_CLIN_PERMUTE" \in DOMAIN StreamsOf["s_catalog_order_lineitem"]
    BY Named, SCatalogOrderLineitemBudgets
  <2> QED  BY <1>1, <1>12, <2>1, <2>2, PerRowIs, Tables, Named,
              SCatalogOrderLineitemBudgets DEF Touched, Borrowed
<1>13. CASE t = "s_purchase"
  <2>1. ShuffleStream[t] = "S_PLINE_PERMUTE" /\ "s_purchase_lineitem" \in Family(t)
    BY <1>13, FamilyOf, ChildrenAre DEF ShuffleStream
  <2>2. "S_PLINE_PERMUTE" \in DOMAIN StreamsOf["s_purchase_lineitem"]
    BY Named, SPurchaseLineitemBudgets
  <2> QED  BY <1>1, <1>13, <2>1, <2>2, PerRowIs, Tables, Named, SPurchaseLineitemBudgets
              DEF Touched, Borrowed
<1>14. CASE t = "s_web_order"
  <2>1. ShuffleStream[t] = "S_WLIN_PERMUTE" /\ "s_web_order_lineitem" \in Family(t)
    BY <1>14, FamilyOf, ChildrenAre DEF ShuffleStream
  <2>2. "S_WLIN_PERMUTE" \in DOMAIN StreamsOf["s_web_order_lineitem"]
    BY Named, SWebOrderLineitemBudgets
  <2> QED  BY <1>1, <1>14, <2>1, <2>2, PerRowIs, Tables, Named, SWebOrderLineitemBudgets
              DEF Touched, Borrowed
<1> QED  BY <1>2, <1>3, <1>4, <1>5, <1>6, <1>7, <1>8, <1>9, <1>10, <1>11, <1>12, <1>13,
            <1>14 DEF ShuffleStream

\* Budgets are numbers.
LEMMA PerRowNumbers ==
  ASSUME NEW S, S \subseteq AllStreams
  PROVE  \A s \in S : PerRow[s] \in Nat
  BY PerRowIs, AllStreamsAre

\* Choices are outcomes, whichever row is built first.
LEMMA ChoicesFit ==
  ASSUME NEW t \in TablesBuilt, NEW r \in 1..MaxRow, NEW luck \in Seeds, NEW g
  PROVE  /\ ChoicesOf(g, t, r, luck) \in Outcomes(t)
         /\ ChoicesOf(g, t, r, luck).flags = Outcome(luck, t, r).flags
         /\ ChoicesOf(g, t, r, luck).sk = Outcome(luck, t, r).sk
<1>1. Outcome(luck, t, r) \in Outcomes(t)
  BY OutcomeAssumption
<1> QED  BY <1>1 DEF ChoicesOf, Outcomes

\* The state e is g, but for the streams.
OnlyStreams(g, e) ==
  e.cur = g.cur /\ e.old = g.old /\ e.started = g.started /\ e.shuffled = g.shuffled

\* e is g with the streams of u at row n.
SkippedTo(S, t, g, u, n, e) ==
  /\ e \in Memory(S, t) /\ OnlyStreams(g, e) /\ e.over = g.over
  /\ \A s \in S :
       IF s \in DuplicateStreams \/ TableOfStream[s] = u
         THEN e.pos[s] = n * PerRow[s] /\ e.used[s] = 0
         ELSE e.pos[s] = g.pos[s] /\ e.used[s] = g.used[s]

\* row_skip moves the streams of one table, and the copied ones.
LEMMA RowSkipKeeps ==
  ASSUME NEW S, S \subseteq AllStreams, NEW t, NEW g \in Memory(S, t), NEW u, NEW n \in Nat
  PROVE  SkippedTo(S, t, g, u, n, RowSkip(g, u, n))
<1>1. \A s \in S : n * PerRow[s] \in Nat
  BY PerRowNumbers
<1> QED  BY <1>1 DEF RowSkip, WithStreams, Skipped, Memory, SkippedTo, OnlyStreams

\* e is g with the streams own at the end of the row.
StoppedAt(S, t, g, own, e) ==
  /\ e \in Memory(S, t) /\ OnlyStreams(g, e)
  /\ \A s \in e.over : s \in g.over \/ (s \in own /\ g.used[s] > PerRow[s])
  /\ \A s \in S :
       IF s \in own
         THEN /\ e.used[s] = 0
              /\ e.pos[s] = g.pos[s] + IF g.used[s] < PerRow[s] THEN PerRow[s] - g.used[s]
                                                                ELSE 0
         ELSE e.used[s] = g.used[s] /\ e.pos[s] = g.pos[s]

\* row_stop tops up the streams of a family, and nothing else.
LEMMA RowStopKeeps ==
  ASSUME NEW S, S \subseteq AllStreams, NEW t, NEW g \in Memory(S, t), NEW u,
         OwnStreams(u) \subseteq S
  PROVE  StoppedAt(S, t, g, OwnStreams(u), RowStop(g, u))
<1>1. \A s \in S : PerRow[s] \in Nat
  BY PerRowNumbers
<1> QED  BY <1>1 DEF RowStop, WithStreams, Memory, StoppedAt, OnlyStreams

\* The numbers a row takes from a stream.
Taken(b, s) == IF s \in DOMAIN b.draws THEN b.draws[s] ELSE 0

\* What the builder computes for a column, before changeSCD.
NewValue(g, b, k, r, c) ==
  IF c \in b.fixed \/ (c \in b.once /\ ~FirstOfKey(k))
    THEN IF b.fresh THEN 0 ELSE g.cur[c] ELSE r

\* e is g with row r built as b, with the choices o.
BuiltFrom(S, t, g, r, o, b, e) ==
  /\ e.started = TRUE /\ e.over = {}
  /\ e.shuffled = IF ~g.started /\ t \in DOMAIN ShuffleStream
                    THEN g.pos[ShuffleStream[t]] ELSE g.shuffled
  /\ \A s \in S : e.pos[s] = g.pos[s] + Taken(b, s) /\ e.used[s] = g.used[s] + Taken(b, s)
  /\ \A c \in PrintedColumns(t) :
       /\ e.cur[c] = IF Retained(b, o, KeyOf(t, r, o), c) THEN g.old[c]
                     ELSE NewValue(g, b, KeyOf(t, r, o), r, c)
       /\ e.old[c] = IF Remembered(b, o, KeyOf(t, r, o), c)
                       THEN NewValue(g, b, KeyOf(t, r, o), r, c) ELSE g.old[c]

\* A row computes its columns, and takes its numbers, stream by stream.
LEMMA BuiltIs ==
  ASSUME NEW S, NEW t, NEW g \in Memory(S, t), NEW r, NEW o, NEW b
  PROVE  BuiltFrom(S, t, g, r, o, b, Built(g, t, r, o, b))
<1> DEFINE e == Built(g, t, r, o, b)
           k == KeyOf(t, r, o)
<1>1. \A s \in S : e.pos[s] = g.pos[s] + Taken(b, s) /\ e.used[s] = g.used[s] + Taken(b, s)
  BY DEF Taken, Memory, Built
<1>2. \A c \in PrintedColumns(t) :
        e.cur[c] = IF Retained(b, o, k, c) THEN g.old[c] ELSE NewValue(g, b, k, r, c)
  BY DEF NewValue, Memory, Built
<1>3. \A c \in PrintedColumns(t) :
        e.old[c] = IF Remembered(b, o, k, c) THEN NewValue(g, b, k, r, c) ELSE g.old[c]
  BY DEF NewValue, Memory, Built
<1>4. /\ e.started = TRUE /\ e.over = {}
      /\ e.shuffled = IF ~g.started /\ t \in DOMAIN ShuffleStream
                        THEN g.pos[ShuffleStream[t]] ELSE g.shuffled
  BY DEF Built
<1> HIDE DEF e, k
<1>5. BuiltFrom(S, t, g, r, o, b, e)
  BY <1>1, <1>2, <1>3, <1>4 DEF BuiltFrom, k
<1> QED  BY <1>5 DEF e

\* The row that is built, with its choices.
RowBuilt(g, t, r, luck) == Row(t, r, ChoicesOf(g, t, r, luck))

\* So does the builder, with the choices of the row.
LEMMA BuildIs ==
  ASSUME NEW S, NEW t, NEW g \in Memory(S, t), NEW r, NEW luck
  PROVE  BuiltFrom(S, t, g, r, ChoicesOf(g, t, r, luck), RowBuilt(g, t, r, luck),
                   Build(g, t, r, luck))
<1>1. Build(g, t, r, luck) = Built(g, t, r, ChoicesOf(g, t, r, luck), RowBuilt(g, t, r, luck))
  BY DEF Build, ChoicesOf, RowBuilt
<1> QED  BY <1>1, BuiltIs

\* A builder leaves a memory of the same kind.
LEMMA BuildKeeps ==
  ASSUME NEW t \in TablesBuilt, NEW S, Serves(S, t), NEW g \in Memory(S, t),
         NEW r \in 1..MaxRow, NEW luck \in Seeds
  PROVE  Build(g, t, r, luck) \in Memory(S, t)
<1> DEFINE o == ChoicesOf(g, t, r, luck)
           b == Row(t, r, o)
<1>1. \A s \in DOMAIN b.draws : b.draws[s] \in Nat
  BY ChoicesFit, RowFits DEF Fits, Serves
<1>2. t \in DOMAIN ShuffleStream => ShuffleStream[t] \in S
  BY ShuffleStreamKnown DEF Serves
<1> HIDE DEF o, b
<1>3. Built(g, t, r, o, b) \in Memory(S, t)
  BY <1>1, <1>2, MaxRowAssumption DEF Built, Memory
<1> QED  BY <1>3 DEF o, b, Build, ChoicesOf

\* So does going on to another table.
LEMMA NextKeeps ==
  ASSUME NEW S, NEW t, NEW g \in Memory(S, t), NEW u
  PROVE  NextMemory(g, u) \in Memory(S, u)
  BY MaxRowAssumption DEF NextMemory, FreshMemory, WithStreams, Memory

\* A process begins with such a memory.
LEMMA FreshKeeps ==
  ASSUME NEW S, NEW t
  PROVE  FreshMemory(S, t) \in Memory(S, t)
  BY MaxRowAssumption DEF FreshMemory, Memory

\* What vld_s_item and vld_s_web_page prepare is one, too.
LEMMA PreparedKeeps ==
  ASSUME NEW S, NEW t, Serves(S, t), NEW g \in Memory(S, t)
  PROVE  Prepared(g, t) \in Memory(S, t)
<1>1. {"s_item", "s_web_page"} \subseteq DOMAIN ShuffleStream
  BY DEF ShuffleStream
<1>2. t \in DOMAIN ShuffleStream => ShuffleStream[t] \in S
  BY ShuffleStreamKnown DEF Serves
<1> QED  BY <1>1, <1>2, MaxRowAssumption DEF Prepared, Memory

\* The wrapped table's row, ended by the wrapper.
Ended(t, h) == IF t \in StopsWrapped THEN RowStop(h, Wraps[t]) ELSE h

\* The streams of the wrapped table that a wrapper tops up.
EndedStreams(t) == IF t \in StopsWrapped THEN OwnStreams(Wraps[t]) ELSE {}

\* A wrapper that stops the wrapped row tops up those streams only.
LEMMA EndedKeeps ==
  ASSUME NEW t, NEW S, Serves(S, t), NEW h \in Memory(S, t)
  PROVE  StoppedAt(S, t, h, EndedStreams(t), Ended(t, h))
<1>1. CASE t \in StopsWrapped
  <2>1. OwnStreams(Wraps[t]) \subseteq S /\ S \subseteq AllStreams
    BY <1>1, StreamsKnown DEF Serves
  <2>2. Ended(t, h) = RowStop(h, Wraps[t]) /\ EndedStreams(t) = OwnStreams(Wraps[t])
    BY <1>1 DEF Ended, EndedStreams
  <2> QED  BY <2>1, <2>2, RowStopKeeps
<1>2. CASE t \notin StopsWrapped
  BY <1>2 DEF Ended, EndedStreams, StoppedAt, OnlyStreams
<1> QED  BY <1>1, <1>2

\* e is what row r, built with the row b, leaves of g.
Leaves(S, t, g, h, b, e) ==
  /\ e \in Memory(S, t) /\ OnlyStreams(h, e) /\ e.started = TRUE
  /\ \A s \in S \ Touched(t) : e.pos[s] = g.pos[s] /\ e.used[s] = g.used[s]
  /\ \A s \in Stopped(t) : e.used[s] = 0
  /\ \A s \in S \ Stopped(t) :
       e.pos[s] = g.pos[s] + Taken(b, s) /\ e.used[s] = g.used[s] + Taken(b, s)
  /\ (\A s \in Stopped(t) : g.used[s] = 0) =>
       /\ e.over \subseteq MayOverrun
       /\ \A s \in Stopped(t) \ MayOverrun : e.pos[s] = g.pos[s] + PerRow[s]

\* A row of gen_tbl leaves every stream that is stopped, and within its budget,
\* one budget further, and the streams of other tables where they were.
LEMMA StepIs ==
  ASSUME NEW t \in TablesBuilt, NEW S, Serves(S, t), NEW g \in Memory(S, t),
         NEW r \in 1..MaxRow, NEW luck \in Seeds
  PROVE  Leaves(S, t, g, Build(g, t, r, luck), RowBuilt(g, t, r, luck),
                BuildAndStop(g, t, r, luck))
<1> DEFINE h == Build(g, t, r, luck)
           e == BuildAndStop(g, t, r, luck)
           b == RowBuilt(g, t, r, luck)
           w == Ended(t, h)
           own == OwnStreams(t)
           wrapped == EndedStreams(t)
<1>1. /\ t \in DriverTables /\ S \subseteq AllStreams
      /\ own \subseteq Stopped(t) /\ Stopped(t) \subseteq Touched(t) /\ Touched(t) \subseteq S
      /\ Stopped(t) = own \cup wrapped
  BY StreamsKnown DEF Serves, Stopped, EndedStreams
<1>2. h \in Memory(S, t)
  BY BuildKeeps
<1>3. BuiltFrom(S, t, g, r, ChoicesOf(g, t, r, luck), b, h)
  BY BuildIs
<1>4. Fits(t, b.draws)
  BY <1>1, ChoicesFit, RowFits DEF RowBuilt
<1>5. \A s \in S : Taken(b, s) \in Nat /\ PerRow[s] \in Nat /\ g.used[s] \in Nat /\ g.pos[s] \in Nat
  BY <1>1, <1>4, PerRowNumbers DEF Fits, Taken, Memory
<1>6. \A s \in S : s \notin Touched(t) => Taken(b, s) = 0
  BY <1>4 DEF Fits, Taken
<1>7. \A s \in Stopped(t) \ MayOverrun : Taken(b, s) <= PerRow[s]
  BY <1>1, <1>4, <1>5 DEF Fits, Taken
<1>8. e = RowStop(w, t)
  BY DEF BuildAndStop, Ended
<1> HIDE DEF h, e, b, w, wrapped
<1>9. StoppedAt(S, t, h, wrapped, w)
  BY <1>2, EndedKeeps DEF w, wrapped
<1>10. StoppedAt(S, t, w, own, e)
  <2>1. w \in Memory(S, t)
    BY <1>9 DEF StoppedAt
  <2> QED  BY <1>1, <1>8, <2>1, RowStopKeeps
<1> HIDE DEF own
<1>11. /\ \A s \in S : h.pos[s] = g.pos[s] + Taken(b, s) /\ h.used[s] = g.used[s] + Taken(b, s)
       /\ h.started = TRUE /\ h.over = {}
  BY <1>3 DEF BuiltFrom
<1>12. e \in Memory(S, t) /\ OnlyStreams(h, e) /\ e.started = TRUE
  BY <1>9, <1>10, <1>11 DEF StoppedAt, OnlyStreams
<1>13. ASSUME NEW s \in S \ Stopped(t)
       PROVE  e.pos[s] = g.pos[s] + Taken(b, s) /\ e.used[s] = g.used[s] + Taken(b, s)
  BY <1>1, <1>9, <1>10, <1>11 DEF StoppedAt
<1>14. ASSUME NEW s \in S \ Touched(t)
       PROVE  e.pos[s] = g.pos[s] /\ e.used[s] = g.used[s]
  BY <1>1, <1>5, <1>6, <1>13
<1>15. ASSUME NEW s \in Stopped(t) PROVE e.used[s] = 0
  BY <1>1, <1>9, <1>10 DEF StoppedAt
<1>16. ASSUME \A s \in Stopped(t) : g.used[s] = 0
       PROVE  /\ e.over \subseteq MayOverrun
              /\ \A s \in Stopped(t) \ MayOverrun : e.pos[s] = g.pos[s] + PerRow[s]
  <2>1. \A s \in Stopped(t) : h.used[s] = Taken(b, s) /\ Taken(b, s) \in Nat /\ PerRow[s] \in Nat
    BY <1>1, <1>5, <1>11, <1>16
  <2>2. \A s \in Stopped(t) : w.used[s] = IF s \in wrapped THEN 0 ELSE Taken(b, s)
    BY <1>1, <1>9, <2>1 DEF StoppedAt
  <2>3. ASSUME NEW s \in e.over PROVE s \in MayOverrun
    <3>1. CASE s \in w.over
      <4>1. s \in wrapped /\ h.used[s] > PerRow[s]
        BY <1>9, <1>11, <3>1 DEF StoppedAt
      <4> QED  BY <1>1, <1>7, <2>1, <4>1
    <3>2. CASE s \in own /\ w.used[s] > PerRow[s]
      BY <1>1, <1>7, <2>1, <2>2, <3>2
    <3> QED  BY <1>10, <3>1, <3>2 DEF StoppedAt
  <2>4. ASSUME NEW s \in Stopped(t) \ MayOverrun PROVE e.pos[s] = g.pos[s] + PerRow[s]
    <3>1. /\ Taken(b, s) <= PerRow[s] /\ h.pos[s] = g.pos[s] + Taken(b, s) /\ s \in S
          /\ h.used[s] = Taken(b, s) /\ Taken(b, s) \in Nat /\ PerRow[s] \in Nat
          /\ g.pos[s] \in Nat
      BY <1>1, <1>5, <1>7, <1>11, <2>1
    <3>2. CASE s \in wrapped /\ s \in own
      <4>1. t \in DOMAIN Wraps /\ Wraps[t] # t /\ Children(t) = {} /\ Children(Wraps[t]) = {}
        BY <1>1, <3>2, WrapsAre, ChildrenAre, TablesKnown
        DEF StopsWrapped, ChildOf, RefreshChildOf, wrapped, EndedStreams
      <4>2. OwnStreams(t) = DOMAIN StreamsOf[t] /\ OwnStreams(Wraps[t]) = DOMAIN StreamsOf[Wraps[t]]
        BY <4>1, OwnAlone
      <4>3. s \in DOMAIN StreamsOf[t] /\ s \in DOMAIN StreamsOf[Wraps[t]]
        BY <3>2, <4>2 DEF own, wrapped, EndedStreams
      <4> QED  BY <1>1, <4>1, <4>3, TablesKnown, OneTablePerStream
    <3>3. CASE s \in wrapped /\ s \notin own
      <4>1. w.pos[s] = h.pos[s] + IF h.used[s] < PerRow[s] THEN PerRow[s] - h.used[s] ELSE 0
        BY <1>9, <3>1, <3>3 DEF StoppedAt
      <4>2. e.pos[s] = w.pos[s]
        BY <1>10, <3>1, <3>3 DEF StoppedAt
      <4> QED  BY <3>1, <4>1, <4>2
    <3>4. CASE s \notin wrapped
      <4>1. w.pos[s] = h.pos[s] /\ w.used[s] = h.used[s] /\ s \in own
        BY <1>1, <1>9, <3>1, <3>4 DEF StoppedAt
      <4>2. e.pos[s] = w.pos[s] + IF w.used[s] < PerRow[s] THEN PerRow[s] - w.used[s] ELSE 0
        BY <1>10, <3>1, <4>1 DEF StoppedAt
      <4> QED  BY <3>1, <4>1, <4>2
    <3> QED  BY <3>2, <3>3, <3>4
  <2> QED  BY <2>3, <2>4
<1>17. Leaves(S, t, g, h, b, e)
  BY <1>12, <1>13, <1>14, <1>15, <1>16 DEF Leaves
<1> QED  BY <1>17 DEF h, e, b

-----------------------------------------------------------------------------
(***************************************************************************)
(* The reference, and the functions that only move streams.                *)
(***************************************************************************)

\* The reference has the streams of its table.
LEMMA ServesItself ==
  ASSUME NEW t \in DriverTables
  PROVE  Serves(Touched(t), t)
  BY StreamsKnown DEF Serves

\* The reference's states, row by row.
LEMMA SerialStatesAre ==
  ASSUME NEW t \in TablesBuilt, t \in DriverTables, NEW luck \in Seeds
  PROVE  /\ SerialStates(t, luck)[0] = FreshMemory(Touched(t), t)
         /\ \A r \in 0..MaxRow : SerialStates(t, luck)[r] \in Memory(Touched(t), t)
         /\ \A r \in 1..MaxRow :
              SerialStates(t, luck)[r] = BuildAndStop(SerialStates(t, luck)[r - 1], t, r, luck)
<1> DEFINE M == Memory(Touched(t), t)
           a == FreshMemory(Touched(t), t)
           Step(n, g) == IF n + 1 \in 1..MaxRow THEN BuildAndStop(g, t, n + 1, luck) ELSE g
           F == [p \in Nat \X M |-> Step(p[1], p[2])]
           Rows(f) == f = [r \in 0..MaxRow |->
                             IF r = 0 THEN a ELSE BuildAndStop(f[r - 1], t, r, luck)]
<1>1. a \in M
  BY FreshKeeps
<1>2. \A n \in Nat, g \in M : Step(n, g) \in M
  BY ServesItself, StepIs DEF Leaves
<1>3. F \in [Nat \X M -> M] /\ \A n \in Nat, g \in M : F[<<n, g>>] = Step(n, g)
  BY <1>2
<1> HIDE DEF M, F, a
<1>4. PICK h : Iterates(h, M, a, F)
  BY <1>1, <1>3, RecursionExists
<1>5. h \in [Nat -> M] /\ h[0] = a /\ \A n \in Nat : h[n + 1] = Step(n, h[n])
  BY <1>3, <1>4 DEF Iterates
<1> DEFINE f == [r \in 0..MaxRow |-> h[r]]
<1>6. Rows(f)
  <2>1. ASSUME NEW r \in 0..MaxRow, r # 0
        PROVE  h[r] = BuildAndStop(f[r - 1], t, r, luck)
    <3>1. r - 1 \in Nat /\ r - 1 + 1 = r /\ r \in 1..MaxRow /\ r - 1 \in 0..MaxRow
      BY <2>1, MaxRowAssumption
    <3>2. h[r - 1 + 1] = Step(r - 1, h[r - 1])
      BY <1>5, <3>1
    <3> QED  BY <3>1, <3>2
  <2> QED  BY <1>5, <2>1
<1>7. SerialStates(t, luck) = CHOOSE g : Rows(g)
  BY DEF SerialStates, a
<1> HIDE DEF f
<1>8. Rows(SerialStates(t, luck))
  BY <1>6, <1>7
<1> DEFINE s == SerialStates(t, luck)
<1> HIDE DEF s
<1>9. \A r \in 0..MaxRow : s[r] = IF r = 0 THEN a ELSE BuildAndStop(s[r - 1], t, r, luck)
  BY <1>8 DEF s
<1> DEFINE G == {n \in Nat : n \in 0..MaxRow => s[n] \in M}
<1>10. 0 \in G
  BY <1>1, <1>9, MaxRowAssumption
<1>11. ASSUME NEW n \in G PROVE n + 1 \in G
  <2> SUFFICES ASSUME n + 1 \in 0..MaxRow PROVE s[n + 1] \in M
    OBVIOUS
  <2>1. n \in 0..MaxRow /\ n + 1 \in 1..MaxRow /\ n + 1 - 1 = n /\ n \in Nat
    BY MaxRowAssumption
  <2>2. s[n + 1] = Step(n, s[n])
    BY <1>9, <2>1
  <2> QED  BY <1>2, <2>1, <2>2
<1> HIDE DEF G
<1>12. G = Nat
  BY <1>10, <1>11, InductionSet DEF G
<1>13. \A r \in 0..MaxRow : s[r] \in M
  BY <1>12, MaxRowAssumption DEF G
<1>14. s[0] = a
  BY <1>9, MaxRowAssumption
<1>15. \A r \in 1..MaxRow : s[r] = BuildAndStop(s[r - 1], t, r, luck)
  BY <1>9, MaxRowAssumption
<1> QED  BY <1>13, <1>14, <1>15 DEF s, M, a

\* e is g with some streams moved, by rows of the budgets.
Moved(S, t, g, e) ==
  /\ e \in Memory(S, t) /\ OnlyStreams(g, e) /\ e.over = g.over
  /\ \A s \in S : e.used[s] \in {0, g.used[s]}

\* Streams moved twice are moved.
LEMMA MovedTwice ==
  ASSUME NEW S, NEW t, NEW g, NEW e, NEW f, Moved(S, t, g, e), Moved(S, t, e, f)
  PROVE  Moved(S, t, g, f)
<1>1. \A s \in S : f.used[s] \in {0, g.used[s]}
  BY DEF Moved
<1> QED  BY <1>1 DEF Moved, OnlyStreams

\* row_skip moves streams only.
LEMMA RowSkipMoves ==
  ASSUME NEW S, S \subseteq AllStreams, NEW t, NEW g \in Memory(S, t), NEW u, NEW n \in Nat
  PROVE  Moved(S, t, g, RowSkip(g, u, n))
<1>1. SkippedTo(S, t, g, u, n, RowSkip(g, u, n))
  BY RowSkipKeeps
<1> QED  BY <1>1 DEF SkippedTo, Moved

\* row_skip after other moves does as well.
LEMMA RowSkipMovesOn ==
  ASSUME NEW S, S \subseteq AllStreams, NEW t, NEW g, NEW e, Moved(S, t, g, e),
         NEW u, NEW n \in Nat
  PROVE  Moved(S, t, g, RowSkip(e, u, n))
<1>1. e \in Memory(S, t)
  BY DEF Moved
<1> QED  BY <1>1, RowSkipMoves, MovedTwice

\* Streams left alone are in place.
LEMMA MovedNowhere ==
  ASSUME NEW S, NEW t, NEW g \in Memory(S, t)
  PROVE  Moved(S, t, g, g)
  BY DEF Moved, OnlyStreams

\* main moves streams only when it begins a chunk.
LEMMA PositionedMoves ==
  ASSUME NEW S, S \subseteq AllStreams, NEW t, NEW g \in Memory(S, t), NEW u,
         NEW r \in 1..MaxRow
  PROVE  Moved(S, t, g, Positioned(g, u, r))
<1>1. r - 1 \in Nat
  BY MaxRowAssumption
<1>2. Moved(S, t, g, RowSkip(g, u, r - 1))
  BY <1>1, RowSkipMoves
<1>3. \A c : Moved(S, t, g, RowSkip(RowSkip(g, u, r - 1), c, r - 1))
  BY <1>1, <1>2, RowSkipMovesOn
<1> QED  BY <1>2, <1>3, MovedNowhere DEF Positioned

\* So does what a vld function skips.
LEMMA ValidationPositionMoves ==
  ASSUME NEW S, S \subseteq AllStreams, NEW t, NEW g \in Memory(S, t), NEW k \in 1..MaxRow
  PROVE  Moved(S, t, g, ValidationPosition(g, t, k))
<1>1. k - 1 \in Nat /\ (k - 1) * CatalogOrderLines \in Nat /\ (k - 1) * 1 \in Nat
  BY MaxRowAssumption DEF CatalogOrderLines
<1>2. \A u, n : n \in Nat => Moved(S, t, g, RowSkip(g, u, n))
  BY RowSkipMoves
<1>3. \A u, n, v, m : n \in Nat /\ m \in Nat => Moved(S, t, g, RowSkip(RowSkip(g, u, n), v, m))
  BY <1>2, RowSkipMovesOn
<1>4. \A u, n, v, m, w, l : n \in Nat /\ m \in Nat /\ l \in Nat =>
        Moved(S, t, g, RowSkip(RowSkip(RowSkip(g, u, n), v, m), w, l))
  BY <1>3, RowSkipMovesOn
<1>5. Moved(S, t, g, GenericPosition(g, t, k))
  BY <1>1, <1>2, <1>3 DEF GenericPosition
<1>6. Moved(S, t, g, SalesPosition(g, t, k))
  BY <1>1, <1>3 DEF SalesPosition
<1>7. Moved(S, t, g, OrderPosition(g, t, k))
  BY <1>1, <1>4 DEF OrderPosition
<1>8. Moved(S, t, g, RowSkip(g, "promotion", k - 1)) /\ Moved(S, t, g, g)
  BY <1>1, <1>2, MovedNowhere
<1> QED  BY <1>5, <1>6, <1>7, <1>8 DEF ValidationPosition

\* Row j of t, begun where validateSCD begins it.
ScdBegun(h, t, j) == RowSkip(RowSkip(h, t, j - 1), ScdTable(t), j - 1)

\* So does what validateSCD skips.
LEMMA ScdBegunMoves ==
  ASSUME NEW S, S \subseteq AllStreams, NEW t, NEW g \in Memory(S, t), NEW j \in 1..MaxRow
  PROVE  Moved(S, t, g, ScdBegun(g, t, j))
<1>1. j - 1 \in Nat
  BY MaxRowAssumption
<1> QED  BY <1>1, RowSkipMoves, RowSkipMovesOn DEF ScdBegun

\* The states validateSCD builds, from the first row of the history.
ScdStates(S, g, t, k, f) ==
  /\ \A j \in 0..k : f[j] \in Memory(S, t)
  /\ f[0] = g
  /\ \A j \in 1..k :
       f[j] = IF j \in ScdHistory(t, k) THEN Build(ScdBegun(f[j - 1], t, j), t, j, seed)
              ELSE g

\* validateSCD builds the history row by row: what it ends with is the last of
\* a sequence of such states.
LEMMA ScdBuiltIs ==
  ASSUME NEW t \in TablesBuilt, NEW S, Serves(S, t), NEW g \in Memory(S, t),
         NEW k \in 1..MaxRow, seed \in Seeds
  PROVE  \E f : ScdStates(S, g, t, k, f) /\ ScdBuilt(g, t, k) = f[k]
<1> DEFINE M == Memory(S, t)
           H == ScdHistory(t, k)
           One(h, j) == Build(ScdBegun(h, t, j), t, j, seed)
           Step(n, h) == IF n + 1 \in 1..k /\ n + 1 \in H THEN One(h, n + 1) ELSE g
           F == [p \in Nat \X M |-> Step(p[1], p[2])]
           States(f) == f = [j \in 0..k |-> IF j \in H THEN One(f[j - 1], j) ELSE g]
<1>1. 0 \notin H /\ k \in Nat /\ 1..k \subseteq 1..MaxRow
  BY MaxRowAssumption DEF ScdHistory
<1>2. \A n \in Nat, h \in M : Step(n, h) \in M
  <2>1. ASSUME NEW j \in 1..MaxRow, NEW h \in M PROVE One(h, j) \in M
    BY ScdBegunMoves, BuildKeeps DEF Serves, Moved
  <2> QED  BY <1>1, <2>1
<1>0. g \in M
  OBVIOUS
<1> HIDE DEF M, H
<1>3. F \in [Nat \X M -> M] /\ \A n \in Nat, h \in M : F[<<n, h>>] = Step(n, h)
  <2> HIDE DEF Step
  <2> QED  BY <1>2
<1> HIDE DEF F
<1>4. PICK h : Iterates(h, M, g, F)
  BY <1>0, <1>3, RecursionExists
<1>5. h \in [Nat -> M] /\ h[0] = g /\ \A n \in Nat : h[n + 1] = Step(n, h[n])
  <2> HIDE DEF Step
  <2> QED  BY <1>3, <1>4 DEF Iterates
<1> DEFINE e == [j \in 0..k |-> h[j]]
<1>6. States(e)
  <2>1. ASSUME NEW j \in 0..k
        PROVE  h[j] = IF j \in H THEN One(e[j - 1], j) ELSE g
    <3>1. CASE j = 0
      BY <1>1, <1>5, <3>1
    <3>2. CASE j # 0
      <4>1. j - 1 \in Nat /\ j - 1 + 1 = j /\ j \in 1..k /\ j - 1 \in 0..k
        BY <1>1, <3>2
      <4>2. h[j - 1 + 1] = Step(j - 1, h[j - 1])
        BY <1>5, <4>1
      <4> QED  BY <4>1, <4>2
    <3> QED  BY <3>1, <3>2
  <2> QED  BY <2>1
<1> HIDE DEF e
<1> DEFINE f == CHOOSE f : States(f)
<1>7. States(f)
  BY <1>6
<1>8. ScdBuilt(g, t, k) = f[k]
  BY DEF ScdBuilt, ScdBegun, H
<1> HIDE DEF f
<1>9. \A j \in 0..k : f[j] = IF j \in H THEN One(f[j - 1], j) ELSE g
  BY <1>7
<1> DEFINE G == {n \in Nat : n \in 0..k => f[n] \in M}
<1>10. 0 \in G
  BY <1>1, <1>9 DEF M
<1>11. ASSUME NEW n \in G PROVE n + 1 \in G
  <2> SUFFICES ASSUME n + 1 \in 0..k PROVE f[n + 1] \in M
    OBVIOUS
  <2>1. n \in 0..k /\ n + 1 \in 1..k /\ n + 1 - 1 = n /\ n \in Nat
    BY <1>1
  <2>2. f[n + 1] = Step(n, f[n])
    BY <1>9, <2>1
  <2> QED  BY <1>2, <2>1, <2>2
<1> HIDE DEF G
<1>12. G = Nat
  BY <1>10, <1>11, InductionSet DEF G
<1>13. \A j \in 0..k : f[j] \in M
  BY <1>1, <1>12 DEF G
<1>14. f[0] = g
  BY <1>1, <1>9
<1>15. \A j \in 1..k : f[j] = IF j \in H THEN One(f[j - 1], j) ELSE g
  BY <1>1, <1>9
<1> QED  BY <1>8, <1>13, <1>14, <1>15 DEF ScdStates, M, H

-----------------------------------------------------------------------------
(***************************************************************************)
(* The shape of the state.                                                 *)
(***************************************************************************)

\* The state of a process: tables that are built, all of whose streams it has,
\* and a memory for the one at hand.
Shape ==
  /\ mode \in {"generate", "chunk", "validate"} /\ seed \in Seeds
  /\ next \in 0..(MaxRow + 1)
  /\ mode # "validate" => next # 0
  /\ mode = "validate" => queue # <<>>
  /\ queue \in Seq(DriverTables \cap TablesBuilt)
  /\ DOMAIN gen.pos \subseteq AllStreams
  /\ \A i \in DOMAIN queue : Touched(queue[i]) \subseteq DOMAIN gen.pos
  /\ \E t : gen \in Memory(DOMAIN gen.pos, t)
  /\ queue # <<>> => gen \in Memory(DOMAIN gen.pos, Head(queue))

\* The streams of a memory.
LEMMA MemoryStreams ==
  ASSUME NEW S, NEW t, NEW g \in Memory(S, t)
  PROVE  DOMAIN g.pos = S
  BY DEF Memory

\* The first table of the queue.
LEMMA HeadServed ==
  ASSUME Shape, queue # <<>>
  PROVE  /\ 1 \in DOMAIN queue /\ Head(queue) = queue[1]
         /\ Head(queue) \in TablesBuilt /\ Serves(DOMAIN gen.pos, Head(queue))
         /\ gen \in Memory(DOMAIN gen.pos, Head(queue))
         /\ seed \in Seeds
  BY DEF Shape, Serves

\* A queue of tables, with the streams of all of them.
LEMMA QueueKnown ==
  ASSUME NEW q \in Seq(DriverTables \cap TablesBuilt), q # <<>>
  PROVE  /\ SessionStreams(q) \subseteq AllStreams
         /\ \A i \in DOMAIN q : Touched(q[i]) \subseteq SessionStreams(q)
         /\ FreshMemory(SessionStreams(q), Head(q)) \in Memory(SessionStreams(q), Head(q))
<1>1. \A i \in DOMAIN q : q[i] \in DriverTables
  OBVIOUS
<1>2. \A t \in SetOf(q) : t \in DriverTables
  BY <1>1 DEF SetOf
<1> QED  BY <1>2, StreamsKnown, FreshKeeps DEF SessionStreams, SetOf

\* A process begins with a session, or with one table to validate.
LEMMA InitQueue ==
  ASSUME Init
  PROVE  /\ queue \in Seq(DriverTables \cap TablesBuilt) /\ queue # <<>>
         /\ mode = "validate" => queue = <<Head(queue)>>
<1>1. ASSUME queue \in Sessions
      PROVE  queue \in Seq(DriverTables \cap TablesBuilt) /\ queue # <<>>
  <2>1. queue \in Seq(DriverTables) /\ queue # <<>>
    BY <1>1, SessionsAssumption
  <2>2. \A i \in DOMAIN queue : queue[i] \in TablesBuilt
    BY <1>1 DEF TablesBuilt, SetOf
  <2> QED  BY <2>1, <2>2
<1>2. ASSUME queue \in {<<t>> : t \in Validated}
      PROVE  /\ queue \in Seq(DriverTables \cap TablesBuilt) /\ queue # <<>>
             /\ queue = <<Head(queue)>>
  <2>1. PICK t \in Validated : queue = <<t>>
    BY <1>2
  <2>2. t \in DriverTables \cap TablesBuilt
    BY ValidatedAssumption DEF TablesBuilt
  <2> QED  BY <2>1, <2>2
<1>3. CASE mode = "validate"
  BY <1>2, <1>3 DEF Init
<1>4. CASE mode # "validate"
  BY <1>1, <1>4 DEF Init
<1> QED  BY <1>3, <1>4

\* It begins in such a state.
LEMMA ShapeInit ==
  ASSUME Init
  PROVE  Shape
<1> DEFINE S == SessionStreams(queue)
           t == Head(queue)
           g == FreshMemory(S, t)
<1>1. /\ queue \in Seq(DriverTables \cap TablesBuilt) /\ queue # <<>>
      /\ S \subseteq AllStreams /\ \A i \in DOMAIN queue : Touched(queue[i]) \subseteq S
      /\ g \in Memory(S, t)
  BY InitQueue, QueueKnown
<1>2. gen \in Memory(S, t)
  <2>1. CASE mode = "chunk"
    <3>1. gen = Positioned(g, t, next) /\ next \in 1..MaxRow
      BY <2>1, MaxRowAssumption DEF Init
    <3>2. Moved(S, t, g, Positioned(g, t, next))
      BY <1>1, <3>1, PositionedMoves
    <3> QED  BY <3>1, <3>2 DEF Moved
  <2>2. CASE mode # "chunk"
    <3>1. gen = g
      BY <2>2 DEF Init
    <3> QED  BY <1>1, <3>1
  <2> QED  BY <2>1, <2>2
<1>3. DOMAIN gen.pos = S
  BY <1>2, MemoryStreams
<1>4. /\ mode \in {"generate", "chunk", "validate"} /\ seed \in Seeds
      /\ next \in 0..(MaxRow + 1) /\ (mode # "validate" => next # 0)
  BY MaxRowAssumption DEF Init
<1> HIDE DEF S, t, g
<1>5. /\ gen \in Memory(DOMAIN gen.pos, t) /\ DOMAIN gen.pos \subseteq AllStreams
      /\ \A i \in DOMAIN queue : Touched(queue[i]) \subseteq DOMAIN gen.pos
  BY <1>1, <1>2, <1>3
<1>6. gen \in Memory(DOMAIN gen.pos, Head(queue))
  BY <1>5 DEF t
<1> QED  BY <1>1, <1>4, <1>5, <1>6 DEF Shape

\* What building a row does to such a state.
LEMMA GenerateRowKeeps ==
  ASSUME Shape, GenerateRow
  PROVE  LET t == Head(queue) IN
         /\ t \in TablesBuilt /\ Serves(DOMAIN gen.pos, t)
         /\ gen \in Memory(DOMAIN gen.pos, t) /\ next \in 1..MaxRow /\ seed \in Seeds
         /\ Leaves(DOMAIN gen.pos, t, gen, Build(gen, t, next, seed),
                   RowBuilt(gen, t, next, seed), gen')
         /\ DOMAIN gen'.pos = DOMAIN gen.pos
<1> DEFINE t == Head(queue)
           S == DOMAIN gen.pos
<1>1. /\ t \in TablesBuilt /\ Serves(S, t) /\ gen \in Memory(S, t) /\ seed \in Seeds
  BY HeadServed DEF GenerateRow
<1>2. next \in 1..MaxRow
  BY MaxRowAssumption DEF Shape, GenerateRow
<1>3. gen' = BuildAndStop(gen, t, next, seed)
  BY DEF GenerateRow
<1>4. Leaves(S, t, gen, Build(gen, t, next, seed), RowBuilt(gen, t, next, seed), gen')
  BY <1>1, <1>2, <1>3, StepIs
<1>5. gen' \in Memory(S, t)
  BY <1>4 DEF Leaves
<1>6. DOMAIN gen'.pos = S
  BY <1>5, MemoryStreams
<1> QED  BY <1>1, <1>2, <1>4, <1>6

\* Building a row keeps the shape.
LEMMA ShapeGenerateRow ==
  ASSUME Shape, GenerateRow
  PROVE  Shape'
<1>1. gen' \in Memory(DOMAIN gen'.pos, Head(queue)) /\ DOMAIN gen'.pos = DOMAIN gen.pos
  BY GenerateRowKeeps DEF Leaves
<1>2. next' \in 0..(MaxRow + 1) /\ next' # 0
  BY GenerateRowKeeps, MaxRowAssumption DEF GenerateRow
<1> QED  BY <1>1, <1>2 DEF Shape, GenerateRow

\* The next table, if there is one.
LEMMA NextTableKeeps ==
  ASSUME Shape, NextTable, queue' # <<>>
  PROVE  LET S == DOMAIN gen.pos
             t == Head(queue')
             g == NextMemory(gen, t) IN
         /\ queue' = Tail(queue)
         /\ \A i \in DOMAIN queue' : i + 1 \in DOMAIN queue /\ queue'[i] = queue[i + 1]
         /\ 1 \in DOMAIN queue' /\ t = queue'[1]
         /\ g \in Memory(S, t) /\ S \subseteq AllStreams
         /\ next' \in 1..MaxRow /\ gen' = Positioned(g, t, next')
         /\ Moved(S, t, g, gen') /\ DOMAIN gen'.pos = S
<1> DEFINE S == DOMAIN gen.pos
           t == Head(queue')
           g == NextMemory(gen, t)
<1>1. /\ queue' = Tail(queue) /\ queue \in Seq(DriverTables \cap TablesBuilt) /\ queue # <<>>
      /\ S \subseteq AllStreams
  BY DEF NextTable, Shape
<1>2. /\ \A i \in DOMAIN queue' : i + 1 \in DOMAIN queue /\ queue'[i] = queue[i + 1]
      /\ 1 \in DOMAIN queue' /\ t = queue'[1]
  BY <1>1
<1>3. PICK u : gen \in Memory(S, u)
  BY DEF Shape
<1>4. g \in Memory(S, t)
  BY <1>3, NextKeeps
<1>5. next' \in 1..MaxRow /\ gen' = Positioned(g, t, next')
  BY <1>1, MaxRowAssumption DEF NextTable
<1>6. Moved(S, t, g, gen')
  BY <1>1, <1>4, <1>5, PositionedMoves
<1>7. DOMAIN gen'.pos = S
  BY <1>6, MemoryStreams DEF Moved
<1> QED  BY <1>1, <1>2, <1>4, <1>5, <1>6, <1>7

\* Going on to the next table keeps the shape.
LEMMA ShapeNextTable ==
  ASSUME Shape, NextTable
  PROVE  Shape'
<1>1. /\ queue' \in Seq(DriverTables \cap TablesBuilt) /\ mode' # "validate"
      /\ UNCHANGED <<mode, seed>>
  BY DEF Shape, NextTable
<1>2. CASE queue' = <<>>
  <2>1. next' = 1 /\ gen' = gen
    BY <1>2 DEF NextTable
  <2> QED  BY <1>1, <1>2, <2>1, MaxRowAssumption DEF Shape
<1>3. CASE queue' # <<>>
  <2>1. /\ \A i \in DOMAIN queue' : i + 1 \in DOMAIN queue /\ queue'[i] = queue[i + 1]
        /\ next' \in 1..MaxRow /\ DOMAIN gen'.pos = DOMAIN gen.pos
        /\ gen' \in Memory(DOMAIN gen'.pos, Head(queue'))
    BY <1>3, NextTableKeeps DEF Moved
  <2>2. next' \in 0..(MaxRow + 1) /\ next' # 0
    BY <2>1, MaxRowAssumption
  <2> QED  BY <1>1, <1>3, <2>1, <2>2 DEF Shape
<1> QED  BY <1>2, <1>3

\* Row k of t shown by -VALIDATE: where it is begun, and what it is built as.
ValidBegun(g, t, k) ==
  IF t \in ScdValidated THEN ScdBegun(Prepared(g, t), t, k) ELSE ValidationPosition(g, t, k)

\* The memory once the row is built.
ValidBuilt(g, t, k) ==
  IF t \in ScdValidated THEN ScdBuilt(Prepared(g, t), t, k)
  ELSE Build(ValidationPosition(g, t, k), t, k, seed)

\* And once the vld function has returned.
ValidEnded(t, h) ==
  CASE t = "s_promotion" -> RowStop(h, "promotion")
    [] t = "s_zip_to_gmt" -> RowStop(h, t)
    [] OTHER -> h

\* What -VALIDATE does with a row.
LEMMA ValidateRowIs ==
  ASSUME NEW k, ValidateRow(k)
  PROVE  LET t == Head(queue) IN
         /\ shown' = RowMadeOf(t, k, ValidBegun(gen, t, k), ValidBuilt(gen, t, k))
         /\ gen' = ValidEnded(t, ValidBuilt(gen, t, k))
         /\ mode = "validate" /\ next' = next + 1
         /\ UNCHANGED <<mode, seed, queue>>
  BY DEF ValidateRow, ValidBegun, ValidBuilt, ValidEnded, ScdBegun

\* validateSCD ends with the row asked for.
LEMMA ScdBuiltLast ==
  ASSUME NEW t \in TablesBuilt, NEW S, Serves(S, t), NEW g \in Memory(S, t),
         NEW k \in 1..MaxRow, seed \in Seeds
  PROVE  \E h \in Memory(S, t) :
           ScdBuilt(g, t, k) = Build(ScdBegun(h, t, k), t, k, seed)
<1>1. PICK f : ScdStates(S, g, t, k, f) /\ ScdBuilt(g, t, k) = f[k]
  BY ScdBuiltIs
<1>2. k \in ScdHistory(t, k) /\ k \in 1..k /\ k - 1 \in 0..k
  BY MaxRowAssumption DEF ScdHistory
<1>3. f[k - 1] \in Memory(S, t) /\ f[k] = Build(ScdBegun(f[k - 1], t, k), t, k, seed)
  BY <1>1, <1>2 DEF ScdStates
<1> QED  BY <1>1, <1>3

\* A row shown is built, in the memory of its table, from where it is begun.
LEMMA ValidBuiltIs ==
  ASSUME NEW t \in TablesBuilt, NEW S, Serves(S, t), NEW g \in Memory(S, t),
         NEW k \in 1..MaxRow, seed \in Seeds
  PROVE  \E h \in Memory(S, t) :
           /\ ValidBuilt(g, t, k) = Build(h, t, k, seed)
           /\ t \notin ScdValidated => h = ValidationPosition(g, t, k)
<1>1. CASE t \in ScdValidated
  <2>1. Prepared(g, t) \in Memory(S, t)
    BY PreparedKeeps
  <2>2. PICK h \in Memory(S, t) :
          ScdBuilt(Prepared(g, t), t, k) = Build(ScdBegun(h, t, k), t, k, seed)
    BY <2>1, ScdBuiltLast
  <2>3. ScdBegun(h, t, k) \in Memory(S, t)
    BY <2>2, ScdBegunMoves DEF Serves, Moved
  <2> QED  BY <1>1, <2>2, <2>3 DEF ValidBuilt
<1>2. CASE t \notin ScdValidated
  <2>1. ValidationPosition(g, t, k) \in Memory(S, t)
    BY ValidationPositionMoves DEF Serves, Moved
  <2> QED  BY <1>2, <2>1 DEF ValidBuilt
<1> QED  BY <1>1, <1>2

\* The tables whose vld function stops a row stop streams of theirs.
LEMMA EndsOwnStreams ==
  /\ "promotion" \in DOMAIN StreamsOf /\ "s_zip_to_gmt" \in DOMAIN StreamsOf
  /\ OwnStreams("promotion") = DOMAIN StreamsOf["promotion"]
  /\ OwnStreams("s_zip_to_gmt") = {}
  /\ OwnStreams("promotion") \subseteq Stopped("s_promotion")
<1>1. "promotion" \in DOMAIN StreamsOf /\ "s_zip_to_gmt" \in DOMAIN StreamsOf
  BY Tables
<1>2. Children("promotion") = {} /\ Children("s_zip_to_gmt") = {}
  BY ChildrenAre DEF ChildOf, RefreshChildOf
<1>3. DOMAIN StreamsOf["s_zip_to_gmt"] = {}
  BY Named DEF NoDraws
<1>4. OwnStreams("promotion") \subseteq Stopped("s_promotion")
  BY WrapsAre DEF Stopped, StopsWrapped
<1> QED  BY <1>1, <1>2, <1>3, <1>4, OwnAlone

\* What -VALIDATE leaves of a row is within the budgets.
LEMMA ValidEndedKeeps ==
  ASSUME NEW t \in TablesBuilt, NEW S, Serves(S, t), NEW g \in Memory(S, t),
         NEW k \in 1..MaxRow, seed \in Seeds
  PROVE  LET e == ValidEnded(t, ValidBuilt(g, t, k)) IN
         e \in Memory(S, t) /\ e.over \subseteq MayOverrun
<1> DEFINE h == ValidBuilt(g, t, k)
           e == ValidEnded(t, h)
<1>1. PICK b \in Memory(S, t) :
        h = Build(b, t, k, seed) /\ (t \notin ScdValidated => b = ValidationPosition(g, t, k))
  BY ValidBuiltIs
<1>2. h \in Memory(S, t)
  BY <1>1, BuildKeeps
<1>3. BuiltFrom(S, t, b, k, ChoicesOf(b, t, k, seed), RowBuilt(b, t, k, seed), h)
  BY <1>1, BuildIs
<1>4. h.over = {} /\ \A s \in S : h.used[s] = b.used[s] + Taken(RowBuilt(b, t, k, seed), s)
  BY <1>3 DEF BuiltFrom
<1>5. S \subseteq AllStreams /\ t \in DriverTables /\ Stopped(t) \subseteq S
  BY StreamsKnown DEF Serves
<1> SUFFICES e \in Memory(S, t) /\ e.over \subseteq MayOverrun
  OBVIOUS
<1> HIDE DEF h, e
<1>6. CASE t = "s_promotion"
  <2> DEFINE own == OwnStreams("promotion")
             d == RowBuilt(b, t, k, seed)
  <2>1. own \subseteq Stopped(t) /\ own \subseteq S
    BY <1>5, <1>6, EndsOwnStreams
  <2>2. StoppedAt(S, t, h, own, RowStop(h, "promotion"))
    BY <1>2, <1>5, <2>1, RowStopKeeps
  <2>3. e = RowStop(h, "promotion")
    BY <1>6 DEF ValidEnded, e
  <2>4. b = RowSkip(g, "promotion", k - 1) /\ k - 1 \in Nat
    BY <1>1, <1>6, MaxRowAssumption DEF ScdValidated, ValidationPosition, ChildOf,
       RefreshChildOf
  <2>5. SkippedTo(S, t, g, "promotion", k - 1, b)
    BY <1>5, <2>4, RowSkipKeeps
  <2>6. \A s \in own : TableOfStream[s] = "promotion" /\ PerRow[s] \in Nat
    BY EndsOwnStreams, PerRowIs
  <2>7. Fits(t, d.draws)
    BY <1>5, ChoicesFit, RowFits DEF RowBuilt
  <2> HIDE DEF d, own
  <2>8. ASSUME NEW s \in own, h.used[s] > PerRow[s] PROVE s \in MayOverrun
    <3>1. b.used[s] = 0
      BY <2>1, <2>5, <2>6 DEF SkippedTo
    <3>2. h.used[s] = 0 + Taken(d, s)
      BY <1>4, <2>1, <3>1 DEF d
    <3>3. s \in DOMAIN d.draws => s \in MayOverrun \/ (d.draws[s] <= PerRow[s] /\ d.draws[s] \in Nat)
      BY <2>1, <2>7 DEF Fits
    <3> QED  BY <2>6, <2>8, <3>2, <3>3 DEF Taken
  <2>9. e \in Memory(S, t) /\ \A s \in e.over : s \in own /\ h.used[s] > PerRow[s]
    BY <1>4, <2>2, <2>3 DEF StoppedAt
  <2> QED  BY <2>8, <2>9
<1>7. CASE t = "s_zip_to_gmt"
  <2>1. StoppedAt(S, t, h, {}, RowStop(h, t))
    BY <1>2, <1>5, <1>7, EndsOwnStreams, RowStopKeeps
  <2>2. e = RowStop(h, t)
    BY <1>7 DEF ValidEnded, e
  <2> QED  BY <1>4, <2>1, <2>2 DEF StoppedAt
<1>8. CASE t \notin {"s_promotion", "s_zip_to_gmt"}
  <2>1. e = h
    BY <1>8 DEF ValidEnded, e
  <2> QED  BY <1>2, <1>4, <2>1
<1> QED  BY <1>6, <1>7, <1>8

\* A row that is shown overruns only what may be.
LEMMA ValidateRowKeeps ==
  ASSUME Shape, NEW k \in 1..MaxRow, ValidateRow(k)
  PROVE  /\ queue # <<>> /\ DOMAIN gen'.pos = DOMAIN gen.pos
         /\ gen' \in Memory(DOMAIN gen.pos, Head(queue))
         /\ gen'.over \subseteq MayOverrun
<1> DEFINE S == DOMAIN gen.pos
           t == Head(queue)
<1>1. mode = "validate" /\ queue # <<>>
  BY ValidateRowIs DEF Shape
<1>2. t \in TablesBuilt /\ Serves(S, t) /\ gen \in Memory(S, t) /\ seed \in Seeds
  BY <1>1, HeadServed
<1>3. gen' = ValidEnded(t, ValidBuilt(gen, t, k))
  BY ValidateRowIs
<1>4. gen' \in Memory(S, t) /\ gen'.over \subseteq MayOverrun
  BY <1>2, <1>3, ValidEndedKeeps
<1> HIDE DEF S
<1>5. DOMAIN gen'.pos = S
  BY <1>4, MemoryStreams
<1> QED  BY <1>1, <1>4, <1>5 DEF S

\* Showing a row keeps the shape.
LEMMA ShapeValidateRow ==
  ASSUME Shape, NEW k \in 1..MaxRow, ValidateRow(k)
  PROVE  Shape'
<1>1. /\ queue # <<>> /\ DOMAIN gen'.pos = DOMAIN gen.pos
      /\ gen' \in Memory(DOMAIN gen'.pos, Head(queue))
  BY ValidateRowKeeps
<1>2. next' \in 0..(MaxRow + 1)
  BY MaxRowAssumption, MaxShownAssumption DEF ValidateRow, Shape
<1>3. UNCHANGED <<mode, seed, queue>> /\ mode = "validate"
  BY ValidateRowIs
<1> QED  BY <1>1, <1>2, <1>3 DEF Shape

\* Every step keeps the shape.
LEMMA ShapeNext ==
  ASSUME Shape, [Next]_vars
  PROVE  Shape'
<1>1. CASE UNCHANGED vars
  BY <1>1 DEF vars, Shape
<1>2. CASE Next
  BY <1>2, ShapeGenerateRow, ShapeNextTable, ShapeValidateRow DEF Next
<1> QED  BY <1>1, <1>2

\* A process always has a table at hand that it can build: its streams are
\* there and its memory has that table's columns.
THEOREM ShapeAlways == Spec => []Shape
  BY ShapeInit, ShapeNext, PTL DEF Spec

\* The state of every process, whatever the tables, the rows and the choices,
\* has the right type: no stream goes back before its seed, and no column comes
\* from a row beyond the table.
THEOREM TypesAlways == Spec => []TypeOK
<1>1. Shape => TypeOK
  <2> SUFFICES ASSUME Shape PROVE TypeOK
    OBVIOUS
  <2>1. PICK t : gen \in Memory(DOMAIN gen.pos, t)
    BY DEF Shape
  <2>2. /\ \A s \in DOMAIN gen.pos : gen.pos[s] \in Nat /\ gen.used[s] \in Nat
        /\ \A c \in DOMAIN gen.cur : gen.cur[c] \in 0..MaxRow /\ gen.old[c] \in 0..MaxRow
        /\ gen.over \subseteq AllStreams
    BY <2>1 DEF Memory
  <2> QED  BY <2>2 DEF Shape, TypeOK
<1> QED  BY <1>1, ShapeAlways, PTL

-----------------------------------------------------------------------------
(***************************************************************************)
(* Budgets: what is overrun.                                               *)
(***************************************************************************)

\* No table stops a stream that it borrows.
LEMMA StoppedApart ==
  ASSUME NEW t \in DriverTables
  PROVE  Stopped(t) \cap Borrowed(t) = {}
<1>1. "CC_HOURS" \in DOMAIN StreamsOf["call_center"] /\ "call_center" \in DOMAIN StreamsOf
  BY Tables, Named, CallCenterBudgets
<1>2. \A u \in DOMAIN StreamsOf : u # "call_center" => "CC_HOURS" \notin DOMAIN StreamsOf[u]
  BY <1>1, OneTablePerStream
<1>3. CASE t \in {"item", "s_item"}
  <2>1. /\ Children(t) = {} /\ Children("item") = {} /\ t \in DOMAIN StreamsOf
        /\ t \in StopsWrapped => Wraps[t] = "item" /\ "item" \in DOMAIN StreamsOf
    BY <1>3, ChildrenAre, Tables, WrapsAre DEF ChildOf, RefreshChildOf, StopsWrapped
  <2>2. OwnStreams(t) = DOMAIN StreamsOf[t] /\ OwnStreams("item") = DOMAIN StreamsOf["item"]
    BY <2>1, OwnAlone
  <2>3. "CC_HOURS" \notin OwnStreams(t)
    BY <1>2, <1>3, <2>1, <2>2
  <2>4. t \in StopsWrapped => "CC_HOURS" \notin OwnStreams(Wraps[t])
    BY <1>2, <2>1, <2>2
  <2> QED  BY <2>3, <2>4 DEF Stopped, Borrowed
<1>4. CASE t \notin {"item", "s_item"}
  BY <1>4, WrapsAre DEF Borrowed, WrappedBy
<1> QED  BY <1>3, <1>4

\* The streams that t has to itself.
Reserved(t) == Touched(t) \ Borrowed(t)

\* The streams of a table are touched by none before it.
Independent ==
  \A i, j \in DOMAIN queue : i < j => Touched(queue[i]) \cap Reserved(queue[j]) = {}

\* Between two rows of gen_tbl no number counts as taken.
Unused ==
  mode # "validate" => \A i \in DOMAIN queue : \A s \in Stopped(queue[i]) : gen.used[s] = 0

\* Only the streams known to be are overrun.
OverrunIsKnown == gen.over \subseteq MayOverrun

\* The inductive invariant of the budgets.
Known == Shape /\ Independent /\ Unused /\ OverrunIsKnown

\* The tables of the queue and their streams.
LEMMA QueueTables ==
  ASSUME Shape, NEW i \in DOMAIN queue
  PROVE  /\ queue[i] \in DriverTables /\ queue[i] \in TablesBuilt /\ i \in 1..Len(queue)
         /\ Stopped(queue[i]) \subseteq Reserved(queue[i])
         /\ Reserved(queue[i]) \subseteq DOMAIN gen.pos
<1>1. queue[i] \in DriverTables /\ queue[i] \in TablesBuilt /\ i \in 1..Len(queue)
  BY DEF Shape
<1>2. /\ Stopped(queue[i]) \subseteq Touched(queue[i])
      /\ Stopped(queue[i]) \cap Borrowed(queue[i]) = {}
  BY <1>1, StreamsKnown, StoppedApart
<1> QED  BY <1>1, <1>2 DEF Shape, Reserved

\* A queue of Init is a session, or one table.
LEMMA IndependentInit ==
  ASSUME Init
  PROVE  Independent
<1>1. CASE mode = "validate"
  <2>1. PICK t : queue = <<t>>
    BY <1>1 DEF Init
  <2>2. DOMAIN queue = {1}
    BY <2>1
  <2> QED  BY <2>2 DEF Independent
<1>2. CASE mode # "validate"
  <2>1. queue \in Sessions
    BY <1>2 DEF Init
  <2> QED  BY <2>1, SessionsAssumption DEF Independent, Reserved
<1> QED  BY <1>1, <1>2

\* The memory at the start of a process.
LEMMA InitGen ==
  ASSUME Init
  PROVE  LET S == SessionStreams(queue)
             t == Head(queue)
             g == FreshMemory(S, t) IN
         /\ Shape /\ Moved(S, t, g, gen) /\ DOMAIN gen.pos = S
         /\ mode \in {"generate", "validate"} => gen = g
         /\ mode = "chunk" => gen = Positioned(g, t, next) /\ next \in 2..MaxRow
<1> DEFINE S == SessionStreams(queue)
           t == Head(queue)
           g == FreshMemory(S, t)
<1>1. Shape /\ S \subseteq AllStreams /\ g \in Memory(S, t)
  BY ShapeInit, InitQueue, QueueKnown
<1>2. CASE mode = "chunk"
  <2>1. gen = Positioned(g, t, next) /\ next \in 1..MaxRow /\ next \in 2..MaxRow
    BY <1>2, MaxRowAssumption DEF Init
  <2>2. Moved(S, t, g, Positioned(g, t, next))
    BY <1>1, <2>1, PositionedMoves
  <2>3. DOMAIN gen.pos = S
    BY <2>1, <2>2, MemoryStreams DEF Moved
  <2> QED  BY <1>1, <1>2, <2>1, <2>2, <2>3
<1>3. CASE mode # "chunk"
  <2>1. gen = g
    BY <1>3 DEF Init
  <2>2. DOMAIN gen.pos = S
    BY <1>1, <2>1, MemoryStreams
  <2> QED  BY <1>1, <1>3, <2>1, <2>2, MovedNowhere
<1> QED  BY <1>2, <1>3

\* No number has been taken when a process begins.
LEMMA KnownInit ==
  ASSUME Init
  PROVE  Known
<1> DEFINE S == SessionStreams(queue)
           g == FreshMemory(S, Head(queue))
<1>1. Shape /\ Moved(S, Head(queue), g, gen) /\ DOMAIN gen.pos = S
  BY InitGen
<1>2. \A s \in S : g.used[s] = 0 /\ g.over = {}
  BY DEF FreshMemory
<1>3. \A s \in S : gen.used[s] = 0 /\ gen.over = {}
  BY <1>1, <1>2 DEF Moved
<1>4. gen.over = {}
  BY <1>1, <1>2 DEF Moved, FreshMemory
<1> HIDE DEF S
<1>5. Unused
  BY <1>1, <1>3, QueueTables DEF Unused
<1> QED  BY <1>1, <1>4, <1>5, IndependentInit DEF Known, OverrunIsKnown

\* A row is stopped, and overruns no other stream.
LEMMA KnownGenerateRow ==
  ASSUME Known, GenerateRow
  PROVE  Known'
<1> DEFINE t == Head(queue)
           S == DOMAIN gen.pos
<1>1. Shape /\ Shape' /\ UNCHANGED <<mode, seed, queue>> /\ queue # <<>> /\ mode # "validate"
  BY ShapeGenerateRow DEF Known, GenerateRow
<1>2. Leaves(S, t, gen, Build(gen, t, next, seed), RowBuilt(gen, t, next, seed), gen')
  BY <1>1, GenerateRowKeeps
<1>3. 1 \in DOMAIN queue /\ t = queue[1]
  BY <1>1, HeadServed
<1>4. Independent'
  BY <1>1 DEF Known, Independent
<1>5. \A s \in Stopped(t) : gen.used[s] = 0
  BY <1>1, <1>3 DEF Known, Unused
<1>6. OverrunIsKnown'
  BY <1>2, <1>5 DEF Leaves, OverrunIsKnown
<1>7. ASSUME NEW i \in DOMAIN queue, NEW s \in Stopped(queue[i])
      PROVE  gen'.used[s] = 0
  <2>1. CASE i = 1
    BY <1>2, <1>3, <1>7, <2>1 DEF Leaves
  <2>2. CASE i # 1
    <3>1. s \in Reserved(queue[i]) /\ s \in S /\ 1 < i
      BY <1>1, <1>7, <2>2, QueueTables
    <3>2. s \notin Touched(t)
      BY <1>3, <3>1 DEF Known, Independent
    <3>3. gen'.used[s] = gen.used[s]
      BY <1>2, <3>1, <3>2 DEF Leaves
    <3> QED  BY <1>1, <1>7, <3>3 DEF Known, Unused
  <2> QED  BY <2>1, <2>2
<1>8. Unused'
  BY <1>1, <1>7 DEF Unused
<1> QED  BY <1>1, <1>4, <1>6, <1>8 DEF Known

\* The next table takes the streams as they are.
LEMMA KnownNextTable ==
  ASSUME Known, NextTable
  PROVE  Known'
<1>1. Shape /\ Shape' /\ UNCHANGED <<mode, seed>> /\ mode # "validate"
  BY ShapeNextTable DEF Known, NextTable
<1>2. CASE queue' = <<>>
  <2>1. gen' = gen /\ DOMAIN queue' = {}
    BY <1>2 DEF NextTable
  <2> QED  BY <1>1, <2>1 DEF Known, Independent, Unused, OverrunIsKnown
<1>3. CASE queue' # <<>>
  <2> DEFINE g == NextMemory(gen, Head(queue'))
             S == DOMAIN gen.pos
  <2>1. /\ \A i \in DOMAIN queue' : i + 1 \in DOMAIN queue /\ queue'[i] = queue[i + 1]
        /\ Moved(S, Head(queue'), g, gen')
    BY <1>1, <1>3, NextTableKeeps
  <2>2. \A i \in DOMAIN queue' : i \in 1..Len(queue')
    BY <1>1, QueueTables DEF Shape
  <2>3. Independent'
    <3>1. \A i, j \in DOMAIN queue' : i < j => i + 1 < j + 1
      BY <2>2
    <3> QED  BY <2>1, <3>1 DEF Known, Independent
  <2>4. g.used = gen.used /\ g.over = {}
    BY DEF NextMemory, WithStreams
  <2> HIDE DEF g
  <2>5. ASSUME NEW i \in DOMAIN queue', NEW s \in Stopped(queue'[i])
        PROVE  gen'.used[s] = 0
    <3>1. i + 1 \in DOMAIN queue /\ s \in Stopped(queue[i + 1])
      BY <2>1, <2>5
    <3>2. s \in S /\ gen.used[s] = 0
      BY <1>1, <3>1, QueueTables DEF Known, Unused
    <3> QED  BY <2>1, <2>4, <3>2 DEF Moved
  <2>6. Unused'
    BY <2>5 DEF Unused
  <2>7. OverrunIsKnown'
    BY <2>1, <2>4 DEF Moved, OverrunIsKnown
  <2> QED  BY <1>1, <2>3, <2>6, <2>7 DEF Known
<1> QED  BY <1>2, <1>3

\* Neither does a row that is shown.
LEMMA KnownValidateRow ==
  ASSUME Known, NEW k \in 1..MaxRow, ValidateRow(k)
  PROVE  Known'
<1>1. mode = "validate" /\ UNCHANGED <<mode, seed, queue>>
  BY ValidateRowIs
<1>2. Shape' /\ gen'.over \subseteq MayOverrun
  BY ShapeValidateRow, ValidateRowKeeps DEF Known
<1> QED  BY <1>1, <1>2 DEF Known, Independent, Unused, OverrunIsKnown

\* Every step keeps to the budgets.
LEMMA KnownNext ==
  ASSUME Known, [Next]_vars
  PROVE  Known'
<1>1. CASE UNCHANGED vars
  BY <1>1, ShapeNext DEF vars, Known, Independent, Unused, OverrunIsKnown
<1>2. CASE Next
  BY <1>2, KnownGenerateRow, KnownNextTable, KnownValidateRow DEF Next
<1> QED  BY <1>1, <1>2

\* The invariant of the budgets holds in every process.
THEOREM KnownAlways == Spec => []Known
  BY KnownInit, KnownNext, PTL DEF Spec

\* No process, whatever its tables, rows and choices, takes more numbers of a
\* row than column_list.txt allows, but from the streams known for it: every
\* other budget is the most a row needs.
THEOREM OverrunsAreKnown == Spec => []NoUnknownOverrun
<1>1. Known => NoUnknownOverrun
  BY DEF Known, OverrunIsKnown, NoUnknownOverrun
<1> QED  BY <1>1, KnownAlways, PTL

-----------------------------------------------------------------------------
(***************************************************************************)
(* Histories: the values of a version come from its key.                   *)
(***************************************************************************)

\* A key starts at or before its row; the first row starts one.
LEMMA KeyStarts ==
  ASSUME NEW r \in Nat \ {0}
  PROVE  /\ KeyStart(r) \in 1..r
         /\ ~FirstOfKey(r) => r > 1 /\ KeyStart(r) = KeyStart(r - 1)
         /\ FirstOfKey(1)
<1>1. r % 6 \in 0..5
  OBVIOUS
<1>2. CASE r % 6 = 0
  <2>1. r >= 6 /\ (r - 1) % 6 = 5
    BY <1>2
  <2>2. KeyStart(r) = r - 2 /\ KeyStart(r - 1) = r - 2 
    BY <1>2, <2>1 DEF KeyStart, FirstOfKey
  <2> QED  BY <2>1, <2>2 DEF FirstOfKey
<1>3. CASE r % 6 \in {3, 5}
  <2>1. r >= 3 /\ (r - 1) % 6 \in {2, 4}
    BY <1>3
  <2>2. KeyStart(r) = r - 1 /\ KeyStart(r - 1) = r - 1
    BY <1>3, <2>1 DEF KeyStart, FirstOfKey
  <2> QED  BY <2>1, <2>2 DEF FirstOfKey
<1>4. CASE r % 6 \in {1, 2, 4}
  BY <1>4 DEF KeyStart, FirstOfKey
<1> QED  BY <1>1, <1>2, <1>3, <1>4

\* The columns of which the row b may keep an old value.
Kept(b, c) ==
  \E i \in DOMAIN b.changes :
    b.changes[i][1] = c /\ b.changes[i][2] \notin {"PTR", "INT OF DEC"}

\* An old value is kept only in a column changeSCD is called for, and never in
\* the first version of a key.
LEMMA RetainedIs ==
  ASSUME NEW b, NEW o, NEW k, NEW c
  PROVE  /\ Retained(b, o, k, c) => Kept(b, c) /\ ~FirstOfKey(k)
         /\ Remembered(b, o, k, c) <=> Kept(b, c) /\ ~Retained(b, o, k, c)
<1>1. Retained(b, o, k, c) => Kept(b, c) /\ ~FirstOfKey(k)
  BY Zenon DEF Retained, Kept
<1>2. Remembered(b, o, k, c) <=> Kept(b, c) /\ ~Retained(b, o, k, c)
  BY Zenon DEF Remembered, Kept
<1> QED  BY <1>1, <1>2

\* What every row of a table fixes, and changes.
Pattern(t) == Row(t, 1, CHOOSE o : o \in Outcomes(t))

\* Every row of a table fixes and changes what its pattern does.
LEMMA PatternIs ==
  ASSUME NEW t \in DriverTables, NEW r, NEW o
  PROVE  /\ SameShape(Row(t, r, o), Pattern(t))
         /\ t \notin Versioned => IsPlain(Pattern(t))
  BY RowShape DEF Pattern

\* So it keeps the columns that the pattern does.
LEMMA KeptIs ==
  ASSUME NEW b, NEW d, SameShape(b, d), NEW c
  PROVE  Kept(b, c) <=> Kept(d, c)
  BY DEF SameShape, Kept

\* A fixed column has no value.
FixedUnset(g, t) ==
  \A c \in PrintedColumns(t) \cap Pattern(t).fixed : g.cur[c] = 0 /\ g.old[c] = 0

\* A column that is never computed stays unset.
LEMMA BuildFixed ==
  ASSUME NEW t \in TablesBuilt, t \in DriverTables, NEW S, NEW g \in Memory(S, t), NEW r,
         NEW luck,
         FixedUnset(g, t)
  PROVE  FixedUnset(Build(g, t, r, luck), t)
<1> DEFINE b == RowBuilt(g, t, r, luck)
           o == ChoicesOf(g, t, r, luck)
           h == Build(g, t, r, luck)
<1>1. BuiltFrom(S, t, g, r, o, b, h)
  BY BuildIs
<1>2. b.fixed = Pattern(t).fixed
  BY PatternIs DEF RowBuilt, SameShape
<1> HIDE DEF b, o, h
<1>3. ASSUME NEW c \in PrintedColumns(t) \cap Pattern(t).fixed
      PROVE  h.cur[c] = 0 /\ h.old[c] = 0
  <2>1. NewValue(g, b, KeyOf(t, r, o), r, c) = 0
    BY <1>2, <1>3 DEF NewValue, FixedUnset
  <2> QED  BY <1>1, <1>3, <2>1 DEF BuiltFrom, FixedUnset
<1> QED  BY <1>3 DEF FixedUnset, h

\* It does so while streams move.
LEMMA OnlyStreamsFixed ==
  ASSUME NEW g, NEW e, NEW t, OnlyStreams(g, e), FixedUnset(g, t)
  PROVE  FixedUnset(e, t)
  BY DEF OnlyStreams, FixedUnset

\* The rows up to r of r's key.
Zone(r) == {0} \cup KeyStart(r)..r

\* All values, old and new, come from the key of row r or are unset.
InKey(g, t, r) ==
  \A c \in PrintedColumns(t) :
    g.cur[c] \in Zone(r) /\ (Kept(Pattern(t), c) => g.old[c] \in Zone(r))

\* A builder called for the next row of a key, or for the first one, takes all
\* values from that key.
LEMMA BuildInKey ==
  ASSUME NEW t \in TablesBuilt, t \in DriverTables, t \in WarehouseTables,
         NEW S, NEW g \in Memory(S, t), NEW r \in 1..MaxRow, NEW luck,
         FixedUnset(g, t),
         FirstOfKey(r) \/ t \notin Versioned \/ InKey(g, t, r - 1)
  PROVE  InKey(Build(g, t, r, luck), t, r)
<1> DEFINE b == RowBuilt(g, t, r, luck)
           o == ChoicesOf(g, t, r, luck)
           h == Build(g, t, r, luck)
           k == KeyOf(t, r, o)
<1>1. BuiltFrom(S, t, g, r, o, b, h)
  BY BuildIs
<1>2. SameShape(b, Pattern(t)) /\ (t \notin Versioned => IsPlain(Pattern(t)))
  BY PatternIs DEF RowBuilt
<1>3. k = r
  BY WrapsAre, Tables DEF KeyOf
<1>4. r \in Nat \ {0} /\ 0 \in Zone(r) /\ r \in Zone(r)
  BY MaxRowAssumption, KeyStarts DEF Zone
<1>5. ~FirstOfKey(r) => Zone(r - 1) \subseteq Zone(r)
  BY <1>4, KeyStarts DEF Zone
<1> HIDE DEF b, o, h, k
<1>6. ASSUME NEW c \in PrintedColumns(t)
      PROVE  h.cur[c] \in Zone(r) /\ (Kept(Pattern(t), c) => h.old[c] \in Zone(r))
  <2>1. Kept(b, c) <=> Kept(Pattern(t), c)
    BY <1>2, KeptIs
  <2>2. /\ Retained(b, o, k, c) => Kept(b, c) /\ ~FirstOfKey(r)
        /\ Remembered(b, o, k, c) <=> Kept(b, c) /\ ~Retained(b, o, k, c)
    BY <1>3, RetainedIs
  <2>3. t \notin Versioned => ~Kept(b, c) /\ b.once = {}
    <3>1. SUFFICES ASSUME t \notin Versioned PROVE ~Kept(b, c) /\ b.once = {}
      OBVIOUS
    <3>2. b.changes = <<>> /\ b.once = {}
      BY <1>2, <3>1 DEF IsPlain, SameShape
    <3> QED  BY <3>2 DEF Kept
  <2>4. Retained(b, o, k, c) => g.old[c] \in Zone(r)
    BY <1>5, <2>1, <2>2, <2>3 DEF InKey
  <2>5. NewValue(g, b, k, r, c) \in Zone(r)
    <3>1. CASE c \in b.fixed
      <4>1. g.cur[c] = 0
        BY <1>2, <3>1 DEF FixedUnset, SameShape
      <4> QED  BY <1>4, <3>1, <4>1 DEF NewValue
    <3>2. CASE c \notin b.fixed /\ c \in b.once /\ ~FirstOfKey(r)
      <4>1. g.cur[c] \in Zone(r)
        BY <1>5, <2>3, <3>2 DEF InKey
      <4> QED  BY <1>3, <1>4, <3>2, <4>1 DEF NewValue
    <3>3. CASE c \notin b.fixed /\ ~(c \in b.once /\ ~FirstOfKey(r))
      BY <1>3, <1>4, <3>3 DEF NewValue
    <3> QED  BY <3>1, <3>2, <3>3
  <2>6. /\ h.cur[c] = IF Retained(b, o, k, c) THEN g.old[c] ELSE NewValue(g, b, k, r, c)
        /\ h.old[c] = IF Remembered(b, o, k, c) THEN NewValue(g, b, k, r, c) ELSE g.old[c]
    BY <1>1 DEF BuiltFrom, k
  <2> QED  BY <2>1, <2>2, <2>4, <2>5, <2>6
<1> QED  BY <1>6 DEF InKey, h

\* They stay while streams move.
LEMMA OnlyStreamsInKey ==
  ASSUME NEW g, NEW e, NEW t, NEW r, OnlyStreams(g, e), InKey(g, t, r)
  PROVE  InKey(e, t, r)
  BY DEF OnlyStreams, InKey

\* The rows before k in k's key are built, one after the other.
LEMMA HistoryIs ==
  ASSUME NEW t \in DriverTables, t \in WarehouseTables, NEW k \in 1..MaxRow, NEW j \in 1..k,
         j \in ScdHistory(t, k), ~FirstOfKey(j)
  PROVE  j - 1 \in 1..k /\ j - 1 \in ScdHistory(t, k)
<1>1. \A i, o : KeyOf(t, i, o) = i
  BY WrapsAre, Tables DEF KeyOf
<1>2. k \in Nat /\ j \in Nat \ {0}
  BY MaxRowAssumption
<1>3. j > 1
  BY <1>2, KeyStarts
<1>4. j - 1 \in 1..k /\ (j - 1) + 1 = j
  BY <1>2, <1>3
<1>5. \A i \in (j + 1)..k : ~FirstOfKey(i)
  BY <1>1 DEF ScdHistory
<1>6. \A i \in ((j - 1) + 1)..k : ~FirstOfKey(i)
  <2> TAKE i \in ((j - 1) + 1)..k
  <2>1. i = j \/ i \in (j + 1)..k
    BY <1>2, <1>4
  <2> QED  BY <1>5, <2>1
<1> QED  BY <1>1, <1>4, <1>6 DEF ScdHistory

\* validateSCD leaves unset what is never computed.
LEMMA ScdFixed ==
  ASSUME NEW t \in TablesBuilt, NEW S, Serves(S, t), NEW g, NEW k \in 1..MaxRow,
         NEW f, ScdStates(S, g, t, k, f), FixedUnset(g, t)
  PROVE  \A j \in 0..k : FixedUnset(f[j], t)
<1>1. k \in Nat /\ 1..k \subseteq 1..MaxRow /\ t \in DriverTables /\ S \subseteq AllStreams
  BY MaxRowAssumption DEF Serves
<1> DEFINE G == {n \in Nat : n \in 0..k => FixedUnset(f[n], t)}
<1>2. 0 \in G
  BY DEF ScdStates
<1>3. ASSUME NEW n \in G PROVE n + 1 \in G
  <2> SUFFICES ASSUME n + 1 \in 0..k PROVE FixedUnset(f[n + 1], t)
    OBVIOUS
  <2>1. n \in 0..k /\ n + 1 \in 1..k /\ n + 1 - 1 = n /\ n + 1 \in 1..MaxRow
    BY <1>1
  <2>2. FixedUnset(f[n], t) /\ f[n] \in Memory(S, t)
    BY <2>1 DEF ScdStates
  <2>3. f[n + 1] = IF n + 1 \in ScdHistory(t, k)
                     THEN Build(ScdBegun(f[n], t, n + 1), t, n + 1, seed) ELSE g
    BY <2>1 DEF ScdStates
  <2> DEFINE e == ScdBegun(f[n], t, n + 1)
  <2>4. e \in Memory(S, t) /\ OnlyStreams(f[n], e)
    BY <1>1, <2>1, <2>2, ScdBegunMoves DEF Moved
  <2> HIDE DEF e
  <2>5. FixedUnset(e, t)
    BY <2>2, <2>4, OnlyStreamsFixed
  <2>6. FixedUnset(Build(e, t, n + 1, seed), t)
    BY <1>1, <2>4, <2>5, BuildFixed
  <2> QED  BY <2>3, <2>6 DEF e
<1> HIDE DEF G
<1>4. G = Nat
  BY <1>2, <1>3, InductionSet DEF G
<1> QED  BY <1>1, <1>4 DEF G

\* The rows of a history have their values from its key.
LEMMA ScdInKey ==
  ASSUME NEW t \in TablesBuilt, t \in WarehouseTables, NEW S, Serves(S, t), NEW g,
         NEW k \in 1..MaxRow, NEW f, ScdStates(S, g, t, k, f), FixedUnset(g, t)
  PROVE  InKey(f[k], t, k)
<1>1. k \in Nat /\ 1..k \subseteq 1..MaxRow /\ t \in DriverTables /\ S \subseteq AllStreams
  BY MaxRowAssumption DEF Serves
<1> DEFINE Q(n) == n \in 1..k /\ n \in ScdHistory(t, k) => InKey(f[n], t, n)
           G == {n \in Nat : Q(n)}
<1>2. 0 \in G
  OBVIOUS
<1>3. ASSUME NEW n \in G PROVE n + 1 \in G
  <2> SUFFICES ASSUME n + 1 \in 1..k, n + 1 \in ScdHistory(t, k) PROVE InKey(f[n + 1], t, n + 1)
    OBVIOUS
  <2>1. n \in 0..k /\ n + 1 - 1 = n /\ n + 1 \in 1..MaxRow
    BY <1>1
  <2>2. FixedUnset(f[n], t) /\ f[n] \in Memory(S, t)
    BY <2>1, ScdFixed DEF ScdStates
  <2>3. f[n + 1] = Build(ScdBegun(f[n], t, n + 1), t, n + 1, seed)
    BY <2>1 DEF ScdStates
  <2> DEFINE e == ScdBegun(f[n], t, n + 1)
  <2>4. e \in Memory(S, t) /\ OnlyStreams(f[n], e)
    BY <1>1, <2>1, <2>2, ScdBegunMoves DEF Moved
  <2> HIDE DEF e
  <2>5. FixedUnset(e, t)
    BY <2>2, <2>4, OnlyStreamsFixed
  <2>6. ~FirstOfKey(n + 1) => InKey(e, t, n)
    <3>1. ~FirstOfKey(n + 1) => n \in 1..k /\ n \in ScdHistory(t, k)
      BY <1>1, <2>1, HistoryIs
    <3> QED  BY <2>4, <3>1, OnlyStreamsInKey
  <2>7. InKey(Build(e, t, n + 1, seed), t, n + 1)
    BY <1>1, <2>1, <2>4, <2>5, <2>6, BuildInKey
  <2> QED  BY <2>3, <2>7 DEF e
<1> HIDE DEF G
<1>4. G = Nat
  BY <1>2, <1>3, InductionSet DEF G
<1>5. k \in ScdHistory(t, k) /\ k \in 1..k
  BY <1>1 DEF ScdHistory
<1> QED  BY <1>1, <1>4, <1>5 DEF G

\* A fixed column never gets a value, and a version of a key takes its values from
\* the key's rows up to it.
LEMMA ValidBuiltFixed ==
  ASSUME NEW t \in TablesBuilt, NEW S, Serves(S, t), NEW g \in Memory(S, t),
         NEW k \in 1..MaxRow, seed \in Seeds, FixedUnset(g, t)
  PROVE  /\ FixedUnset(ValidBuilt(g, t, k), t)
         /\ t \in WarehouseTables => InKey(ValidBuilt(g, t, k), t, k)
<1>1. t \in DriverTables /\ S \subseteq AllStreams
  BY DEF Serves
<1>2. CASE t \in ScdValidated
  <2> DEFINE p == Prepared(g, t)
  <2>1. p \in Memory(S, t)
    BY PreparedKeeps
  <2>2. FixedUnset(p, t)
    <3>1. \A c \in PrintedColumns(t) : p.cur[c] = g.cur[c] /\ p.old[c] \in {0, g.old[c]}
      BY DEF Prepared, Memory
    <3> QED  BY <3>1 DEF FixedUnset
  <2> HIDE DEF p
  <2>3. PICK f : ScdStates(S, p, t, k, f) /\ ScdBuilt(p, t, k) = f[k]
    BY <2>1, ScdBuiltIs
  <2>4. FixedUnset(f[k], t) /\ (t \in WarehouseTables => InKey(f[k], t, k))
    BY <2>2, <2>3, ScdFixed, ScdInKey, MaxRowAssumption
  <2> QED  BY <1>2, <2>3, <2>4 DEF ValidBuilt, p
<1>3. CASE t \notin ScdValidated
  <2> DEFINE e == ValidationPosition(g, t, k)
  <2>1. e \in Memory(S, t) /\ OnlyStreams(g, e)
    BY <1>1, ValidationPositionMoves DEF Moved
  <2>2. t \in WarehouseTables => t \notin Versioned
    BY <1>3, Tables DEF ScdValidated, Versioned
  <2>3. FixedUnset(e, t)
    BY <2>1, OnlyStreamsFixed
  <2> HIDE DEF e
  <2>4. FixedUnset(Build(e, t, k, seed), t)
    BY <1>1, <2>1, <2>3, BuildFixed
  <2>5. t \in WarehouseTables => InKey(Build(e, t, k, seed), t, k)
    BY <1>1, <2>1, <2>2, <2>3, BuildInKey
  <2> QED  BY <1>3, <2>4, <2>5 DEF ValidBuilt, e
<1> QED  BY <1>2, <1>3

\* Stopping the row that was shown moves streams only.
LEMMA ValidEndedOnly ==
  ASSUME NEW t, NEW h
  PROVE  OnlyStreams(h, ValidEnded(t, h))
<1>1. CASE t = "s_promotion"
  BY <1>1 DEF ValidEnded, RowStop, WithStreams, OnlyStreams
<1>2. CASE t = "s_zip_to_gmt"
  BY <1>2 DEF ValidEnded, RowStop, WithStreams, OnlyStreams
<1>3. CASE t \notin {"s_promotion", "s_zip_to_gmt"}
  BY <1>3 DEF ValidEnded, OnlyStreams
<1> QED  BY <1>1, <1>2, <1>3

\* A chunk is of a table that is split.
SplitQueue ==
  mode = "chunk" => \A i \in DOMAIN queue : queue[i] \in Splittable

\* What is never computed is unset.
FixedKnown == queue # <<>> => FixedUnset(gen, Head(queue))

\* The values of the last row built are its key's.
HistoryKept ==
  mode # "validate" /\ queue # <<>> /\ Head(queue) \in WarehouseTables =>
    \/ FirstOfKey(next) \/ Head(queue) \notin Versioned
    \/ InKey(gen, Head(queue), next - 1)

\* The inductive invariant of the histories.
Historical == Known /\ SplitQueue /\ FixedKnown /\ HistoryKept /\ HistoryStaysInKey

\* A row with the values of its key shows only those.
LEMMA RowStays ==
  ASSUME NEW S, NEW t, t \in WarehouseTables, NEW r, NEW g, NEW h \in Memory(S, t),
         InKey(h, t, r), shown' = RowMadeOf(t, r, g, h)
  PROVE  HistoryStaysInKey'
<1>1. DOMAIN h.cur = PrintedColumns(t) /\ \A c \in DOMAIN h.cur : h.cur[c] \in Zone(r)
  BY DEF InKey, Memory
<1>2. \A c \in DOMAIN h.cur : h.cur[c] # 0 => h.cur[c] \in KeyStart(r)..r
  BY <1>1 DEF Zone
<1>3. shown'.row = r /\ shown'.values = h.cur
  BY DEF RowMadeOf
<1> QED  BY <1>2, <1>3 DEF HistoryStaysInKey

\* The property is about warehouse tables.
LEMMA OtherStays ==
  ASSUME NEW t, t \notin WarehouseTables, NEW r, NEW g, NEW h, shown' = RowMadeOf(t, r, g, h)
  PROVE  HistoryStaysInKey'
<1>1. shown'.table = t
  BY DEF RowMadeOf
<1> QED  BY <1>1 DEF HistoryStaysInKey

\* Nothing is set when a table is begun.
LEMMA FreshIsFixed ==
  ASSUME NEW S, NEW t
  PROVE  FixedUnset(FreshMemory(S, t), t)
  BY DEF FixedUnset, FreshMemory

\* No row has been built when a process begins.
LEMMA HistoricalInit ==
  ASSUME Init
  PROVE  Historical
<1>1. /\ Shape /\ OnlyStreams(FreshMemory(SessionStreams(queue), Head(queue)), gen)
  BY InitGen DEF Moved
<1>2. FixedKnown
  BY <1>1, FreshIsFixed, OnlyStreamsFixed DEF FixedKnown
<1>3. SplitQueue
  <2> SUFFICES ASSUME mode = "chunk" PROVE \A i \in DOMAIN queue : queue[i] \in Splittable
    BY DEF SplitQueue
  <2>1. SetOf(queue) \subseteq Splittable
    BY DEF Init
  <2> QED  BY <2>1 DEF SetOf
<1>4. HistoryKept
  <2> SUFFICES ASSUME mode # "validate", queue # <<>>
               PROVE  FirstOfKey(next) \/ Head(queue) \notin Versioned
    BY DEF HistoryKept
  <2>1. CASE mode = "chunk"
    <3>1. Head(queue) \in Splittable
      BY <1>1, <1>3, <2>1, HeadServed DEF SplitQueue
    <3> QED  BY <3>1 DEF Splittable, Versioned
  <2>2. CASE mode # "chunk"
    <3>1. next = 1
      BY <2>2 DEF Init
    <3> QED  BY <3>1, KeyStarts
  <2> QED  BY <2>1, <2>2
<1>5. HistoryStaysInKey
  BY DEF Init, HistoryStaysInKey
<1> QED  BY <1>2, <1>3, <1>4, <1>5, KnownInit DEF Historical

\* gen_tbl builds the next version of a key, or a first one.
LEMMA HistoricalGenerateRow ==
  ASSUME Historical, GenerateRow
  PROVE  Historical'
<1> DEFINE t == Head(queue)
           S == DOMAIN gen.pos
           h == Build(gen, t, next, seed)
<1>1. /\ Shape /\ UNCHANGED <<mode, seed, queue>> /\ queue # <<>> /\ mode # "validate"
      /\ next' = next + 1 /\ shown' = RowMadeOf(t, next, gen, h)
  BY DEF Historical, Known, GenerateRow
<1>2. /\ t \in TablesBuilt /\ Serves(S, t) /\ gen \in Memory(S, t) /\ next \in 1..MaxRow
      /\ seed \in Seeds /\ Leaves(S, t, gen, h, RowBuilt(gen, t, next, seed), gen')
  BY <1>1, GenerateRowKeeps
<1>3. h \in Memory(S, t) /\ OnlyStreams(h, gen') /\ t \in DriverTables
  BY <1>2, BuildKeeps DEF Leaves, Serves
<1>4. FixedUnset(gen, t) /\ FixedUnset(h, t)
  BY <1>1, <1>2, <1>3, BuildFixed DEF Historical, FixedKnown
<1>5. t \in WarehouseTables => InKey(h, t, next)
  <2> SUFFICES ASSUME t \in WarehouseTables PROVE InKey(h, t, next)
    OBVIOUS
  <2>1. FirstOfKey(next) \/ t \notin Versioned \/ InKey(gen, t, next - 1)
    BY <1>1 DEF Historical, HistoryKept
  <2> QED  BY <1>2, <1>3, <1>4, <2>1, BuildInKey
<1>6. Known'
  BY KnownGenerateRow DEF Historical
<1>7. FixedKnown'
  BY <1>1, <1>3, <1>4, OnlyStreamsFixed DEF FixedKnown
<1>8. HistoryKept'
  <2>1. t \in WarehouseTables => InKey(gen', t, next)
    BY <1>3, <1>5, OnlyStreamsInKey
  <2>2. next' - 1 = next
    BY <1>1, <1>2, MaxRowAssumption
  <2> QED  BY <1>1, <2>1, <2>2 DEF HistoryKept
<1>9. HistoryStaysInKey'
  <2> HIDE DEF h, t, S
  <2>1. CASE t \in WarehouseTables
    BY <1>1, <1>3, <1>5, <2>1, RowStays
  <2>2. CASE t \notin WarehouseTables
    BY <1>1, <2>2, OtherStays
  <2> QED  BY <2>1, <2>2
<1>10. SplitQueue'
  BY <1>1 DEF Historical, SplitQueue
<1> QED  BY <1>6, <1>7, <1>8, <1>9, <1>10 DEF Historical

\* The next table begins with no values.
LEMMA HistoricalNextTable ==
  ASSUME Historical, NextTable
  PROVE  Historical'
<1>1. Shape /\ Known' /\ UNCHANGED <<mode, seed>> /\ shown' = <<>>
  BY KnownNextTable DEF Historical, Known, NextTable
<1>2. HistoryStaysInKey'
  BY <1>1 DEF HistoryStaysInKey
<1>3. CASE queue' = <<>>
  BY <1>1, <1>2, <1>3 DEF Historical, SplitQueue, FixedKnown, HistoryKept
<1>4. CASE queue' # <<>>
  <2> DEFINE t == Head(queue')
             g == NextMemory(gen, t)
  <2>1. /\ \A i \in DOMAIN queue' : i + 1 \in DOMAIN queue /\ queue'[i] = queue[i + 1]
        /\ 1 \in DOMAIN queue' /\ t = queue'[1] /\ Moved(DOMAIN gen.pos, t, g, gen')
    BY <1>1, <1>4, NextTableKeeps
  <2>2. SplitQueue'
    BY <1>1, <2>1 DEF Historical, SplitQueue
  <2>3. FixedUnset(g, t)
    BY DEF FixedUnset, NextMemory, FreshMemory, WithStreams
  <2>4. FixedKnown'
    <3>1. OnlyStreams(g, gen')
      BY <2>1 DEF Moved
    <3> QED  BY <2>3, <3>1, OnlyStreamsFixed DEF FixedKnown
  <2>5. HistoryKept'
    <3>1. CASE mode = "chunk"
      <4>1. t \in Splittable
        BY <1>1, <2>1, <2>2, <3>1 DEF SplitQueue
      <4> QED  BY <4>1 DEF Splittable, Versioned, HistoryKept
    <3>2. CASE mode # "chunk"
      <4>1. next' = 1
        BY <1>4, <3>2 DEF NextTable
      <4> QED  BY <4>1, KeyStarts DEF HistoryKept
    <3> QED  BY <3>1, <3>2
  <2> QED  BY <1>1, <1>2, <2>2, <2>4, <2>5 DEF Historical
<1> QED  BY <1>3, <1>4

\* validateSCD builds the key from its first version on.
LEMMA HistoricalValidateRow ==
  ASSUME Historical, NEW k \in 1..MaxRow, ValidateRow(k)
  PROVE  Historical'
<1> DEFINE t == Head(queue)
           S == DOMAIN gen.pos
           h == ValidBuilt(gen, t, k)
<1>1. /\ shown' = RowMadeOf(t, k, ValidBegun(gen, t, k), h) /\ gen' = ValidEnded(t, h)
      /\ mode = "validate" /\ UNCHANGED <<mode, seed, queue>>
  BY ValidateRowIs
<1>2. Shape /\ queue # <<>>
  BY <1>1 DEF Historical, Known, Shape
<1>3. t \in TablesBuilt /\ Serves(S, t) /\ gen \in Memory(S, t) /\ seed \in Seeds
  BY <1>2, HeadServed
<1>4. FixedUnset(gen, t)
  BY <1>2 DEF Historical, FixedKnown
<1>5. FixedUnset(h, t) /\ (t \in WarehouseTables => InKey(h, t, k))
  BY <1>3, <1>4, ValidBuiltFixed
<1>6. h \in Memory(S, t)
  BY <1>3, ValidBuiltIs, BuildKeeps
<1>7. OnlyStreams(h, gen')
  BY <1>1, ValidEndedOnly
<1> HIDE DEF h, S
<1>8. FixedKnown'
  BY <1>1, <1>5, <1>7, OnlyStreamsFixed DEF FixedKnown
<1>9. HistoryStaysInKey'
  <2> HIDE DEF t
  <2>1. CASE t \in WarehouseTables
    BY <1>1, <1>5, <1>6, <2>1, RowStays
  <2>2. CASE t \notin WarehouseTables
    BY <1>1, <2>2, OtherStays
  <2> QED  BY <2>1, <2>2
<1>10. Known'
  BY KnownValidateRow DEF Historical
<1> QED  BY <1>1, <1>8, <1>9, <1>10 DEF Historical, SplitQueue, HistoryKept

\* Every step keeps the histories apart.
LEMMA HistoricalNext ==
  ASSUME Historical, [Next]_vars
  PROVE  Historical'
<1>1. CASE UNCHANGED vars
  <2>1. Known'
    BY KnownNext DEF Historical
  <2>2. SplitQueue' /\ FixedKnown' /\ HistoryKept' /\ HistoryStaysInKey'
    BY <1>1 DEF vars, Historical, SplitQueue, FixedKnown, HistoryKept, HistoryStaysInKey
  <2> QED  BY <2>1, <2>2 DEF Historical
<1>2. CASE Next
  BY <1>2, HistoricalGenerateRow, HistoricalNextTable, HistoricalValidateRow DEF Next
<1> QED  BY <1>1, <1>2

\* In no process does a version of a business key show a value that another key
\* computed: neither in a table that is generated, in one piece or in chunks,
\* nor in the rows that -VALIDATE shows in any order.
THEOREM HistoryStays == Spec => []HistoryStaysInKey
<1>1. Spec => []Historical
  BY HistoricalInit, HistoricalNext, PTL DEF Spec
<1>2. Historical => HistoryStaysInKey
  BY DEF Historical
<1> QED  BY <1>1, <1>2, PTL

-----------------------------------------------------------------------------
(***************************************************************************)
(* Pace: where the streams that show are.                                  *)
(***************************************************************************)

\* The tables that every way of getting at a row gets right.
Paced ==
  DriverTables \
    {"s_purchase", "s_catalog_order", "s_web_order", "s_store", "s_warehouse",
     "s_call_center", "s_web_site", "web_site", "s_web_page"}

\* Their families: a sales table with its returns, or a table alone; no table
\* with a child wraps another.
LEMMA PacedTables ==
  ASSUME NEW t \in Paced
  PROVE  /\ t \in DriverTables /\ t \in DOMAIN StreamsOf
         /\ Family(t) = {t} \cup Children(t)
         /\ Children(t) \subseteq {"catalog_returns", "store_returns", "web_returns"}
         /\ WrappedBy(t) \subseteq {"catalog_page", "customer_address", "item", "promotion"}
         /\ t \in DOMAIN ChildOf => Children(t) = {ChildOf[t]}
         /\ t \notin DOMAIN ChildOf => Children(t) = {}
         /\ Children(t) # {} => WrappedBy(t) = {}
<1>1. t \in DriverTables /\ t \in DOMAIN StreamsOf
  BY TablesKnown DEF Paced
<1>2. CASE t \in {"catalog_sales", "store_sales", "web_sales"}
  <2>1. /\ Children(t) = {ChildOf[t]} /\ t \in DOMAIN ChildOf
        /\ Children(t) \subseteq {"catalog_returns", "store_returns", "web_returns"}
    BY <1>2, ChildrenAre DEF ChildOf
  <2>2. \A c \in Children(t) : Children(c) = {}
    BY <2>1, ChildrenAre DEF ChildOf, RefreshChildOf
  <2>3. WrappedBy(t) = {}
    BY <1>2, WrapsAre DEF WrappedBy
  <2> QED  BY <1>1, <2>1, <2>2, <2>3 DEF Family
<1>3. CASE t \notin {"catalog_sales", "store_sales", "web_sales"}
  <2>1. t \notin DOMAIN ChildOf /\ t \notin DOMAIN RefreshChildOf
    BY <1>3, DriverTablesAre DEF Paced, ChildOf, RefreshChildOf
  <2>2. Children(t) = {}
    BY <2>1, ChildrenAre
  <2>3. WrappedBy(t) \subseteq {"catalog_page", "customer_address", "item", "promotion"}
    BY WrapsAre DEF WrappedBy, Paced
  <2> QED  BY <1>1, <2>1, <2>2, <2>3, FamilyOf
<1> QED  BY <1>2, <1>3

\* The table of some streams.
LEMMA OwnerIs ==
  ASSUME NEW t \in DOMAIN StreamsOf, NEW E, E \subseteq DOMAIN StreamsOf[t]
  PROVE  \A s \in E : s \in AllStreams /\ TableOfStream[s] = t
  BY PerRowIs

\* The table of each stream that may be overrun: a permutation's, or one whose
\* rows are not had freely.
LEMMA OverrunTables ==
  ASSUME NEW s \in MayOverrun
  PROVE  /\ s \in AllStreams
         /\ \/ /\ TableOfStream[s] \in DOMAIN ShuffleStream
               /\ s = ShuffleStream[TableOfStream[s]]
            \/ TableOfStream[s] \in
                 {"web_site", "s_catalog_order_lineitem", "s_purchase_lineitem",
                  "s_web_order_lineitem", "s_web_returns", "s_store_returns"}
<1>1. CASE s \in {"WEB_MARKET_CLASS"}
  <2>1. "web_site" \in DOMAIN StreamsOf
    BY Tables
  <2>2. {"WEB_MARKET_CLASS"} \subseteq DOMAIN StreamsOf["web_site"]
    BY Named, WebSiteBudgets
  <2>3. s \in AllStreams /\ TableOfStream[s] = "web_site"
    BY <1>1, <2>1, <2>2, OwnerIs
  <2> QED  BY <1>1, <2>3 DEF ShuffleStream
<1>2. CASE s \in {"CS_PERMUTE"}
  <2>1. "catalog_sales" \in DOMAIN StreamsOf
    BY Tables
  <2>2. {"CS_PERMUTE"} \subseteq DOMAIN StreamsOf["catalog_sales"]
    BY Named, CatalogSalesBudgets
  <2>3. s \in AllStreams /\ TableOfStream[s] = "catalog_sales"
    BY <1>2, <2>1, <2>2, OwnerIs
  <2> QED  BY <1>2, <2>3 DEF ShuffleStream
<1>3. CASE s \in {"SS_PERMUTATION"}
  <2>1. "store_sales" \in DOMAIN StreamsOf
    BY Tables
  <2>2. {"SS_PERMUTATION"} \subseteq DOMAIN StreamsOf["store_sales"]
    BY Named, StoreSalesBudgets
  <2>3. s \in AllStreams /\ TableOfStream[s] = "store_sales"
    BY <1>3, <2>1, <2>2, OwnerIs
  <2> QED  BY <1>3, <2>3 DEF ShuffleStream
<1>4. CASE s \in {"WS_PERMUTATION"}
  <2>1. "web_sales" \in DOMAIN StreamsOf
    BY Tables
  <2>2. {"WS_PERMUTATION"} \subseteq DOMAIN StreamsOf["web_sales"]
    BY Named, WebSalesBudgets
  <2>3. s \in AllStreams /\ TableOfStream[s] = "web_sales"
    BY <1>4, <2>1, <2>2, OwnerIs
  <2> QED  BY <1>4, <2>3 DEF ShuffleStream
<1>5. CASE s \in {"S_CALL_CENTER_ID"}
  <2>1. "s_call_center" \in DOMAIN StreamsOf
    BY Tables
  <2>2. {"S_CALL_CENTER_ID"} \subseteq DOMAIN StreamsOf["s_call_center"]
    BY Named, SCallCenterBudgets
  <2>3. s \in AllStreams /\ TableOfStream[s] = "s_call_center"
    BY <1>5, <2>1, <2>2, OwnerIs
  <2> QED  BY <1>5, <2>3 DEF ShuffleStream
<1>6. CASE s \in {"S_CUST_ID"}
  <2>1. "s_customer" \in DOMAIN StreamsOf
    BY Tables
  <2>2. {"S_CUST_ID"} \subseteq DOMAIN StreamsOf["s_customer"]
    BY Named, SCustomerBudgets
  <2>3. s \in AllStreams /\ TableOfStream[s] = "s_customer"
    BY <1>6, <2>1, <2>2, OwnerIs
  <2> QED  BY <1>6, <2>3 DEF ShuffleStream
<1>7. CASE s \in {"S_ITEM_PERMUTE"}
  <2>1. "s_item" \in DOMAIN StreamsOf
    BY Tables
  <2>2. {"S_ITEM_PERMUTE"} \subseteq DOMAIN StreamsOf["s_item"]
    BY Named, SItemBudgets
  <2>3. s \in AllStreams /\ TableOfStream[s] = "s_item"
    BY <1>7, <2>1, <2>2, OwnerIs
  <2> QED  BY <1>7, <2>3 DEF ShuffleStream
<1>8. CASE s \in {"S_PROMOTION_ID"}
  <2>1. "s_promotion" \in DOMAIN StreamsOf
    BY Tables
  <2>2. {"S_PROMOTION_ID"} \subseteq DOMAIN StreamsOf["s_promotion"]
    BY Named, SPromotionBudgets
  <2>3. s \in AllStreams /\ TableOfStream[s] = "s_promotion"
    BY <1>8, <2>1, <2>2, OwnerIs
  <2> QED  BY <1>8, <2>3 DEF ShuffleStream
<1>9. CASE s \in {"S_STORE_ID"}
  <2>1. "s_store" \in DOMAIN StreamsOf
    BY Tables
  <2>2. {"S_STORE_ID"} \subseteq DOMAIN StreamsOf["s_store"]
    BY Named, SStoreBudgets
  <2>3. s \in AllStreams /\ TableOfStream[s] = "s_store"
    BY <1>9, <2>1, <2>2, OwnerIs
  <2> QED  BY <1>9, <2>3 DEF ShuffleStream
<1>10. CASE s \in {"S_WRHS_ID"}
  <2>1. "s_warehouse" \in DOMAIN StreamsOf
    BY Tables
  <2>2. {"S_WRHS_ID"} \subseteq DOMAIN StreamsOf["s_warehouse"]
    BY Named, SWarehouseBudgets
  <2>3. s \in AllStreams /\ TableOfStream[s] = "s_warehouse"
    BY <1>10, <2>1, <2>2, OwnerIs
  <2> QED  BY <1>10, <2>3 DEF ShuffleStream
<1>11. CASE s \in {"S_WPAG_PERMUTE"}
  <2>1. "s_web_page" \in DOMAIN StreamsOf
    BY Tables
  <2>2. {"S_WPAG_PERMUTE"} \subseteq DOMAIN StreamsOf["s_web_page"]
    BY Named, SWebPageBudgets
  <2>3. s \in AllStreams /\ TableOfStream[s] = "s_web_page"
    BY <1>11, <2>1, <2>2, OwnerIs
  <2> QED  BY <1>11, <2>3 DEF ShuffleStream
<1>12. CASE s \in {"S_CLIN_PERMUTE", "S_CLIN_PROMOTION_ID", "S_CLIN_WAREHOUSE_ID",
                  "S_CLIN_SHIP_DATE", "S_CLIN_IS_RETURNED", "S_CLIN_CATALOG_PAGE_ID",
                  "S_CLIN_PRICING"}
  <2>1. "s_catalog_order_lineitem" \in DOMAIN StreamsOf
    BY Tables
  <2>2. {"S_CLIN_PERMUTE", "S_CLIN_PROMOTION_ID", "S_CLIN_WAREHOUSE_ID",
                  "S_CLIN_SHIP_DATE", "S_CLIN_IS_RETURNED", "S_CLIN_CATALOG_PAGE_ID",
                  "S_CLIN_PRICING"} \subseteq DOMAIN StreamsOf["s_catalog_order_lineitem"]
    BY Named, SCatalogOrderLineitemBudgets
  <2>3. s \in AllStreams /\ TableOfStream[s] = "s_catalog_order_lineitem"
    BY <1>12, <2>1, <2>2, OwnerIs
  <2> QED  BY <1>12, <2>3 DEF ShuffleStream
<1>13. CASE s \in {"S_PLINE_PERMUTE"}
  <2>1. "s_purchase_lineitem" \in DOMAIN StreamsOf
    BY Tables
  <2>2. {"S_PLINE_PERMUTE"} \subseteq DOMAIN StreamsOf["s_purchase_lineitem"]
    BY Named, SPurchaseLineitemBudgets
  <2>3. s \in AllStreams /\ TableOfStream[s] = "s_purchase_lineitem"
    BY <1>13, <2>1, <2>2, OwnerIs
  <2> QED  BY <1>13, <2>3 DEF ShuffleStream
<1>14. CASE s \in {"S_WLIN_PERMUTE"}
  <2>1. "s_web_order_lineitem" \in DOMAIN StreamsOf
    BY Tables
  <2>2. {"S_WLIN_PERMUTE"} \subseteq DOMAIN StreamsOf["s_web_order_lineitem"]
    BY Named, SWebOrderLineitemBudgets
  <2>3. s \in AllStreams /\ TableOfStream[s] = "s_web_order_lineitem"
    BY <1>14, <2>1, <2>2, OwnerIs
  <2> QED  BY <1>14, <2>3 DEF ShuffleStream
<1>15. CASE s \in {"S_WRET_REASON_ID", "S_WRET_RETURN_TIME"}
  <2>1. "s_web_returns" \in DOMAIN StreamsOf
    BY Tables
  <2>2. {"S_WRET_REASON_ID", "S_WRET_RETURN_TIME"} \subseteq DOMAIN StreamsOf["s_web_returns"]
    BY Named, SWebReturnsBudgets
  <2>3. s \in AllStreams /\ TableOfStream[s] = "s_web_returns"
    BY <1>15, <2>1, <2>2, OwnerIs
  <2> QED  BY <1>15, <2>3 DEF ShuffleStream
<1>16. CASE s \in {"S_SRET_RETURN_TIME"}
  <2>1. "s_store_returns" \in DOMAIN StreamsOf
    BY Tables
  <2>2. {"S_SRET_RETURN_TIME"} \subseteq DOMAIN StreamsOf["s_store_returns"]
    BY Named, SStoreReturnsBudgets
  <2>3. s \in AllStreams /\ TableOfStream[s] = "s_store_returns"
    BY <1>16, <2>1, <2>2, OwnerIs
  <2> QED  BY <1>16, <2>3 DEF ShuffleStream
<1> QED  BY <1>1, <1>2, <1>3, <1>4, <1>5, <1>6, <1>7, <1>8, <1>9, <1>10, <1>11, <1>12, <1>13,
            <1>14, <1>15, <1>16 DEF MayOverrun

\* Who has a stream of the table.
LEMMA DrawnFrom ==
  ASSUME NEW t \in Paced, NEW s \in Drawn(t)
  PROVE  /\ s \in AllStreams /\ s \in Reserved(t)
         /\ TableOfStream[s] \in {t} \cup Children(t) \cup WrappedBy(t)
         /\ s \in DOMAIN StreamsOf[TableOfStream[s]]
<1>1. t \in DriverTables /\ Family(t) \cup WrappedBy(t) \subseteq DOMAIN StreamsOf
  BY PacedTables, TablesKnown
<1>2. s \in Touched(t) /\ s \notin Unseen(t)
  BY DEF Drawn
<1>3. s \notin Borrowed(t)
  <2>1. "item" \in {t} \cup WrappedBy(t) => t \in {"item", "s_item"}
    BY WrapsAre DEF WrappedBy
  <2> QED  BY <1>2, <2>1 DEF Borrowed, Unseen
<1>4. PICK u \in Family(t) \cup WrappedBy(t) : s \in DOMAIN StreamsOf[u]
  BY <1>2, <1>3 DEF Touched, OwnStreams
<1>5. TableOfStream[s] = u /\ s \in AllStreams
  BY <1>1, <1>4, PerRowIs
<1> QED  BY <1>2, <1>3, <1>4, <1>5, PacedTables DEF Reserved

\* In the tables had freely nothing that shows is overrun.
LEMMA DrawnFits ==
  ASSUME NEW t \in Paced, NEW s \in Drawn(t)
  PROVE  s \notin MayOverrun
<1> SUFFICES ASSUME s \in MayOverrun PROVE FALSE
  OBVIOUS
<1>1. TableOfStream[s] \in {t, "catalog_returns", "store_returns", "web_returns",
                           "catalog_page", "customer_address", "item", "promotion"}
  BY DrawnFrom, PacedTables
<1>2. t \in DOMAIN ShuffleStream => s # ShuffleStream[t]
  BY DEF Drawn, Unseen
<1> QED  BY <1>1, <1>2, OverrunTables, DriverTablesAre DEF Paced, ShuffleStream

\* What a wrapper that does not end the warehouse row draws from its table.
LEMMA AddressIsDrawn ==
  ASSUME NEW r, NEW o, NEW s \in DOMAIN StreamsOf["customer_address"]
  PROVE  LET b == CustomerAddressRow(r, o) IN
         /\ s \in DOMAIN b.draws /\ b.draws[s] = StreamsOf["customer_address"][s]
         /\ IsRow(b)
<1>1. CustomerAddressRow(r, o).draws
        = NullSet("CA_NULLS") ++ Each(1, {"CA_LOCATION_TYPE"}) ++ MkAddress("CA_ADDRESS")
  BY DEF CustomerAddressRow, Plain, PlainBut
<1> QED  BY <1>1, Named, CustomerAddressBudgets, CustomerAddressShape
         DEF ++, Each, NullSet, MkAddress

\* s_customer draws from the address it wraps and from its own streams.
LEMMA CustomerApart ==
  ASSUME NEW r, NEW o
  PROVE  LET b == CustomerAddressRow(r, o) IN
         \E d : /\ SCustomerRow(r, o) = [Wrapped(b, d) EXCEPT !.fixed = {"birth_country"}]
               /\ Apart(b.draws, d)
<1> DEFINE b == CustomerAddressRow(r, o)
           d == Shuffle("S_CUST_ID", o) ++ Each(1, {"S_CUST_GENDER",
                  "S_CUST_FIRST_NAME", "S_CUST_SALUTATION",
                  "S_CUST_LAST_NAME", "S_CUST_PREFERRED_FLAG",
                  "S_CUST_BIRTH_DATE", "S_CUST_FIRST_PURCHASE_DATE",
                  "S_CUST_FIRST_SHIPTO_DATE", "S_CUST_LAST_LOGIN",
                  "S_CUST_LAST_REVIEW", "S_CUST_LOCATION_TYPE",
                  "S_CUST_VEHICLE_CNT", "S_CUST_INCOME",
                  "S_CUST_PURCHASE_ESTIMATE"}) ++ Each(14,
                  {"S_CUST_LOGIN"}) ++ Each(23, {"S_CUST_EMAIL"}) ++ Each(4,
                  {"S_CUST_PRIMARY_MACHINE", "S_CUST_SECONDARY_MACHINE"})
<1>1. Apart(b.draws, d)
  <2>1. DOMAIN b.draws \subseteq DOMAIN CustomerAddressStreams
    BY CustomerAddressDraws DEF AtMost
  <2> QED  BY <2>1, CustomerAddressBudgets DEF Apart, Each, ++, Shuffle, NoDraws
<1>2. SCustomerRow(r, o) = [Wrapped(b, d) EXCEPT !.fixed = {"birth_country"}]
  BY DEF SCustomerRow
<1> HIDE DEF d
<1> QED  BY <1>1, <1>2

\* A stream that shows and that no row_stop tops up is used up by every row: an
\* address in a wrapper that leaves it.
LEMMA UnstoppedDrawn ==
  ASSUME NEW t \in Paced, NEW s \in Drawn(t), s \notin Stopped(t), NEW r, NEW o
  PROVE  Taken(Row(t, r, o), s) = PerRow[s]
<1> DEFINE u == TableOfStream[s]
<1>1. /\ u \in {t} \cup Children(t) \cup WrappedBy(t) /\ s \in DOMAIN StreamsOf[u]
      /\ t \in DriverTables /\ Family(t) = {t} \cup Children(t)
      /\ u \in DOMAIN StreamsOf /\ PerRow[s] = StreamsOf[u][s]
  <2>1. /\ u \in {t} \cup Children(t) \cup WrappedBy(t) /\ s \in DOMAIN StreamsOf[u]
        /\ t \in DriverTables /\ Family(t) = {t} \cup Children(t)
    BY DrawnFrom, PacedTables
  <2>2. u \in DOMAIN StreamsOf
    BY <2>1, TablesKnown
  <2>3. PerRow[s] = StreamsOf[u][s]
    BY <2>1, <2>2, PerRowIs
  <2> QED  BY <2>1, <2>2, <2>3
<1> HIDE DEF u
<1>2. u \notin Family(t)
  BY <1>1 DEF OwnStreams, Stopped
<1>3. t \in DOMAIN Wraps /\ u = Wraps[t]
  BY <1>1, <1>2 DEF WrappedBy
<1>4. t \notin StopsWrapped
  <2>1. s \in OwnStreams(Wraps[t])
    BY <1>1, <1>3, FamilyOf DEF OwnStreams
  <2> QED  BY <2>1 DEF Stopped
<1>5. t \in {"s_customer", "s_customer_address"} /\ u = "customer_address"
  BY <1>3, <1>4, WrapsAre DEF StopsWrapped, Paced
<1> DEFINE b == CustomerAddressRow(r, o)
<1>6. s \in DOMAIN b.draws /\ b.draws[s] = PerRow[s] /\ IsRow(b)
  BY <1>1, <1>5, AddressIsDrawn
<1>7. CASE t = "s_customer_address"
  <2>1. Row(t, r, o) = b
    BY <1>7, RefreshRowsNamed DEF SCustomerAddressRow
  <2> QED  BY <1>6, <2>1 DEF Taken
<1>8. CASE t = "s_customer"
  <2>1. PICK d : SCustomerRow(r, o) = [Wrapped(b, d) EXCEPT !.fixed = {"birth_country"}]
               /\ Apart(b.draws, d)
    BY CustomerApart
  <2> HIDE DEF b
  <2>2. IsRow(Wrapped(b, d)) /\ Wrapped(b, d).draws = Plus(b.draws, d)
    BY <1>6, WrappedShape
  <2>3. SCustomerRow(r, o).draws = Plus(b.draws, d)
    BY <2>1, <2>2 DEF IsRow
  <2>4. Plus(b.draws, d)[s] = b.draws[s] /\ s \in DOMAIN Plus(b.draws, d)
    <3>1. s \in DOMAIN b.draws /\ s \notin DOMAIN d /\ b.draws[s] \in Nat
      BY <1>6, <2>1, <1>1, BudgetsAreNumbers DEF Apart
    <3> QED  BY <3>1 DEF Plus
  <2>5. Row(t, r, o) = SCustomerRow(r, o)
    BY <1>8, RefreshRowsNamed
  <2> QED  BY <1>6, <2>3, <2>4, <2>5 DEF Taken
<1> QED  BY <1>5, <1>7, <1>8

\* Where the streams that show are when row r is begun, and what has been built.
InPace(S, t, g, r) ==
  /\ \A s \in Drawn(t) : g.pos[s] = (r - 1) * PerRow[s]
  /\ \A s \in Stopped(t) : g.used[s] = 0

\* Every row of gen_tbl takes them one budget further.
LEMMA PaceKept ==
  ASSUME NEW t \in TablesBuilt, t \in Paced, NEW S, Serves(S, t), NEW g \in Memory(S, t),
         NEW r \in 1..MaxRow, NEW luck \in Seeds, InPace(S, t, g, r)
  PROVE  InPace(S, t, BuildAndStop(g, t, r, luck), r + 1)
<1> DEFINE e == BuildAndStop(g, t, r, luck)
           b == RowBuilt(g, t, r, luck)
<1>1. Leaves(S, t, g, Build(g, t, r, luck), b, e)
  BY StepIs
<1>2. t \in DriverTables /\ Touched(t) \subseteq S /\ S \subseteq AllStreams
  BY DEF Serves
<1> HIDE DEF e
<1>3. ASSUME NEW s \in Drawn(t)
      PROVE  e.pos[s] = (r + 1 - 1) * PerRow[s]
  <2>1. s \in S /\ PerRow[s] \in Nat /\ r \in Nat
    BY <1>2, PerRowNumbers, MaxRowAssumption DEF Drawn
  <2>2. e.pos[s] = g.pos[s] + PerRow[s]
    <3>1. CASE s \in Stopped(t)
      BY <1>1, <3>1, DrawnFits DEF Leaves, InPace
    <3>2. CASE s \notin Stopped(t)
      <4>1. Taken(b, s) = PerRow[s]
        BY <3>2, UnstoppedDrawn DEF RowBuilt
      <4> QED  BY <1>1, <2>1, <3>2, <4>1 DEF Leaves
    <3> QED  BY <3>1, <3>2
  <2>3. g.pos[s] = (r - 1) * PerRow[s]
    BY DEF InPace
  <2> DEFINE n == PerRow[s]
  <2>4. (r - 1) * n + n = (r + 1 - 1) * n
    <3>1. n \in Nat
      BY <2>1
    <3> HIDE DEF n
    <3> QED  BY <2>1, <3>1
  <2> QED  BY <2>2, <2>3, <2>4
<1>4. \A s \in Stopped(t) : e.used[s] = 0
  BY <1>1 DEF Leaves
<1> QED  BY <1>3, <1>4 DEF InPace, e

\* The streams of the tables U, and the copied ones, are where n rows leave them.
Reaches(S, e, U, n) ==
  \A s \in S : s \in DuplicateStreams \/ TableOfStream[s] \in U => e.pos[s] = n * PerRow[s]

\* row_skip brings the streams of a table to row n.
LEMMA SkipReaches ==
  ASSUME NEW S, S \subseteq AllStreams, NEW t, NEW g \in Memory(S, t), NEW u, NEW n \in Nat
  PROVE  Reaches(S, RowSkip(g, u, n), {u}, n)
<1>1. SkippedTo(S, t, g, u, n, RowSkip(g, u, n))
  BY RowSkipKeeps
<1> QED  BY <1>1 DEF SkippedTo, Reaches

\* Two calls do so for two tables.
LEMMA SkipsReach ==
  ASSUME NEW S, S \subseteq AllStreams, NEW t, NEW g \in Memory(S, t), NEW u, NEW v,
         NEW n \in Nat
  PROVE  Reaches(S, RowSkip(RowSkip(g, u, n), v, n), {u, v}, n)
<1> DEFINE e == RowSkip(g, u, n)
           f == RowSkip(e, v, n)
<1>1. SkippedTo(S, t, g, u, n, e)
  BY RowSkipKeeps
<1>2. e \in Memory(S, t)
  BY <1>1 DEF SkippedTo
<1>3. SkippedTo(S, t, e, v, n, f)
  BY <1>2, RowSkipKeeps
<1> HIDE DEF e, f
<1>4. Reaches(S, f, {u, v}, n)
  BY <1>1, <1>3 DEF SkippedTo, Reaches
<1> QED  BY <1>4 DEF e, f

\* The streams that show, of the tables U a process moves.
Covers(t, U) == \A s \in Drawn(t) : s \in DuplicateStreams \/ TableOfStream[s] \in U

\* The streams that show are among them.
LEMMA CoversReaches ==
  ASSUME NEW t, NEW U, Covers(t, U), NEW S, Drawn(t) \subseteq S, NEW e,
         NEW n, Reaches(S, e, U, n)
  PROVE  \A s \in Drawn(t) : e.pos[s] = n * PerRow[s]
  BY DEF Covers, Reaches

\* Which tables have to be moved for each: in some cases the wrapped one is
\* enough.
LEMMA CoversFamily ==
  ASSUME NEW t \in Paced
  PROVE  /\ Covers(t, {t} \cup Children(t) \cup WrappedBy(t))
         /\ t \in DOMAIN Wraps => Covers(t, {t, Wraps[t]}) /\ Children(t) = {}
         /\ t \notin DOMAIN Wraps => Covers(t, {t} \cup Children(t))
         /\ t = "s_customer" => Covers(t, {t})
         /\ t \in {"s_customer_address", "s_catalog_page"} => Covers(t, {Wraps[t]})
         /\ t = "s_promotion" => Covers(t, {"promotion"})
         /\ t \in {"date_dim", "s_zip_to_gmt"} => Drawn(t) = {}
<1>1. Covers(t, {t} \cup Children(t) \cup WrappedBy(t))
  BY DrawnFrom DEF Covers
<1>2. t \in DOMAIN Wraps => WrappedBy(t) = {Wraps[t]} /\ Children(t) = {}
  BY PacedTables DEF WrappedBy
<1>3. t \notin DOMAIN Wraps => WrappedBy(t) = {}
  BY DEF WrappedBy
<1>4. \A s \in Drawn(t) : s \in DOMAIN StreamsOf[TableOfStream[s]]
  BY DrawnFrom
<1>5. ASSUME t = "s_customer" PROVE Covers(t, {t})
  <2>1. ASSUME NEW s \in Drawn(t), TableOfStream[s] = "customer_address"
        PROVE  s \in DuplicateStreams
    <3>1. s \in {"CA_LOCATION_TYPE", "CA_NULLS", "CA_ADDRESS"}
      BY <1>4, <2>1, Named, CustomerAddressBudgets
    <3> QED  BY <1>5, <3>1 DEF Drawn, Unseen, DuplicateStreams
  <2>2. \A s \in Drawn(t) : TableOfStream[s] \in {t, "customer_address"}
    BY <1>2, <1>5, DrawnFrom, WrapsAre
  <2> QED  BY <2>1, <2>2 DEF Covers
<1>6. ASSUME t \in {"s_customer_address", "s_catalog_page"} PROVE Covers(t, {Wraps[t]})
  <2>1. StreamsOf[t] = NoDraws /\ t \in DOMAIN Wraps
    BY <1>6, Named, WrapsAre
  <2>2. \A s \in Drawn(t) : TableOfStream[s] # t
    BY <1>4, <2>1 DEF NoDraws
  <2> QED  BY <1>2, <2>1, <2>2, DrawnFrom DEF Covers
<1>7. ASSUME t = "s_promotion" PROVE Covers(t, {"promotion"})
  <2>1. StreamsOf[t] = SPromotionStreams /\ t \in DOMAIN Wraps /\ Wraps[t] = "promotion"
    BY <1>7, Named, WrapsAre
  <2>2. \A s \in Drawn(t) : TableOfStream[s] = t => s = "S_PROMOTION_ID"
    BY <1>4, <2>1, SPromotionBudgets
  <2>3. "S_PROMOTION_ID" \notin Drawn(t)
    BY <1>7 DEF Drawn, Unseen, ShuffleStream
  <2> QED  BY <1>2, <2>1, <2>2, <2>3, DrawnFrom DEF Covers
<1>8. ASSUME t \in {"date_dim", "s_zip_to_gmt"} PROVE Drawn(t) = {}
  <2>1. Children(t) = {} /\ WrappedBy(t) = {}
    BY <1>8, PacedTables, WrapsAre DEF ChildOf, WrappedBy
  <2>2. \A s \in Drawn(t) : s \in DOMAIN StreamsOf[t]
    BY <1>4, <2>1, DrawnFrom
  <2>3. \A s \in DOMAIN StreamsOf[t] : t = "date_dim" /\ s = "D_NULLS"
    BY <1>8, Named, DateBudgets DEF NoDraws
  <2> QED  BY <2>2, <2>3 DEF Drawn, Unseen
<1>9. t \in DOMAIN Wraps => Covers(t, {t, Wraps[t]})
  BY <1>1, <1>2 DEF Covers
<1> QED  BY <1>1, <1>2, <1>3, <1>5, <1>6, <1>7, <1>8, <1>9

\* A chunk begins where its first row is.
LEMMA PositionedReaches ==
  ASSUME NEW t \in Paced, t \in Splittable, NEW S, Serves(S, t), NEW u,
         NEW g \in Memory(S, u),
         NEW r \in 2..MaxRow
  PROVE  /\ \A s \in Drawn(t) : Positioned(g, t, r).pos[s] = (r - 1) * PerRow[s]
         /\ \A s \in OwnStreams(t) : Positioned(g, t, r).pos[s] = (r - 1) * PerRow[s]
<1> DEFINE e == Positioned(g, t, r)
           n == r - 1
<1>1. n \in Nat /\ r # 1 /\ S \subseteq AllStreams /\ Touched(t) \subseteq S
  BY MaxRowAssumption DEF Serves
<1>2. Reaches(S, e, {t} \cup Children(t), n)
  <2>1. CASE Children(t) = {}
    <3>1. e = RowSkip(g, t, n)
      BY <1>1, <2>1 DEF Positioned
    <3> QED  BY <1>1, <2>1, <3>1, SkipReaches
  <2>2. CASE Children(t) # {}
    <3>1. PICK c : Children(t) = {c} 
      BY <2>2, PacedTables
    <3>2. (CHOOSE d \in Children(t) : TRUE) = c
      BY <3>1
    <3>3. e = RowSkip(RowSkip(g, t, n), c, n)
      BY <1>1, <2>2, <3>2 DEF Positioned
    <3> QED  BY <1>1, <3>1, <3>3, SkipsReach
  <2> QED  BY <2>1, <2>2
<1>3. Covers(t, {t} \cup Children(t))
  <2>1. t \in DOMAIN Wraps => t = "s_customer"
    BY WrapsAre DEF Splittable
  <2> QED  BY <2>1, CoversFamily DEF Covers
<1> HIDE DEF e, n
<1>4. \A s \in Drawn(t) : e.pos[s] = n * PerRow[s]
  BY <1>1, <1>2, <1>3, CoversReaches DEF Drawn
<1>5. ASSUME NEW s \in OwnStreams(t) PROVE e.pos[s] = n * PerRow[s]
  <2>1. PICK v \in {t} \cup Children(t) : s \in DOMAIN StreamsOf[v]
    BY PacedTables DEF OwnStreams
  <2>2. v \in DOMAIN StreamsOf
    BY PacedTables, TablesKnown
  <2>3. TableOfStream[s] = v
    BY <2>1, <2>2, PerRowIs
  <2>4. s \in S
    BY <1>1 DEF Touched
  <2> QED  BY <1>2, <2>1, <2>3, <2>4 DEF Reaches
<1> QED  BY <1>4, <1>5 DEF e, n

\* So does a row that is shown.
LEMMA ScdBegunReaches ==
  ASSUME NEW t \in Paced, t \in ScdValidated, NEW S, Serves(S, t), NEW g \in Memory(S, t),
         NEW k \in 1..MaxRow
  PROVE  \A s \in Drawn(t) : ScdBegun(g, t, k).pos[s] = (k - 1) * PerRow[s]
<1>1. k - 1 \in Nat /\ S \subseteq AllStreams /\ Drawn(t) \subseteq S
  BY MaxRowAssumption DEF Serves, Drawn
<1>2. Reaches(S, ScdBegun(g, t, k), {t, ScdTable(t)}, k - 1)
  BY <1>1, SkipsReach DEF ScdBegun
<1>3. Covers(t, {t, ScdTable(t)})
  <2>1. CASE t \in DOMAIN Wraps
    BY <2>1, CoversFamily DEF ScdTable
  <2>2. CASE t \notin DOMAIN Wraps
    <3>1. t \notin DOMAIN ChildOf
      BY DEF ScdValidated, ChildOf
    <3> QED  BY <2>2, <3>1, CoversFamily, PacedTables DEF ScdTable, Covers
  <2> QED  BY <2>1, <2>2
<1> QED  BY <1>1, <1>2, <1>3 DEF Covers, Reaches

\* So does what the other vld functions skip.
LEMMA ValidationPositionReaches ==
  ASSUME NEW t \in Paced, t \notin ScdValidated, NEW S, Serves(S, t), NEW g \in Memory(S, t),
         NEW k \in 1..MaxRow
  PROVE  \A s \in Drawn(t) : ValidationPosition(g, t, k).pos[s] = (k - 1) * PerRow[s]
<1> DEFINE e == ValidationPosition(g, t, k)
           n == k - 1
<1>1. n \in Nat /\ S \subseteq AllStreams /\ Drawn(t) \subseteq S
  BY MaxRowAssumption DEF Serves, Drawn
<1>2. t \notin DOMAIN RefreshChildOf
  BY DriverTablesAre DEF Paced, RefreshChildOf
<1>3. CASE t \in {"date_dim", "s_zip_to_gmt"}
  BY <1>3, CoversFamily
<1>4. CASE t \in DOMAIN ChildOf
  <2>1. e = RowSkip(RowSkip(g, t, n), ChildOf[t], n)
    <3>1. t \notin {"date_dim", "s_zip_to_gmt", "s_promotion"}
      BY <1>4 DEF ChildOf
    <3>2. e = SalesPosition(g, t, k)
      BY <1>2, <1>4, <3>1 DEF ValidationPosition
    <3> QED  BY <3>2 DEF SalesPosition
  <2>2. t \notin DOMAIN Wraps /\ Children(t) = {ChildOf[t]}
    BY <1>4, PacedTables, WrapsAre DEF ChildOf
  <2>3. Reaches(S, e, {t, ChildOf[t]}, n)
    BY <1>1, <2>1, SkipsReach
  <2>4. Covers(t, {t, ChildOf[t]})
    <3>1. {t} \cup Children(t) = {t, ChildOf[t]}
      BY <2>2
    <3> QED  BY <2>2, <3>1, CoversFamily
  <2> HIDE DEF e, n
  <2>5. \A s \in Drawn(t) : e.pos[s] = n * PerRow[s]
    BY <1>1, <2>3, <2>4 DEF Covers, Reaches
  <2> QED  BY <2>5 DEF e, n
<1>5. CASE t = "s_promotion"
  <2>1. e = RowSkip(g, "promotion", n)
    BY <1>5 DEF ValidationPosition, ChildOf, RefreshChildOf
  <2>2. Reaches(S, e, {"promotion"}, n)
    BY <1>1, <2>1, SkipReaches
  <2>3. Covers(t, {"promotion"})
    BY <1>5, CoversFamily
  <2> HIDE DEF e, n
  <2>4. \A s \in Drawn(t) : e.pos[s] = n * PerRow[s]
    BY <1>1, <2>2, <2>3 DEF Covers, Reaches
  <2> QED  BY <2>4 DEF e, n
<1>6. CASE t \notin DOMAIN ChildOf \cup {"date_dim", "s_zip_to_gmt", "s_promotion"}
  <2> DEFINE u == IF t \in {"s_customer_address", "s_catalog_page"} THEN Wraps[t] ELSE t
  <2>1. Children(u) = {}
    BY <1>6, PacedTables, WrapsAre, TablesKnown
  <2>2. e = RowSkip(g, u, n)
    BY <1>2, <1>6, <2>1 DEF ValidationPosition, GenericPosition
  <2>3. Reaches(S, e, {u}, n)
    BY <1>1, <2>2, SkipReaches
  <2>4. Covers(t, {u})
    <3>1. CASE t \in {"s_customer_address", "s_catalog_page", "s_customer"}
      BY <3>1, CoversFamily
    <3>2. CASE t \notin {"s_customer_address", "s_catalog_page", "s_customer"}
      <4>1. t \notin DOMAIN Wraps
        BY <1>6, <3>2, WrapsAre DEF ScdValidated, Paced
      <4>2. u = t /\ Children(t) = {}
        BY <1>6, <3>2, PacedTables
      <4> QED  BY <4>1, <4>2, CoversFamily DEF Covers
    <3> QED  BY <3>1, <3>2
  <2> HIDE DEF e, n, u
  <2>5. \A s \in Drawn(t) : e.pos[s] = n * PerRow[s]
    BY <1>1, <2>3, <2>4 DEF Covers, Reaches
  <2> QED  BY <2>5 DEF e, n
<1> QED  BY <1>3, <1>4, <1>5, <1>6

-----------------------------------------------------------------------------
(***************************************************************************)
(* Permutations.                                                           *)
(***************************************************************************)

\* Where the reference draws the permutation, if it does.
WantShuffled(t) == IF t \in DOMAIN ShuffleStream THEN 0 ELSE -1

\* The permutation is drawn from the beginning of its stream.
ShuffleReady(g, t) ==
  IF g.started THEN g.shuffled = WantShuffled(t)
  ELSE g.shuffled = -1 /\ (t \in DOMAIN ShuffleStream => g.pos[ShuffleStream[t]] = 0)

\* A builder that finds its permutation undrawn draws it there.
LEMMA BuildReady ==
  ASSUME NEW S, NEW t, NEW g \in Memory(S, t), NEW r, NEW luck, ShuffleReady(g, t)
  PROVE  /\ Build(g, t, r, luck).started = TRUE
         /\ Build(g, t, r, luck).shuffled = WantShuffled(t)
         /\ ShuffleReady(Build(g, t, r, luck), t)
<1> DEFINE h == Build(g, t, r, luck)
<1>1. BuiltFrom(S, t, g, r, ChoicesOf(g, t, r, luck), RowBuilt(g, t, r, luck), h)
  BY BuildIs
<1> HIDE DEF h
<1>2. /\ h.started = TRUE
      /\ h.shuffled = IF ~g.started /\ t \in DOMAIN ShuffleStream
                        THEN g.pos[ShuffleStream[t]] ELSE g.shuffled
  BY <1>1 DEF BuiltFrom
<1>3. h.started = TRUE /\ h.shuffled = WantShuffled(t) /\ ShuffleReady(h, t)
  BY <1>2 DEF ShuffleReady, WantShuffled
<1> QED  BY <1>3 DEF h

\* Once drawn it stays.
LEMMA StartedReady ==
  ASSUME NEW h, NEW e, NEW t, OnlyStreams(h, e), h.started = TRUE, ShuffleReady(h, t)
  PROVE  ShuffleReady(e, t)
  BY DEF OnlyStreams, ShuffleReady

\* Skipping rows does not move the stream it is drawn from, but for that of
\* s_promotion, which is not skipped.
LEMMA SkipReady ==
  ASSUME NEW t \in Paced, NEW S, Serves(S, t), NEW g \in Memory(S, t), ShuffleReady(g, t),
         NEW u, NEW n \in Nat, t = "s_promotion" => u = "promotion"
  PROVE  RowSkip(g, u, n) \in Memory(S, t) /\ ShuffleReady(RowSkip(g, u, n), t)
<1> DEFINE e == RowSkip(g, u, n)
<1>1. SkippedTo(S, t, g, u, n, e)
  BY RowSkipKeeps DEF Serves
<1> HIDE DEF e
<1>2. ASSUME t \in DOMAIN ShuffleStream, g.pos[ShuffleStream[t]] = 0
      PROVE  e.pos[ShuffleStream[t]] = 0
  <2> DEFINE s == ShuffleStream[t]
  <2>1. t \in DriverTables /\ s \in S
    BY <1>2, ShuffleStreamKnown DEF Serves
  <2>2. CASE t = "s_promotion"
    <3>1. s = "S_PROMOTION_ID" /\ s \notin DuplicateStreams
      BY <2>2 DEF ShuffleStream, DuplicateStreams
    <3>2. TableOfStream[s] = "s_promotion"
      BY <3>1, Named, SPromotionBudgets, Tables, PerRowIs
    <3> QED  BY <1>1, <1>2, <2>1, <2>2, <3>1, <3>2 DEF SkippedTo
  <2>3. CASE t # "s_promotion"
    <3>1. PerRow[s] = 0
      BY <1>2, <2>1, <2>3, ShuffleStreamKnown DEF Paced
    <3>2. e.pos[s] = n * PerRow[s] \/ e.pos[s] = g.pos[s]
      BY <1>1, <2>1 DEF SkippedTo
    <3> QED  BY <1>2, <3>1, <3>2
  <2> QED  BY <2>2, <2>3
<1>3. e.started = g.started /\ e.shuffled = g.shuffled /\ e \in Memory(S, t)
  BY <1>1 DEF SkippedTo, OnlyStreams
<1>4. ShuffleReady(e, t)
  BY <1>2, <1>3 DEF ShuffleReady
<1> QED  BY <1>3, <1>4 DEF e

\* vld_s_item and vld_s_web_page draw it there themselves.
LEMMA PreparedReady ==
  ASSUME NEW t \in Paced, NEW S, Serves(S, t), NEW g \in Memory(S, t), ShuffleReady(g, t)
  PROVE  ShuffleReady(Prepared(g, t), t)
<1> DEFINE p == Prepared(g, t)
           first == t \in {"s_item", "s_web_page"} /\ ~g.started
<1> SUFFICES ShuffleReady(p, t)
  OBVIOUS
<1>1. /\ p.started = (g.started \/ first)
      /\ p.shuffled = IF first THEN g.pos[ShuffleStream[t]] ELSE g.shuffled
  BY DEF Prepared
<1>2. CASE first
  <2>1. t \in DOMAIN ShuffleStream
    BY <1>2 DEF ShuffleStream
  <2> QED  BY <1>1, <1>2, <2>1 DEF ShuffleReady, WantShuffled
<1>3. CASE ~first
  <2>1. \A s \in S : p.pos[s] = g.pos[s]
    BY <1>3 DEF Prepared, Memory
  <2>2. t \in DOMAIN ShuffleStream => ShuffleStream[t] \in S
    BY ShuffleStreamKnown DEF Serves
  <2>3. g.started \in BOOLEAN
    BY DEF Memory
  <2>4. p.started = g.started /\ p.shuffled = g.shuffled
    BY <1>1, <1>3, <2>3
  <2> HIDE DEF p, first
  <2> QED  BY <2>1, <2>2, <2>4 DEF ShuffleReady
<1> QED  BY <1>2, <1>3

\* Each version of validateSCD has it from there.
LEMMA ScdReady ==
  ASSUME NEW t \in TablesBuilt, t \in Paced, t \in ScdValidated, NEW S, Serves(S, t), NEW g,
         NEW k \in 1..MaxRow, NEW f, ScdStates(S, g, t, k, f), ShuffleReady(g, t)
  PROVE  \A j \in 0..k : ShuffleReady(f[j], t)
<1>1. k \in Nat /\ 1..k \subseteq 1..MaxRow /\ t # "s_promotion"
  BY MaxRowAssumption DEF ScdValidated
<1> DEFINE G == {n \in Nat : n \in 0..k => ShuffleReady(f[n], t)}
<1>2. 0 \in G
  BY DEF ScdStates
<1>3. ASSUME NEW n \in G PROVE n + 1 \in G
  <2> SUFFICES ASSUME n + 1 \in 0..k PROVE ShuffleReady(f[n + 1], t)
    OBVIOUS
  <2>1. n \in 0..k /\ n + 1 \in 1..k /\ n + 1 - 1 = n /\ n \in Nat
    BY <1>1
  <2>2. ShuffleReady(f[n], t) /\ f[n] \in Memory(S, t)
    BY <2>1 DEF ScdStates
  <2>3. f[n + 1] = IF n + 1 \in ScdHistory(t, k)
                     THEN Build(ScdBegun(f[n], t, n + 1), t, n + 1, seed) ELSE g
    BY <2>1 DEF ScdStates
  <2>4. /\ RowSkip(f[n], t, n) \in Memory(S, t)
        /\ ShuffleReady(RowSkip(f[n], t, n), t)
    BY <1>1, <2>1, <2>2, SkipReady
  <2>5. /\ RowSkip(RowSkip(f[n], t, n), ScdTable(t), n) \in Memory(S, t)
        /\ ShuffleReady(RowSkip(RowSkip(f[n], t, n), ScdTable(t), n), t)
    BY <1>1, <2>1, <2>4, SkipReady
  <2> DEFINE e == ScdBegun(f[n], t, n + 1)
  <2>6. e \in Memory(S, t) /\ ShuffleReady(e, t)
    BY <2>1, <2>5 DEF ScdBegun
  <2> HIDE DEF e
  <2>7. ShuffleReady(Build(e, t, n + 1, seed), t)
    BY <2>6, BuildReady
  <2> QED  BY <2>3, <2>7 DEF e
<1> HIDE DEF G
<1>4. G = Nat
  BY <1>2, <1>3, InductionSet DEF G
<1> QED  BY <1>1, <1>4 DEF G

\* So has a row begun by another vld function.
LEMMA ValidationPositionReady ==
  ASSUME NEW t \in Paced, NEW S, Serves(S, t), NEW g \in Memory(S, t), NEW k \in 1..MaxRow,
         ShuffleReady(g, t)
  PROVE  ShuffleReady(ValidationPosition(g, t, k), t)
<1>1. k - 1 \in Nat /\ t \notin DOMAIN RefreshChildOf
  BY MaxRowAssumption, DriverTablesAre DEF Paced, RefreshChildOf
<1>2. CASE t = "s_promotion"
  <2>1. ValidationPosition(g, t, k) = RowSkip(g, "promotion", k - 1)
    BY <1>2 DEF ValidationPosition, ChildOf, RefreshChildOf
  <2> QED  BY <1>1, <2>1, SkipReady
<1>3. CASE t # "s_promotion"
  <2>1. \A u : RowSkip(g, u, k - 1) \in Memory(S, t) /\ ShuffleReady(RowSkip(g, u, k - 1), t)
    BY <1>1, <1>3, SkipReady
  <2>2. \A u, v : ShuffleReady(RowSkip(RowSkip(g, u, k - 1), v, k - 1), t)
    BY <1>1, <1>3, <2>1, SkipReady
  <2>3. ShuffleReady(GenericPosition(g, t, k), t)
    BY <2>1, <2>2 DEF GenericPosition
  <2>4. ShuffleReady(SalesPosition(g, t, k), t)
    BY <2>2 DEF SalesPosition
  <2> QED  BY <1>1, <1>3, <2>3, <2>4 DEF ValidationPosition
<1> QED  BY <1>2, <1>3

\* The permutation of a row that is shown.
LEMMA ValidBuiltReady ==
  ASSUME NEW t \in TablesBuilt, t \in Paced, NEW S, Serves(S, t), NEW g \in Memory(S, t),
         NEW k \in 1..MaxRow, seed \in Seeds, ShuffleReady(g, t)
  PROVE  /\ ValidBuilt(g, t, k).started = TRUE
         /\ ValidBuilt(g, t, k).shuffled = WantShuffled(t)
         /\ ShuffleReady(ValidBuilt(g, t, k), t)
<1>1. CASE t \in ScdValidated
  <2> DEFINE p == Prepared(g, t)
  <2>1. p \in Memory(S, t) /\ ShuffleReady(p, t)
    BY PreparedKeeps, PreparedReady
  <2> HIDE DEF p
  <2>2. PICK f : ScdStates(S, p, t, k, f) /\ ScdBuilt(p, t, k) = f[k]
    BY <2>1, ScdBuiltIs
  <2>3. k \in ScdHistory(t, k) /\ k \in 1..k /\ k - 1 \in 0..k /\ k \in 0..k
    BY MaxRowAssumption DEF ScdHistory
  <2>4. ShuffleReady(f[k], t)
    BY <1>1, <2>1, <2>2, <2>3, ScdReady
  <2>5. f[k - 1] \in Memory(S, t) /\ f[k] = Build(ScdBegun(f[k - 1], t, k), t, k, seed)
    BY <2>2, <2>3 DEF ScdStates
  <2>6. ScdBegun(f[k - 1], t, k) \in Memory(S, t)
    BY <2>5, ScdBegunMoves DEF Serves, Moved
  <2>7. f[k].started = TRUE
    <3> DEFINE e == ScdBegun(f[k - 1], t, k)
    <3>1. BuiltFrom(S, t, e, k, ChoicesOf(e, t, k, seed), RowBuilt(e, t, k, seed), f[k])
      BY <2>5, <2>6, BuildIs
    <3> QED  BY <3>1 DEF BuiltFrom
  <2> QED  BY <1>1, <2>2, <2>4, <2>7 DEF ValidBuilt, p, ShuffleReady
<1>2. CASE t \notin ScdValidated
  <2> DEFINE e == ValidationPosition(g, t, k)
  <2>1. e \in Memory(S, t) /\ ShuffleReady(e, t)
    BY ValidationPositionMoves, ValidationPositionReady DEF Serves, Moved
  <2> HIDE DEF e
  <2>2. /\ Build(e, t, k, seed).started = TRUE
        /\ Build(e, t, k, seed).shuffled = WantShuffled(t)
        /\ ShuffleReady(Build(e, t, k, seed), t)
    BY <2>1, BuildReady
  <2> QED  BY <1>2, <2>2 DEF ValidBuilt, e
<1> QED  BY <1>1, <1>2

-----------------------------------------------------------------------------
(***************************************************************************)
(* Values.                                                                 *)
(***************************************************************************)

\* It is undrawn when a table is begun.
LEMMA FreshReady ==
  ASSUME NEW t \in DriverTables, NEW S, Serves(S, t)
  PROVE  ShuffleReady(FreshMemory(S, t), t)
<1>1. t \in DOMAIN ShuffleStream => ShuffleStream[t] \in S
  BY ShuffleStreamKnown DEF Serves
<1> QED  BY <1>1 DEF ShuffleReady, FreshMemory

\* Row r of the reference is begun with its streams, its permutation, and no
\* value in the columns that are fixed.
SerialInv(t, luck, n) ==
  LET g == SerialStates(t, luck)[n] IN
  /\ FixedUnset(g, t) /\ ShuffleReady(g, t)
  /\ t \in Paced => InPace(Touched(t), t, g, n + 1)

\* Each row of the reference does so.
LEMMA SerialKnown ==
  ASSUME NEW t \in TablesBuilt, t \in DriverTables, NEW luck \in Seeds
  PROVE  \A n \in 0..MaxRow : SerialInv(t, luck, n)
<1> DEFINE st == SerialStates(t, luck)
           T == Touched(t)
<1>1. /\ st[0] = FreshMemory(T, t) /\ \A n \in 0..MaxRow : st[n] \in Memory(T, t)
      /\ \A n \in 1..MaxRow : st[n] = BuildAndStop(st[n - 1], t, n, luck)
  BY SerialStatesAre
<1>2. Serves(T, t) /\ Drawn(t) \subseteq T /\ Stopped(t) \subseteq T
  BY ServesItself, StreamsKnown DEF Drawn
<1> HIDE DEF st
<1> DEFINE I(n) == /\ FixedUnset(st[n], t) /\ ShuffleReady(st[n], t)
                   /\ t \in Paced => InPace(T, t, st[n], n + 1)
           G == {n \in Nat : n \in 0..MaxRow => I(n)}
<1>3. 0 \in G
  <2>1. FixedUnset(st[0], t) /\ ShuffleReady(st[0], t)
    BY <1>1, <1>2, FreshIsFixed, FreshReady
  <2>2. InPace(T, t, st[0], 0 + 1)
    <3>1. \A s \in T : st[0].pos[s] = 0 /\ st[0].used[s] = 0
      BY <1>1 DEF FreshMemory
    <3>2. \A s \in T : PerRow[s] \in Nat
      BY <1>2, PerRowNumbers DEF Serves
    <3>3. \A s \in T : (0 + 1 - 1) * PerRow[s] = 0
      BY <3>2
    <3> QED  BY <1>2, <3>1, <3>3 DEF InPace
  <2> QED  BY <2>1, <2>2
<1>4. ASSUME NEW n \in G PROVE n + 1 \in G
  <2> SUFFICES ASSUME n + 1 \in 0..MaxRow PROVE I(n + 1)
    OBVIOUS
  <2>1. n \in 0..MaxRow /\ n + 1 \in 1..MaxRow /\ n + 1 - 1 = n
    BY MaxRowAssumption
  <2>2. I(n) /\ st[n] \in Memory(T, t) /\ st[n + 1] = BuildAndStop(st[n], t, n + 1, luck)
    BY <1>1, <2>1
  <2> DEFINE h == Build(st[n], t, n + 1, luck)
  <2>3. Leaves(T, t, st[n], h, RowBuilt(st[n], t, n + 1, luck), st[n + 1])
    BY <1>2, <2>1, <2>2, StepIs
  <2>4. FixedUnset(h, t) /\ ShuffleReady(h, t) /\ h.started = TRUE
    BY <2>2, BuildFixed, BuildReady
  <2>5. OnlyStreams(h, st[n + 1])
    BY <2>3 DEF Leaves
  <2> HIDE DEF h
  <2>6. FixedUnset(st[n + 1], t) /\ ShuffleReady(st[n + 1], t)
    BY <2>4, <2>5, OnlyStreamsFixed, StartedReady
  <2>7. t \in Paced => InPace(T, t, st[n + 1], n + 1 + 1)
    BY <1>2, <2>1, <2>2, PaceKept
  <2> QED  BY <2>6, <2>7
<1> HIDE DEF G
<1>5. G = Nat
  BY <1>3, <1>4, InductionSet DEF G
<1>6. \A n \in 0..MaxRow : I(n)
  BY <1>5, MaxRowAssumption DEF G
<1> QED  BY <1>6 DEF SerialInv, st

\* The values of a row that keeps none.
LEMMA PlainValues ==
  ASSUME NEW t \in TablesBuilt, t \in DriverTables, t \notin Versioned, NEW S, Serves(S, t),
         NEW g \in Memory(S, t), NEW r \in 1..MaxRow, NEW luck \in Seeds, FixedUnset(g, t)
  PROVE  Build(g, t, r, luck).cur
           = [c \in PrintedColumns(t) |-> IF c \in Pattern(t).fixed THEN 0 ELSE r]
<1> DEFINE b == RowBuilt(g, t, r, luck)
           o == ChoicesOf(g, t, r, luck)
           h == Build(g, t, r, luck)
<1>1. BuiltFrom(S, t, g, r, o, b, h) /\ h \in Memory(S, t)
  BY BuildIs, BuildKeeps
<1>2. SameShape(b, Pattern(t)) /\ IsPlain(Pattern(t))
  BY PatternIs DEF RowBuilt
<1> HIDE DEF b, o, h
<1>3. b.changes = <<>> /\ b.once = {} /\ b.fixed = Pattern(t).fixed
  BY <1>2 DEF SameShape, IsPlain
<1>4. ASSUME NEW c \in PrintedColumns(t)
      PROVE  h.cur[c] = IF c \in Pattern(t).fixed THEN 0 ELSE r
  <2>1. ~Kept(b, c)
    BY <1>3 DEF Kept
  <2>2. ~Retained(b, o, KeyOf(t, r, o), c)
    BY <2>1, RetainedIs
  <2>3. h.cur[c] = NewValue(g, b, KeyOf(t, r, o), r, c)
    BY <1>1, <2>2 DEF BuiltFrom
  <2>4. c \in Pattern(t).fixed => g.cur[c] = 0
    BY DEF FixedUnset
  <2> QED  BY <1>3, <2>3, <2>4 DEF NewValue
<1>5. DOMAIN h.cur = PrintedColumns(t)
  BY <1>1 DEF Memory
<1>6. h.cur = [c \in PrintedColumns(t) |-> IF c \in Pattern(t).fixed THEN 0 ELSE r]
  <2>1. h.cur = [c \in DOMAIN h.cur |-> h.cur[c]]
    BY <1>1 DEF Memory
  <2> QED  BY <1>4, <1>5, <2>1
<1> QED  BY <1>6 DEF h

\* The histories of a key that g and e have are the same.
Agree(g, e, t) ==
  \A c \in PrintedColumns(t) :
    /\ Kept(Pattern(t), c) => g.old[c] = e.old[c]
    /\ c \in Pattern(t).once /\ ~Pattern(t).fresh => g.cur[c] = e.cur[c]

\* The key that row r is a version of.
KeyBuilt(t, r, luck) == KeyOf(t, r, Outcome(luck, t, r))

\* Two builders with the same history of a key, or at its first version,
\* compute the same columns and leave the same history.
LEMMA VersionValues ==
  ASSUME NEW t \in TablesBuilt, t \in DriverTables, NEW S, Serves(S, t),
         NEW g \in Memory(S, t),
         NEW R, Serves(R, t), NEW e \in Memory(R, t),
         NEW r \in 1..MaxRow, NEW luck \in Seeds, FixedUnset(g, t), FixedUnset(e, t),
         FirstOfKey(KeyBuilt(t, r, luck)) \/ Agree(g, e, t)
  PROVE  /\ Build(g, t, r, luck).cur = Build(e, t, r, luck).cur
         /\ Agree(Build(g, t, r, luck), Build(e, t, r, luck), t)
<1> DEFINE b == RowBuilt(g, t, r, luck)
           o == ChoicesOf(g, t, r, luck)
           h == Build(g, t, r, luck)
           d == RowBuilt(e, t, r, luck)
           q == ChoicesOf(e, t, r, luck)
           f == Build(e, t, r, luck)
           k == KeyBuilt(t, r, luck)
<1>1. BuiltFrom(S, t, g, r, o, b, h) /\ h \in Memory(S, t)
  BY BuildIs, BuildKeeps
<1>2. BuiltFrom(R, t, e, r, q, d, f) /\ f \in Memory(R, t)
  BY BuildIs, BuildKeeps
<1>3. SameShape(b, Pattern(t)) /\ SameShape(d, Pattern(t))
  BY PatternIs DEF RowBuilt
<1>4. o.flags = q.flags /\ KeyOf(t, r, o) = k /\ KeyOf(t, r, q) = k
  <2>1. /\ o.flags = Outcome(luck, t, r).flags /\ o.sk = Outcome(luck, t, r).sk
        /\ q.flags = Outcome(luck, t, r).flags /\ q.sk = Outcome(luck, t, r).sk
    BY ChoicesFit
  <2> HIDE DEF o, q
  <2> QED  BY <2>1 DEF KeyOf, KeyBuilt
<1> HIDE DEF b, o, h, d, q, f, k
<1>5. /\ b.changes = d.changes /\ b.changes = Pattern(t).changes
      /\ b.once = Pattern(t).once /\ d.once = Pattern(t).once
      /\ b.fixed = Pattern(t).fixed /\ d.fixed = Pattern(t).fixed
      /\ b.fresh = Pattern(t).fresh /\ d.fresh = Pattern(t).fresh
  BY <1>3 DEF SameShape
<1>6. ASSUME NEW c \in PrintedColumns(t)
      PROVE  h.cur[c] = f.cur[c] /\ (Kept(Pattern(t), c) => h.old[c] = f.old[c])
  <2>1. Retained(b, o, k, c) <=> Retained(d, q, k, c)
    BY <1>4, <1>5, Zenon DEF Retained
  <2>2. (Kept(b, c) <=> Kept(Pattern(t), c)) /\ (Kept(d, c) <=> Kept(Pattern(t), c))
    BY <1>3, KeptIs
  <2>3. /\ Retained(b, o, k, c) => Kept(b, c) /\ ~FirstOfKey(k)
        /\ Remembered(b, o, k, c) <=> Kept(b, c) /\ ~Retained(b, o, k, c)
        /\ Remembered(d, q, k, c) <=> Kept(d, c) /\ ~Retained(d, q, k, c)
    BY RetainedIs
  <2>4. NewValue(g, b, k, r, c) = NewValue(e, d, k, r, c)
    <3>1. CASE c \in Pattern(t).fixed
      <4>1. g.cur[c] = 0 /\ e.cur[c] = 0
        BY <3>1 DEF FixedUnset
      <4> QED  BY <1>5, <3>1, <4>1 DEF NewValue
    <3>2. CASE c \notin Pattern(t).fixed /\ c \in Pattern(t).once /\ ~FirstOfKey(k)
      <4>1. ~Pattern(t).fresh => g.cur[c] = e.cur[c]
        BY <3>2 DEF Agree, k
      <4> QED  BY <1>5, <3>2, <4>1 DEF NewValue
    <3>3. CASE c \notin Pattern(t).fixed /\ ~(c \in Pattern(t).once /\ ~FirstOfKey(k))
      BY <1>5, <3>3 DEF NewValue
    <3> QED  BY <3>1, <3>2, <3>3
  <2>5. Kept(Pattern(t), c) /\ ~FirstOfKey(k) => g.old[c] = e.old[c]
    BY DEF Agree, k
  <2>6. /\ h.cur[c] = IF Retained(b, o, k, c) THEN g.old[c] ELSE NewValue(g, b, k, r, c)
        /\ h.old[c] = IF Remembered(b, o, k, c) THEN NewValue(g, b, k, r, c) ELSE g.old[c]
    BY <1>1, <1>4 DEF BuiltFrom
  <2>7. /\ f.cur[c] = IF Retained(d, q, k, c) THEN e.old[c] ELSE NewValue(e, d, k, r, c)
        /\ f.old[c] = IF Remembered(d, q, k, c) THEN NewValue(e, d, k, r, c) ELSE e.old[c]
    BY <1>2, <1>4 DEF BuiltFrom
  <2> QED  BY <2>1, <2>2, <2>3, <2>4, <2>5, <2>6, <2>7
<1>7. h.cur = f.cur
  <2>1. DOMAIN h.cur = PrintedColumns(t) /\ DOMAIN f.cur = PrintedColumns(t)
    BY <1>1, <1>2 DEF Memory
  <2>2. h.cur = [c \in DOMAIN h.cur |-> h.cur[c]] /\ f.cur = [c \in DOMAIN f.cur |-> f.cur[c]]
    BY <1>1, <1>2 DEF Memory
  <2> QED  BY <1>6, <2>1, <2>2
<1>8. Agree(h, f, t)
  BY <1>6 DEF Agree
<1> QED  BY <1>7, <1>8 DEF h, f

\* The version before a later version of the history is in it.
LEMMA HistoryBefore ==
  ASSUME NEW t, NEW k \in 1..MaxRow, NEW j \in 2..k, j \in ScdHistory(t, k),
         ~FirstOfKey(KeyBuilt(t, j, seed))
  PROVE  j - 1 \in 1..k /\ j - 1 \in ScdHistory(t, k)
<1>1. k \in Nat /\ j - 1 \in 1..k /\ (j - 1) + 1 = j
  BY MaxRowAssumption
<1>2. \A i \in (j + 1)..k : ~FirstOfKey(KeyBuilt(t, i, seed))
  BY DEF ScdHistory, KeyBuilt
<1>3. \A i \in ((j - 1) + 1)..k : ~FirstOfKey(KeyBuilt(t, i, seed))
  <2> TAKE i \in ((j - 1) + 1)..k
  <2>1. i = j \/ i \in (j + 1)..k
    BY <1>1
  <2> QED  BY <1>2, <2>1
<1> QED  BY <1>1, <1>3 DEF ScdHistory, KeyBuilt

\* Before the first row of the table, what is kept is what the reference keeps.
LEMMA BeforeFirst ==
  ASSUME NEW t \in TablesBuilt, t \in Paced, t \in ScdValidated, NEW S,
         NEW g \in Memory(S, t),
         FixedUnset(g, t)
  PROVE  \/ FirstOfKey(KeyBuilt(t, 1, seed))
         \/ Agree(Prepared(g, t), FreshMemory(Touched(t), t), t)
<1>1. CASE t = "s_item"
  <2>1. Pattern(t).fresh
    <3>1. SameShape(SItemRow(1, CHOOSE o : o \in Outcomes(t)),
                    ItemRow((CHOOSE o : o \in Outcomes(t)).sk, CHOOSE o : o \in Outcomes(t)))
      BY ItemShape, WrappedShape DEF SItemRow
    <3>2. Pattern(t) = SItemRow(1, CHOOSE o : o \in Outcomes(t))
      BY <1>1, RefreshRowsNamed DEF Pattern
    <3> QED  BY <3>1, <3>2 DEF SameShape, ItemRow
  <2>2. \A c \in PrintedColumns(t) : Prepared(g, t).old[c] = 0
    BY <1>1 DEF Prepared, Memory
  <2>3. \A c \in PrintedColumns(t) : FreshMemory(Touched(t), t).old[c] = 0
    BY DEF FreshMemory
  <2> QED  BY <2>1, <2>2, <2>3 DEF Agree
<1>2. CASE t # "s_item"
  <2>1. t \notin DOMAIN Wraps
    BY <1>2, WrapsAre DEF Paced, ScdValidated
  <2> QED  BY <2>1, KeyStarts DEF KeyBuilt, KeyOf
<1> QED  BY <1>1, <1>2

\* It prepares nothing that is never computed.
LEMMA PreparedFixed ==
  ASSUME NEW S, NEW t, NEW g \in Memory(S, t), FixedUnset(g, t)
  PROVE  FixedUnset(Prepared(g, t), t)
<1>1. \A c \in PrintedColumns(t) :
        Prepared(g, t).cur[c] = g.cur[c] /\ Prepared(g, t).old[c] \in {0, g.old[c]}
  BY DEF Prepared, Memory
<1> QED  BY <1>1 DEF FixedUnset

\* The versions that validateSCD builds are those of the reference.
LEMMA ScdValues ==
  ASSUME NEW t \in TablesBuilt, t \in Paced, t \in ScdValidated, NEW S, Serves(S, t),
         NEW g \in Memory(S, t), NEW k \in 1..MaxRow, seed \in Seeds, FixedUnset(g, t)
  PROVE  ScdBuilt(Prepared(g, t), t, k).cur
           = Build(SerialStates(t, seed)[k - 1], t, k, seed).cur
<1> DEFINE p == Prepared(g, t)
           st == SerialStates(t, seed)
           T == Touched(t)
<1>1. /\ k \in Nat /\ 1..k \subseteq 1..MaxRow /\ t \in DriverTables /\ S \subseteq AllStreams
      /\ Serves(T, t)
  BY ServesItself, MaxRowAssumption DEF Serves
<1>2. /\ st[0] = FreshMemory(T, t) /\ \A n \in 0..MaxRow : st[n] \in Memory(T, t)
      /\ \A n \in 1..MaxRow : st[n] = BuildAndStop(st[n - 1], t, n, seed)
  BY <1>1, SerialStatesAre
<1>3. \A n \in 0..MaxRow : FixedUnset(st[n], t)
  BY <1>1, SerialKnown DEF SerialInv
<1>4. p \in Memory(S, t) /\ FixedUnset(p, t)
  BY PreparedKeeps, PreparedFixed
<1>5. FirstOfKey(KeyBuilt(t, 1, seed)) \/ Agree(p, st[0], t)
  BY <1>2, BeforeFirst
<1> HIDE DEF p, st
<1>6. PICK f : ScdStates(S, p, t, k, f) /\ ScdBuilt(p, t, k) = f[k]
  BY <1>1, <1>4, ScdBuiltIs
<1>7. \A n \in 0..k : FixedUnset(f[n], t) /\ f[n] \in Memory(S, t)
  BY <1>4, <1>6, ScdFixed DEF ScdStates
<1> DEFINE Same(i) == /\ f[i].cur = Build(st[i - 1], t, i, seed).cur
                      /\ Agree(f[i], st[i], t)
           G == {i \in Nat : i \in 1..k /\ i \in ScdHistory(t, k) => Same(i)}
<1> HIDE DEF Same, G
<1>8. 0 \in G
  BY DEF G
<1>9. ASSUME NEW n \in G PROVE n + 1 \in G
  <2> SUFFICES ASSUME n + 1 \in 1..k, n + 1 \in ScdHistory(t, k) PROVE Same(n + 1)
    BY DEF G
  <2>0. n \in Nat /\ (n \in 1..k /\ n \in ScdHistory(t, k) => Same(n))
    BY DEF G
  <2>1. n \in 0..k /\ (n + 1) - 1 = n /\ n + 1 \in 1..MaxRow /\ n \in 0..MaxRow /\ n \in Nat
    BY <1>1, <2>0, MaxRowAssumption
  <2>2. f[n + 1] = Build(ScdBegun(f[n], t, n + 1), t, n + 1, seed)
    BY <1>6, <2>1 DEF ScdStates
  <2> DEFINE e == ScdBegun(f[n], t, n + 1)
             h == Build(e, t, n + 1, seed)
             b == Build(st[n], t, n + 1, seed)
  <2>3. e \in Memory(S, t) /\ OnlyStreams(f[n], e)
    BY <1>1, <1>7, <2>1, ScdBegunMoves DEF Moved
  <2>4. FixedUnset(e, t)
    BY <1>7, <2>1, <2>3, OnlyStreamsFixed
  <2>5. FirstOfKey(KeyBuilt(t, n + 1, seed)) \/ Agree(f[n], st[n], t)
    <3>1. CASE n = 0
      <4>1. f[0] = p
        BY <1>6 DEF ScdStates
      <4> QED  BY <1>5, <3>1, <4>1
    <3>2. CASE n # 0
      <4>1. n + 1 \in 2..k
        BY <2>1, <3>2
      <4>2. ~FirstOfKey(KeyBuilt(t, n + 1, seed)) => n \in 1..k /\ n \in ScdHistory(t, k)
        BY <2>1, <4>1, HistoryBefore
      <4> QED  BY <2>0, <4>2 DEF Same
    <3> QED  BY <3>1, <3>2
  <2>6. Agree(f[n], st[n], t) => Agree(e, st[n], t)
    BY <2>3 DEF OnlyStreams, Agree
  <2>7. h.cur = b.cur /\ Agree(h, b, t)
    <3> HIDE DEF e
    <3> QED  BY <1>1, <1>2, <1>3, <2>1, <2>3, <2>4, <2>5, <2>6, VersionValues
  <2>8. OnlyStreams(b, st[n + 1])
    <3>1. st[n + 1] = BuildAndStop(st[n], t, n + 1, seed)
      BY <1>2, <2>1
    <3>2. Leaves(T, t, st[n], b, RowBuilt(st[n], t, n + 1, seed), st[n + 1])
      BY <1>1, <1>2, <2>1, <3>1, StepIs
    <3> QED  BY <3>2 DEF Leaves
  <2>10. f[n + 1] = h
    BY <2>2
  <2>11. b = Build(st[(n + 1) - 1], t, n + 1, seed)
    BY <2>1
  <2> HIDE DEF h, b
  <2>9. Agree(h, st[n + 1], t)
    BY <2>7, <2>8 DEF OnlyStreams, Agree
  <2>12. f[n + 1].cur = Build(st[(n + 1) - 1], t, n + 1, seed).cur
    BY <2>7, <2>10, <2>11
  <2>13. Agree(f[n + 1], st[n + 1], t)
    BY <2>9, <2>10
  <2> QED  BY <2>12, <2>13 DEF Same
<1>10. G = Nat
  BY <1>8, <1>9, InductionSet DEF G
<1>11. k \in ScdHistory(t, k) /\ k \in 1..k
  BY <1>1 DEF ScdHistory
<1>12. k \in G
  BY <1>1, <1>10
<1>13. Same(k)
  BY <1>11, <1>12, Zenon DEF G
<1> QED  BY <1>6, <1>13 DEF p, st, Same

-----------------------------------------------------------------------------
(***************************************************************************)
(* A whole table: the state of the process and that of the reference.      *)
(***************************************************************************)

\* What shows of a table comes from streams it has to itself.
LEMMA DrawnReserved ==
  ASSUME NEW t \in DriverTables
  PROVE  Drawn(t) \subseteq Reserved(t)
<1>1. "item" \in {t} \cup WrappedBy(t) => t \in {"item", "s_item"}
  BY WrapsAre DEF WrappedBy
<1>2. Borrowed(t) \subseteq Unseen(t)
  BY <1>1 DEF Borrowed, Unseen
<1> QED  BY <1>2 DEF Drawn, Reserved

\* The states g and e are the same to the builder of t.
Alike(t, g, e) ==
  /\ OnlyStreams(e, g)
  /\ \A s \in Reserved(t) : g.pos[s] = e.pos[s] /\ g.used[s] = e.used[s]

\* It then builds the same row and leaves the same state.
LEMMA BuildAlike ==
  ASSUME NEW t \in DriverTables, NEW S, Serves(S, t), NEW g \in Memory(S, t),
         NEW R, Serves(R, t), NEW e \in Memory(R, t),
         NEW r \in 1..MaxRow, NEW luck \in Seeds, t \in TablesBuilt, Alike(t, g, e)
  PROVE  Alike(t, Build(g, t, r, luck), Build(e, t, r, luck))
<1> DEFINE b == RowBuilt(g, t, r, luck)
           o == ChoicesOf(g, t, r, luck)
           h == Build(g, t, r, luck)
           f == Build(e, t, r, luck)
           k == KeyOf(t, r, o)
<1>1. OnlyStreams(e, g)
  BY DEF Alike
<1>2. ChoicesOf(e, t, r, luck) = o
  BY <1>1 DEF OnlyStreams, ChoicesOf
<1>3. RowBuilt(e, t, r, luck) = b
  BY <1>2 DEF RowBuilt
<1>4. BuiltFrom(S, t, g, r, o, b, h) /\ h \in Memory(S, t)
  BY BuildIs, BuildKeeps
<1>5. BuiltFrom(R, t, e, r, o, b, f) /\ f \in Memory(R, t)
  BY <1>2, <1>3, BuildIs, BuildKeeps
<1> SUFFICES Alike(t, h, f)
  OBVIOUS
<1> HIDE DEF b, o, h, f, k
<1>6. Reserved(t) \subseteq S /\ Reserved(t) \subseteq R
  BY DEF Serves, Reserved
<1>7. \A s \in Reserved(t) : h.pos[s] = f.pos[s] /\ h.used[s] = f.used[s]
  BY <1>4, <1>5, <1>6 DEF BuiltFrom, Alike
<1>8. h.started = f.started /\ h.shuffled = f.shuffled
  <2>1. t \in DOMAIN ShuffleStream => ShuffleStream[t] \in Reserved(t)
    BY ShuffleStreamKnown DEF Reserved
  <2>2. t \in DOMAIN ShuffleStream => g.pos[ShuffleStream[t]] = e.pos[ShuffleStream[t]]
    BY <2>1 DEF Alike
  <2>3. g.started = e.started /\ g.shuffled = e.shuffled
    BY <1>1 DEF OnlyStreams
  <2> QED  BY <1>4, <1>5, <2>2, <2>3 DEF BuiltFrom
<1>9. ASSUME NEW c \in PrintedColumns(t)
      PROVE  h.cur[c] = f.cur[c] /\ h.old[c] = f.old[c]
  <2>1. g.cur = e.cur /\ g.old = e.old
    BY <1>1 DEF OnlyStreams
  <2>2. NewValue(g, b, k, r, c) = NewValue(e, b, k, r, c)
    BY <2>1 DEF NewValue
  <2>3. /\ h.cur[c] = IF Retained(b, o, k, c) THEN g.old[c] ELSE NewValue(g, b, k, r, c)
        /\ h.old[c] = IF Remembered(b, o, k, c) THEN NewValue(g, b, k, r, c) ELSE g.old[c]
    BY <1>4 DEF BuiltFrom, k
  <2>4. /\ f.cur[c] = IF Retained(b, o, k, c) THEN e.old[c] ELSE NewValue(e, b, k, r, c)
        /\ f.old[c] = IF Remembered(b, o, k, c) THEN NewValue(e, b, k, r, c) ELSE e.old[c]
    BY <1>5 DEF BuiltFrom, k
  <2> QED  BY <2>1, <2>2, <2>3, <2>4
<1>10. h.cur = f.cur /\ h.old = f.old
  <2>1. /\ DOMAIN h.cur = PrintedColumns(t) /\ DOMAIN f.cur = PrintedColumns(t)
        /\ DOMAIN h.old = PrintedColumns(t) /\ DOMAIN f.old = PrintedColumns(t)
    BY <1>4, <1>5 DEF Memory
  <2>2. /\ h.cur = [c \in DOMAIN h.cur |-> h.cur[c]]
        /\ f.cur = [c \in DOMAIN f.cur |-> f.cur[c]]
        /\ h.old = [c \in DOMAIN h.old |-> h.old[c]]
        /\ f.old = [c \in DOMAIN f.old |-> f.old[c]]
    BY <1>4, <1>5 DEF Memory
  <2> QED  BY <1>9, <2>1, <2>2
<1> QED  BY <1>7, <1>8, <1>10 DEF Alike, OnlyStreams

\* row_stop leaves them alike.
LEMMA StopAlike ==
  ASSUME NEW t \in DriverTables, NEW S, Serves(S, t), NEW g \in Memory(S, t),
         NEW R, Serves(R, t), NEW e \in Memory(R, t), NEW u, OwnStreams(u) \subseteq Touched(t),
         Alike(t, g, e)
  PROVE  Alike(t, RowStop(g, u), RowStop(e, u))
<1> DEFINE h == RowStop(g, u)
           f == RowStop(e, u)
           own == OwnStreams(u)
<1>1. own \subseteq S /\ own \subseteq R /\ S \subseteq AllStreams /\ R \subseteq AllStreams
  BY DEF Serves
<1>2. StoppedAt(S, t, g, own, h) /\ StoppedAt(R, t, e, own, f)
  BY <1>1, RowStopKeeps
<1> SUFFICES Alike(t, h, f)
  OBVIOUS
<1> HIDE DEF h, f, own
<1>3. Reserved(t) \subseteq S /\ Reserved(t) \subseteq R
  BY DEF Serves, Reserved
<1>4. \A s \in Reserved(t) : h.pos[s] = f.pos[s] /\ h.used[s] = f.used[s]
  BY <1>2, <1>3 DEF StoppedAt, Alike
<1>5. OnlyStreams(f, h)
  BY <1>2 DEF StoppedAt, Alike, OnlyStreams
<1> QED  BY <1>4, <1>5 DEF Alike

\* So does a whole row of gen_tbl.
LEMMA StepAlike ==
  ASSUME NEW t \in DriverTables, NEW S, Serves(S, t), NEW g \in Memory(S, t),
         NEW R, Serves(R, t), NEW e \in Memory(R, t),
         NEW r \in 1..MaxRow, NEW luck \in Seeds, t \in TablesBuilt, Alike(t, g, e)
  PROVE  Alike(t, BuildAndStop(g, t, r, luck), BuildAndStop(e, t, r, luck))
<1> DEFINE h == Build(g, t, r, luck)
           f == Build(e, t, r, luck)
<1>1. h \in Memory(S, t) /\ f \in Memory(R, t) /\ Alike(t, h, f)
  BY BuildKeeps, BuildAlike
<1>2. /\ BuildAndStop(g, t, r, luck) = RowStop(Ended(t, h), t)
      /\ BuildAndStop(e, t, r, luck) = RowStop(Ended(t, f), t)
  BY DEF BuildAndStop, Ended
<1> HIDE DEF h, f
<1>3. OwnStreams(t) \subseteq Touched(t)
  BY StreamsKnown
<1>4. Ended(t, h) \in Memory(S, t) /\ Ended(t, f) \in Memory(R, t)
  BY <1>1, EndedKeeps DEF StoppedAt
<1>5. Alike(t, Ended(t, h), Ended(t, f))
  <2>1. CASE t \in StopsWrapped
    <3>1. OwnStreams(Wraps[t]) \subseteq Touched(t)
      BY <2>1, StreamsKnown
    <3> QED  BY <1>1, <2>1, <3>1, StopAlike DEF Ended
  <2>2. CASE t \notin StopsWrapped
    BY <1>1, <2>2 DEF Ended
  <2> QED  BY <2>1, <2>2
<1> QED  BY <1>2, <1>3, <1>4, <1>5, StopAlike

-----------------------------------------------------------------------------
(***************************************************************************)
(* The rows a process gets at.                                             *)
(***************************************************************************)

\* The reference, row by row.
LEMMA SerialRowIs ==
  ASSUME NEW t \in TablesBuilt, NEW luck \in Seeds, NEW r \in 1..MaxRow
  PROVE  SerialRows[t][luck][r]
           = RowMadeOf(t, r, SerialStates(t, luck)[r - 1],
                       Build(SerialStates(t, luck)[r - 1], t, r, luck))
  BY DEF SerialRows

\* When the row just shown is the table's.
LEMMA RowAgrees ==
  ASSUME NEW t \in TablesBuilt, NEW k \in 1..MaxRow, seed \in Seeds, seed' = seed,
         NEW g, NEW h, NEW e, e = SerialStates(t, seed)[k - 1],
         shown' = RowMadeOf(t, k, g, h),
         h.cur = Build(e, t, k, seed).cur,
         h.shuffled = Build(e, t, k, seed).shuffled,
         \A s \in Drawn(t) : g.pos[s] = e.pos[s]
  PROVE  RowIsTheTables'
<1> DEFINE row == RowMadeOf(t, k, e, Build(e, t, k, seed))
<1>1. SerialRows[t][seed][k] = row
  BY SerialRowIs
<1>2. shown'.table = t /\ shown'.row = k /\ shown'.values = h.cur
      /\ shown'.shuffled = h.shuffled /\ shown'.starts = g.pos
  BY DEF RowMadeOf
<1>3. SerialRow' = row
  BY <1>1, <1>2 DEF SerialRow
<1>4. row.values = h.cur /\ row.shuffled = h.shuffled /\ row.starts = e.pos
  BY DEF RowMadeOf
<1> HIDE DEF row
<1>5. /\ shown'.values = SerialRow'.values /\ shown'.shuffled = SerialRow'.shuffled
      /\ \A s \in Drawn(shown'.table) : shown'.starts[s] = SerialRow'.starts[s]
  BY <1>2, <1>3, <1>4
<1> QED  BY <1>5 DEF RowIsTheTables, ShownIs

\* The tables whose rows a chunk and validation get right.
LEMMA AccessibleTables ==
  ASSUME NEW t \in DriverTables, t \in FreelyAccessible, mode # "generate",
         mode \in {"chunk", "validate"}, mode = "chunk" => t \in Splittable
  PROVE  t \in Paced
<1>1. CASE mode = "chunk"
  BY <1>1 DEF FreelyAccessible, Splittable, Paced
<1>2. CASE mode = "validate"
  BY <1>2 DEF FreelyAccessible, Paced
<1> QED  BY <1>1, <1>2

\* A table that is split, or that validateSCD does not build, keeps no values
\* from row to row.
LEMMA PacedPlain ==
  ASSUME NEW t \in Paced, t \in Splittable \/ t \notin ScdValidated
  PROVE  t \notin Versioned
  BY DEF Paced, Splittable, ScdValidated, Versioned

\* In a process that builds whole tables, no stream of those to come has moved...
Ahead ==
  mode = "generate" =>
    \A i \in DOMAIN queue : i > 1 =>
      \A s \in Reserved(queue[i]) : gen.pos[s] = 0 /\ gen.used[s] = 0

\* ...and that of the table at hand is where the reference has it.
Synced ==
  mode = "generate" /\ queue # <<>> =>
    Alike(Head(queue), gen, SerialStates(Head(queue), seed)[next - 1])

\* A chunk is at the row it has come to, and the permutation is the reference's.
Placed ==
  queue # <<>> /\ Head(queue) \in Paced =>
    /\ mode = "chunk" => InPace(DOMAIN gen.pos, Head(queue), gen, next)
    /\ mode # "generate" => ShuffleReady(gen, Head(queue))

\* The inductive invariant of the rows.
Accessed == Historical /\ Ahead /\ Synced /\ Placed /\ AccessibleRowIsTheTables

\* The memory of a table not begun is that of the reference.
LEMMA FreshAlike ==
  ASSUME NEW t \in DriverTables, NEW g, OnlyStreams(FreshMemory(Touched(t), t), g),
         \A s \in Reserved(t) : g.pos[s] = 0 /\ g.used[s] = 0
  PROVE  Alike(t, g, FreshMemory(Touched(t), t))
<1>1. Reserved(t) \subseteq Touched(t)
  BY DEF Reserved
<1>2. \A s \in Reserved(t) : FreshMemory(Touched(t), t).pos[s] = 0
                            /\ FreshMemory(Touched(t), t).used[s] = 0
  BY <1>1 DEF FreshMemory
<1> QED  BY <1>2 DEF Alike

\* Where a chunk begins.
LEMMA ChunkPlaced ==
  ASSUME NEW t \in Paced, t \in Splittable, NEW S, Serves(S, t), NEW g \in Memory(S, t),
         NEW r \in 2..MaxRow, NEW e, e = Positioned(g, t, r),
         g.started = FALSE, g.shuffled = -1, \A s \in Stopped(t) : e.used[s] = 0
  PROVE  InPace(S, t, e, r) /\ ShuffleReady(e, t)
<1>1. /\ \A s \in Drawn(t) : e.pos[s] = (r - 1) * PerRow[s]
      /\ \A s \in OwnStreams(t) : e.pos[s] = (r - 1) * PerRow[s]
  BY PositionedReaches
<1>2. InPace(S, t, e, r)
  BY <1>1 DEF InPace
<1>3. OnlyStreams(g, e)
  <2>1. r \in 1..MaxRow /\ S \subseteq AllStreams
    BY MaxRowAssumption DEF Serves
  <2> QED  BY <2>1, PositionedMoves DEF Moved
<1>4. ASSUME t \in DOMAIN ShuffleStream PROVE e.pos[ShuffleStream[t]] = 0
  <2>1. t \in DriverTables /\ t \notin {"s_promotion", "s_call_center", "s_store", "s_warehouse"}
    BY DEF Paced, Splittable
  <2>2. ShuffleStream[t] \in OwnStreams(t) /\ PerRow[ShuffleStream[t]] = 0
    BY <1>4, <2>1, ShuffleStreamKnown
  <2>3. r - 1 \in Int
    BY MaxRowAssumption
  <2> QED  BY <1>1, <2>2, <2>3
<1>5. ShuffleReady(e, t)
  BY <1>3, <1>4 DEF OnlyStreams, ShuffleReady
<1> QED  BY <1>2, <1>5

\* A process begins where the reference does, or where row_skip puts it.
LEMMA AccessedInit ==
  ASSUME Init
  PROVE  Accessed
<1> DEFINE S == SessionStreams(queue)
           t == Head(queue)
           g == FreshMemory(S, t)
<1>1. /\ Shape /\ Moved(S, t, g, gen) /\ DOMAIN gen.pos = S
      /\ mode \in {"generate", "validate"} => gen = g
      /\ mode = "chunk" => gen = Positioned(g, t, next) /\ next \in 2..MaxRow
  BY InitGen
<1>2. Historical /\ Known
  BY HistoricalInit DEF Historical
<1>3. queue # <<>> /\ t \in TablesBuilt /\ t \in DriverTables /\ Serves(S, t) /\ seed \in Seeds
      /\ 1 \in DOMAIN queue /\ t = queue[1]
  BY <1>1, InitQueue, HeadServed DEF Serves
<1>4. g \in Memory(S, t) /\ g.started = FALSE /\ g.shuffled = -1
      /\ \A s \in S : g.pos[s] = 0 /\ g.used[s] = 0
  BY FreshKeeps DEF FreshMemory
<1>5. AccessibleRowIsTheTables
  BY DEF Init, AccessibleRowIsTheTables
<1>6. \A i \in DOMAIN queue : Reserved(queue[i]) \subseteq S
  BY <1>1, QueueTables
<1>7. OnlyStreams(FreshMemory(Touched(t), t), g)
  BY DEF OnlyStreams, FreshMemory
<1> HIDE DEF S, t, g
<1>8. Ahead
  BY <1>1, <1>4, <1>6 DEF Ahead
<1>9. Synced
  <2> SUFFICES ASSUME mode = "generate" PROVE Alike(t, gen, SerialStates(t, seed)[next - 1])
    BY DEF Synced, t
  <2>1. next - 1 = 0 /\ gen = g
    BY <1>1 DEF Init
  <2>2. \A s \in Reserved(t) : g.pos[s] = 0 /\ g.used[s] = 0
    BY <1>3, <1>4, <1>6
  <2>3. SerialStates(t, seed)[0] = FreshMemory(Touched(t), t)
    BY <1>3, SerialStatesAre
  <2> QED  BY <1>3, <1>7, <2>1, <2>2, <2>3, FreshAlike
<1>10. Placed
  <2> SUFFICES ASSUME t \in Paced, mode # "generate"
               PROVE  /\ mode = "chunk" => InPace(S, t, gen, next)
                      /\ ShuffleReady(gen, t)
    BY <1>1 DEF Placed, t
  <2>1. CASE mode = "chunk"
    <3>1. t \in Splittable
      BY <1>2, <1>3, <2>1 DEF Historical, SplitQueue
    <3>2. \A s \in Stopped(t) : gen.used[s] = 0
      BY <1>2, <1>3, <2>1 DEF Known, Unused
    <3> QED  BY <1>1, <1>3, <1>4, <2>1, <3>1, <3>2, ChunkPlaced
  <2>2. CASE mode = "validate"
    <3>1. t \in DOMAIN ShuffleStream => ShuffleStream[t] \in S
      BY <1>3, ShuffleStreamKnown DEF Serves
    <3> QED  BY <1>1, <1>4, <2>2, <3>1 DEF ShuffleReady
  <2>3. mode \in {"chunk", "validate"}
    BY <1>1 DEF Shape
  <2> QED  BY <2>1, <2>2, <2>3
<1> QED  BY <1>2, <1>5, <1>8, <1>9, <1>10 DEF Accessed

\* gen_tbl builds the rows of the reference.
LEMMA AccessedGenerateRow ==
  ASSUME Accessed, GenerateRow
  PROVE  Accessed'
<1> DEFINE t == Head(queue)
           S == DOMAIN gen.pos
           h == Build(gen, t, next, seed)
           st == SerialStates(t, seed)
           T == Touched(t)
<1>1. /\ Shape /\ Known /\ Historical /\ UNCHANGED <<mode, seed, queue>> /\ queue # <<>>
      /\ mode # "validate" /\ next' = next + 1 /\ shown' = RowMadeOf(t, next, gen, h)
      /\ gen' = BuildAndStop(gen, t, next, seed)
  BY DEF Accessed, Historical, Known, GenerateRow
<1>2. /\ t \in TablesBuilt /\ Serves(S, t) /\ gen \in Memory(S, t) /\ next \in 1..MaxRow
      /\ seed \in Seeds /\ Leaves(S, t, gen, h, RowBuilt(gen, t, next, seed), gen')
      /\ DOMAIN gen'.pos = S
  BY <1>1, GenerateRowKeeps
<1>3. t \in DriverTables /\ Serves(T, t) /\ 1 \in DOMAIN queue /\ t = queue[1]
  BY <1>1, <1>2, ServesItself, HeadServed DEF Serves
<1>4. /\ next - 1 \in 0..MaxRow /\ next' - 1 = next /\ next' - 1 \in 0..MaxRow
      /\ next \in Nat
  BY <1>1, <1>2, MaxRowAssumption
<1>5. /\ \A n \in 0..MaxRow : st[n] \in Memory(T, t) /\ SerialInv(t, seed, n)
      /\ st[next] = BuildAndStop(st[next - 1], t, next, seed)
  BY <1>2, <1>3, SerialStatesAre, SerialKnown
<1>6. FixedUnset(gen, t)
  BY <1>1 DEF Historical, FixedKnown
<1>7. h.started = TRUE /\ OnlyStreams(h, gen')
  <2>1. BuiltFrom(S, t, gen, next, ChoicesOf(gen, t, next, seed), RowBuilt(gen, t, next, seed), h)
    BY <1>2, BuildIs
  <2> QED  BY <1>2, <2>1 DEF BuiltFrom, Leaves
<1> HIDE DEF h, st, T, S
<1>8. Ahead'
  <2> SUFFICES ASSUME mode = "generate", NEW i \in DOMAIN queue, i > 1,
                      NEW s \in Reserved(queue[i])
               PROVE  gen'.pos[s] = 0 /\ gen'.used[s] = 0
    BY <1>1 DEF Ahead
  <2>1. gen.pos[s] = 0 /\ gen.used[s] = 0
    BY DEF Accessed, Ahead
  <2>2. s \in S
    BY <1>1, QueueTables DEF S
  <2>3. s \notin Touched(t)
    BY <1>1, <1>3 DEF Known, Independent
  <2> QED  BY <1>2, <2>1, <2>2, <2>3 DEF Leaves
<1>9. mode = "generate" => Alike(t, gen, st[next - 1])
  BY <1>1 DEF Accessed, Synced, st
<1>10. Synced'
  <2>1. ASSUME mode = "generate" PROVE Alike(t, gen', st[next])
    BY <1>1, <1>2, <1>3, <1>4, <1>5, <1>9, <2>1, StepAlike
  <2>2. SerialStates(t, seed)[next' - 1] = st[next]
    BY <1>4 DEF st
  <2> QED  BY <1>1, <2>1, <2>2 DEF Synced
<1>11. Placed'
  <2> SUFFICES ASSUME t \in Paced
               PROVE  /\ mode = "chunk" => InPace(S, t, gen', next')
                      /\ mode # "generate" => ShuffleReady(gen', t)
    BY <1>1, <1>2 DEF Placed
  <2>1. mode = "chunk" => InPace(S, t, gen, next)
    BY <1>1 DEF Accessed, Placed, S
  <2>2. mode # "generate" => ShuffleReady(gen, t)
    BY <1>1 DEF Accessed, Placed
  <2>3. mode = "chunk" => InPace(S, t, gen', next')
    BY <1>1, <1>2, <2>1, PaceKept
  <2>4. mode # "generate" => ShuffleReady(h, t)
    BY <1>2, <2>2, BuildReady DEF h
  <2> QED  BY <1>7, <2>3, <2>4, StartedReady
<1>12. AccessibleRowIsTheTables'
  <2>0. PICK e : e = st[next - 1]
    OBVIOUS
  <2> DEFINE f == Build(e, t, next, seed)
  <2>1. /\ e \in Memory(T, t) /\ FixedUnset(e, t) /\ ShuffleReady(e, t)
        /\ t \in Paced => InPace(T, t, e, next)
    <3>1. (next - 1) + 1 = next
      BY <1>4
    <3> QED  BY <1>4, <1>5, <2>0, <3>1 DEF SerialInv, st, T
  <2>2. CASE mode = "generate"
    <3>1. Alike(t, h, f)
      <4>1. Alike(t, gen, e)
        BY <1>9, <2>0, <2>2
      <4>2. Alike(t, Build(gen, t, next, seed), Build(e, t, next, seed))
        <5> QED  BY <1>2, <1>3, <2>1, <4>1, BuildAlike
      <4> QED  BY <4>2 DEF h
    <3>2. h.cur = f.cur /\ h.shuffled = f.shuffled
      BY <3>1 DEF Alike, OnlyStreams
    <3>3. \A s \in Drawn(t) : gen.pos[s] = e.pos[s]
      BY <1>3, <1>9, <2>0, <2>2, DrawnReserved DEF Alike
    <3>4. RowIsTheTables'
      BY <1>1, <1>2, <2>0, <3>2, <3>3, RowAgrees DEF st
    <3> QED  BY <3>4 DEF AccessibleRowIsTheTables
  <2>3. CASE mode = "chunk"
    <3>1. t \in Splittable
      BY <1>1, <1>3, <2>3 DEF Historical, SplitQueue
    <3> SUFFICES ASSUME t \in FreelyAccessible PROVE RowIsTheTables'
      <4>1. shown'.table = t
        BY <1>1 DEF RowMadeOf
      <4>2. FreelyAccessible' = FreelyAccessible
        BY <1>1 DEF FreelyAccessible
      <4> QED  BY <4>1, <4>2 DEF AccessibleRowIsTheTables
    <3>2. t \in Paced /\ t \notin Versioned
      BY <1>3, <2>3, <3>1, AccessibleTables, PacedPlain
    <3>3. InPace(S, t, gen, next) /\ ShuffleReady(gen, t)
      BY <1>1, <2>3, <3>2 DEF Accessed, Placed, S
    <3>4. \A s \in Drawn(t) : gen.pos[s] = e.pos[s]
      <4> QED  BY <2>1, <3>2, <3>3 DEF InPace
    <3>5. h.shuffled = f.shuffled
      <4>1. f.shuffled = WantShuffled(t)
        <5> QED  BY <2>1, BuildReady
      <4>2. h.shuffled = WantShuffled(t)
        BY <1>2, <3>3, BuildReady DEF h
      <4> QED  BY <4>1, <4>2
    <3>6. h.cur = f.cur
      <4> DEFINE row == [c \in PrintedColumns(t) |-> IF c \in Pattern(t).fixed THEN 0 ELSE next]
      <4>1. f.cur = row
        <5> QED  BY <1>2, <1>3, <2>1, <3>2, PlainValues
      <4>2. Build(gen, t, next, seed).cur = row
        <5> HIDE DEF t
        <5> QED  BY <1>2, <1>3, <1>6, <3>2, PlainValues
      <4> HIDE DEF row
      <4> QED  BY <4>1, <4>2 DEF h
    <3> QED  BY <1>1, <1>2, <2>0, <3>4, <3>5, <3>6, RowAgrees DEF st
  <2>4. mode \in {"generate", "chunk"}
    BY <1>1 DEF Shape
  <2> QED  BY <2>2, <2>3, <2>4
<1>13. Historical'
  BY <1>1, HistoricalGenerateRow
<1> QED  BY <1>8, <1>10, <1>11, <1>12, <1>13 DEF Accessed

\* The next table is begun as the reference begins it.
LEMMA AccessedNextTable ==
  ASSUME Accessed, NextTable
  PROVE  Accessed'
<1>1. /\ Shape /\ Known /\ Historical /\ Historical' /\ Known' /\ Shape'
      /\ UNCHANGED <<mode, seed>>
      /\ shown' = <<>> /\ mode # "validate"
  BY HistoricalNextTable, KnownNextTable DEF Accessed, Historical, Known, NextTable
<1>2. AccessibleRowIsTheTables'
  BY <1>1 DEF AccessibleRowIsTheTables
<1>3. CASE queue' = <<>>
  BY <1>1, <1>2, <1>3 DEF Accessed, Ahead, Synced, Placed
<1>4. CASE queue' # <<>>
  <2> DEFINE t == Head(queue')
             S == DOMAIN gen.pos
             g == NextMemory(gen, t)
  <2>1. /\ \A i \in DOMAIN queue' : i + 1 \in DOMAIN queue /\ queue'[i] = queue[i + 1]
        /\ 1 \in DOMAIN queue' /\ t = queue'[1] /\ g \in Memory(S, t)
        /\ next' \in 1..MaxRow /\ gen' = Positioned(g, t, next') /\ DOMAIN gen'.pos = S
    BY <1>1, <1>4, NextTableKeeps
  <2>2. next' \in IF mode = "chunk" THEN 2..MaxRow ELSE {1}
    BY <1>4 DEF NextTable
  <2>3. /\ g.started = FALSE /\ g.shuffled = -1 /\ g.pos = gen.pos /\ g.used = gen.used
        /\ OnlyStreams(FreshMemory(Touched(t), t), g)
    BY DEF NextMemory, FreshMemory, WithStreams, OnlyStreams
  <2>4. t \in TablesBuilt /\ t \in DriverTables /\ Serves(S, t) /\ seed \in Seeds
    BY <1>1, <1>4, <2>1, QueueTables, HeadServed DEF Shape, Serves
  <2> HIDE DEF g
  <2>5. mode # "chunk" => gen' = g /\ next' = 1
    BY <2>1, <2>2 DEF Positioned
  <2>6. Ahead'
    <3> SUFFICES ASSUME mode = "generate", NEW i \in DOMAIN queue', i > 1,
                        NEW s \in Reserved(queue'[i])
                 PROVE  gen'.pos[s] = 0 /\ gen'.used[s] = 0
      BY <1>1 DEF Ahead
    <3>1. i + 1 \in DOMAIN queue /\ queue'[i] = queue[i + 1] /\ i + 1 > 1
      BY <1>1, <2>1 DEF Shape
    <3>2. gen.pos[s] = 0 /\ gen.used[s] = 0
      BY <3>1 DEF Accessed, Ahead
    <3> QED  BY <2>3, <2>5, <3>2
  <2>7. Synced'
    <3> SUFFICES ASSUME mode = "generate"
                 PROVE  Alike(t, gen', SerialStates(t, seed)[next' - 1])
      BY <1>1 DEF Synced
    <3>1. 1 + 1 \in DOMAIN queue /\ t = queue[1 + 1] /\ 1 + 1 > 1
      BY <2>1
    <3>2. \A s \in Reserved(t) : gen.pos[s] = 0 /\ gen.used[s] = 0
      BY <3>1 DEF Accessed, Ahead
    <3>3. SerialStates(t, seed)[0] = FreshMemory(Touched(t), t)
      BY <2>4, SerialStatesAre
    <3>4. Alike(t, g, FreshMemory(Touched(t), t))
      BY <2>3, <2>4, <3>2, FreshAlike
    <3> QED  BY <2>5, <3>3, <3>4
  <2>8. Placed'
    <3> SUFFICES ASSUME t \in Paced, mode = "chunk"
                 PROVE  InPace(S, t, gen', next') /\ ShuffleReady(gen', t)
      BY <1>1, <2>1, <1>4 DEF Placed, Shape
    <3>1. t \in Splittable
      BY <1>1, <2>1 DEF Historical, SplitQueue
    <3>2. \A s \in Stopped(t) : gen'.used[s] = 0
      BY <1>1, <2>1 DEF Known, Unused
    <3>3. next' \in 2..MaxRow
      BY <2>2
    <3> QED  BY <2>1, <2>3, <2>4, <3>1, <3>2, <3>3, ChunkPlaced
  <2> QED  BY <1>1, <1>2, <2>6, <2>7, <2>8 DEF Accessed
<1> QED  BY <1>3, <1>4

\* What -VALIDATE shows of a table had freely.
LEMMA ValidatedRow ==
  ASSUME NEW t \in TablesBuilt, t \in Paced, NEW S, Serves(S, t), NEW g \in Memory(S, t),
         NEW k \in 1..MaxRow, seed \in Seeds, FixedUnset(g, t), ShuffleReady(g, t),
         NEW e, e = SerialStates(t, seed)[k - 1]
  PROVE  /\ ValidBuilt(g, t, k).cur = Build(e, t, k, seed).cur
         /\ ValidBuilt(g, t, k).shuffled = Build(e, t, k, seed).shuffled
         /\ \A s \in Drawn(t) : ValidBegun(g, t, k).pos[s] = e.pos[s]
<1> DEFINE T == Touched(t)
<1>1. t \in DriverTables /\ Serves(T, t) /\ S \subseteq AllStreams
  BY ServesItself DEF Serves
<1>2. k - 1 \in 0..MaxRow /\ (k - 1) + 1 = k
  BY MaxRowAssumption
<1>3. e \in Memory(T, t) /\ FixedUnset(e, t) /\ ShuffleReady(e, t) /\ InPace(T, t, e, k)
  BY <1>1, <1>2, SerialStatesAre, SerialKnown DEF SerialInv
<1>4. ValidBuilt(g, t, k).shuffled = Build(e, t, k, seed).shuffled
  <2>1. Build(e, t, k, seed).shuffled = WantShuffled(t)
    BY <1>3, BuildReady
  <2>2. ValidBuilt(g, t, k).shuffled = WantShuffled(t)
    BY ValidBuiltReady
  <2> QED  BY <2>1, <2>2
<1>5. CASE t \in ScdValidated
  <2>1. ValidBuilt(g, t, k).cur = Build(e, t, k, seed).cur
    BY <1>5, ScdValues DEF ValidBuilt
  <2>2. \A s \in Drawn(t) : ScdBegun(Prepared(g, t), t, k).pos[s] = (k - 1) * PerRow[s]
    BY <1>5, PreparedKeeps, ScdBegunReaches
  <2> QED  BY <1>3, <1>4, <1>5, <2>1, <2>2 DEF InPace, ValidBegun
<1>6. CASE t \notin ScdValidated
  <2> DEFINE b == ValidationPosition(g, t, k)
  <2>1. b \in Memory(S, t) /\ OnlyStreams(g, b)
    BY <1>1, ValidationPositionMoves DEF Moved
  <2>2. FixedUnset(b, t) /\ t \notin Versioned
    BY <1>6, <2>1, OnlyStreamsFixed, PacedPlain
  <2>3. \A s \in Drawn(t) : b.pos[s] = (k - 1) * PerRow[s]
    BY <1>6, ValidationPositionReaches
  <2>4. ValidBuilt(g, t, k) = Build(b, t, k, seed) /\ ValidBegun(g, t, k) = b
    BY <1>6 DEF ValidBuilt, ValidBegun
  <2> HIDE DEF b
  <2>5. Build(b, t, k, seed).cur = Build(e, t, k, seed).cur
    <3> DEFINE row == [c \in PrintedColumns(t) |-> IF c \in Pattern(t).fixed THEN 0 ELSE k]
    <3>1. Build(b, t, k, seed).cur = row
      BY <1>1, <2>1, <2>2, PlainValues
    <3>2. Build(e, t, k, seed).cur = row
      BY <1>1, <1>3, <2>2, PlainValues
    <3> HIDE DEF row
    <3> QED  BY <3>1, <3>2
  <2> QED  BY <1>3, <1>4, <2>3, <2>4, <2>5 DEF InPace
<1> QED  BY <1>5, <1>6

\* -VALIDATE shows the rows of the reference.
LEMMA AccessedValidateRow ==
  ASSUME Accessed, NEW k \in 1..MaxRow, ValidateRow(k)
  PROVE  Accessed'
<1> DEFINE t == Head(queue)
           S == DOMAIN gen.pos
           b == ValidBegun(gen, t, k)
           h == ValidBuilt(gen, t, k)
<1>1. /\ shown' = RowMadeOf(t, k, b, h) /\ gen' = ValidEnded(t, h)
      /\ mode = "validate" /\ UNCHANGED <<mode, seed, queue>>
  BY ValidateRowIs
<1>2. Shape /\ Historical /\ queue # <<>>
  BY <1>1 DEF Accessed, Historical, Known, Shape
<1>3. /\ t \in TablesBuilt /\ Serves(S, t) /\ gen \in Memory(S, t) /\ seed \in Seeds
      /\ t \in DriverTables
  BY <1>2, HeadServed DEF Serves
<1>4. FixedUnset(gen, t) /\ (t \in Paced => ShuffleReady(gen, t))
  BY <1>1, <1>2 DEF Historical, FixedKnown, Accessed, Placed
<1>5. Historical'
  BY <1>2, HistoricalValidateRow
<1>6. t \in Paced => ShuffleReady(gen', t)
  <2> SUFFICES ASSUME t \in Paced PROVE ShuffleReady(gen', t)
    OBVIOUS
  <2>1. h.started = TRUE /\ ShuffleReady(h, t)
    BY <1>3, <1>4, ValidBuiltReady
  <2>2. OnlyStreams(h, gen')
    BY <1>1, ValidEndedOnly
  <2> HIDE DEF h
  <2> QED  BY <2>1, <2>2, StartedReady
<1>7. Ahead' /\ Synced' /\ Placed'
  BY <1>1, <1>6 DEF Ahead, Synced, Placed
<1>8. AccessibleRowIsTheTables'
  <2> SUFFICES ASSUME t \in FreelyAccessible PROVE RowIsTheTables'
    <3>1. shown'.table = t
      BY <1>1 DEF RowMadeOf
    <3>2. FreelyAccessible' = FreelyAccessible
      BY <1>1 DEF FreelyAccessible
    <3> QED  BY <3>1, <3>2 DEF AccessibleRowIsTheTables
  <2>1. t \in Paced
    BY <1>1, <1>3, AccessibleTables
  <2> DEFINE e == SerialStates(t, seed)[k - 1]
  <2>2. /\ h.cur = Build(e, t, k, seed).cur /\ h.shuffled = Build(e, t, k, seed).shuffled
        /\ \A s \in Drawn(t) : b.pos[s] = e.pos[s]
    BY <1>3, <1>4, <2>1, ValidatedRow
  <2> HIDE DEF h, b
  <2> QED  BY <1>1, <1>3, <2>2, RowAgrees
<1> QED  BY <1>5, <1>7, <1>8 DEF Accessed

\* Every step keeps to the reference.
LEMMA AccessedNext ==
  ASSUME Accessed, [Next]_vars
  PROVE  Accessed'
<1>1. CASE UNCHANGED vars
  <2>1. Historical'
    BY HistoricalNext DEF Accessed
  <2>2. RowIsTheTables' <=> RowIsTheTables
    BY <1>1 DEF vars, RowIsTheTables, ShownIs, SerialRow
  <2>3. AccessibleRowIsTheTables'
    BY <1>1, <2>2 DEF vars, Accessed, AccessibleRowIsTheTables, FreelyAccessible
  <2>4. Ahead' /\ Synced' /\ Placed'
    BY <1>1 DEF vars, Accessed, Ahead, Synced, Placed
  <2> QED  BY <2>1, <2>3, <2>4 DEF Accessed
<1>2. CASE Next
  BY <1>2, AccessedGenerateRow, AccessedNextTable, AccessedValidateRow DEF Next
<1> QED  BY <1>1, <1>2

\* Whichever way a process gets at a row - the table built alone or after
\* others, in one piece or in chunks, or the row picked by -VALIDATE in any
\* order - it is the row with that number of the table built alone and in
\* order, in every table but those FreelyAccessible leaves out: the same random
\* numbers, the same permutation, and every column from the same row.
THEOREM RowsAreTheTables == Spec => []AccessibleRowIsTheTables
<1>1. Spec => []Accessed
  BY AccessedInit, AccessedNext, PTL DEF Spec
<1>2. Accessed => AccessibleRowIsTheTables
  BY DEF Accessed
<1> QED  BY <1>1, <1>2, PTL
=============================================================================
