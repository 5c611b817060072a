--------------------------- MODULE PrintedFields ---------------------------
(***************************************************************************)
(* How the values of columns become text (print.c) and how the texts that  *)
(* stand for numbers are made (build_support.c): the letters of a business *)
(* key, the syllables of a name, the number of a brand in the hierarchy of *)
(* items. Whoever loads a field has to get from it what was printed: a     *)
(* value, or nothing for NULL. A text is what it is made of: its numbers,  *)
(* letters or syllables in order; an empty one is NULL.                    *)
(***************************************************************************)
EXTENDS Calendar

CONSTANTS
  FieldValues,      \* for each kind of column, values that it may have
  HalfLetters,      \* letters for half of a key: 8
  SyllableLengths,  \* the lengths of the syllables of the distribution
  WordWidth,        \* char_cnt of a name's column
  BrandCounts,      \* for each category, for each of its classes, its brands
  ItemIndexes       \* rows of item

ASSUME HalfLettersAssumption == HalfLetters \in Nat \ {0}

VARIABLES
  field,            \* the last field printed: its kind, value, text, if it is null
  nLastCategory,    \* the category of the item being made, until its class is
  nLastClass, nBrandBase,
  madeItem          \* the category and the class the item has been given

fieldVars == <<field, nLastCategory, nLastClass, nBrandBase, madeItem>>

NoField == [kind |-> "none"]
None == -1

\* Digits of a number, the lowest first.
Digits(number, base, places) ==
  [i \in 1 .. places |-> (number \div base ^ (i - 1)) % base]
NumberOf(digits, base) ==
  LET sum[n \in 0 .. Len(digits)] ==
        IF n = 0 THEN 0 ELSE sum[n - 1] + digits[n] * base ^ (n - 1)
  IN  sum[Len(digits)]

-----------------------------------------------------------------------------
(***************************************************************************)
(* Texts for numbers.                                                      *)
(***************************************************************************)
\* A letter for every four bits of the number.
ltoc(number) == Digits(number, 16, HalfLetters)

\* Mutant: the upper half is made of the lower one.
mk_bkeyLowerHalf(key) ==
  ltoc(key % 16 ^ HalfLetters) \o ltoc(key % 16 ^ HalfLetters)

\* The upper half of the key comes first.
mk_bkey(key) == ltoc(key \div 16 ^ HalfLetters) \o ltoc(key % 16 ^ HalfLetters)

\* The syllables of a number: one for each of its digits, while they fit.
mk_word(number, width) ==
  LET base == Len(SyllableLengths)
      places == CHOOSE n \in 0 .. number : base ^ n > number /\ (n > 0 => base ^ (n - 1) <= number)
      length[n \in 0 .. places] ==
        IF n = 0 THEN 0
        ELSE length[n - 1] + SyllableLengths[Digits(number, base, places)[n] + 1]
      fitting == {n \in 0 .. places : length[n] <= width}
  IN  Digits(number, base, CHOOSE n \in fitting : \A m \in fitting : m <= n)

mk_companyname(company) == mk_word(company, 10)

-----------------------------------------------------------------------------
(***************************************************************************)
(* Fields: what stands between two delimiters if the column is not null.   *)
(***************************************************************************)
print_integer(val) == <<val>>
print_char(val) == <<val>>
print_boolean(val) == IF val = 0 THEN <<"N">> ELSE <<"Y">>

\* NULL is printed as nothing, and so is a text that is empty.
print_varchar(val) == IF val \in {"NULL", ""} THEN <<>> ELSE <<val>>

\* The digits before and after the point.
print_decimal(val) ==
  LET size == IF val.number < 0 THEN -val.number ELSE val.number
  IN  <<val.number < 0, size \div 10 ^ val.precision, size % 10 ^ val.precision, val.precision>>

\* -1 is a special value.
print_key(val) == IF val = -1 THEN <<>> ELSE <<val>>
print_id(val) == IF val = -1 THEN <<>> ELSE mk_bkey(val)

print_jdate(val) ==
  LET d == JulianToDate(val) IN <<d.year, d.month, d.day>>
print_date(val) == IF val > 0 THEN print_jdate(val) ELSE <<>>

\* What is left of -1 is still -1 after the hours and minutes are taken off.
print_time(val) ==
  IF val = -1 THEN <<>> ELSE <<val \div 3600, (val % 3600) \div 60, val % 60>>

Printed ==
  [integer |-> [v \in FieldValues.integer |-> print_integer(v)],
   char    |-> [v \in FieldValues.char |-> print_char(v)],
   boolean |-> [v \in FieldValues.boolean |-> print_boolean(v)],
   varchar |-> [v \in FieldValues.varchar |-> print_varchar(v)],
   decimal |-> [v \in FieldValues.decimal |-> print_decimal(v)],
   key     |-> [v \in FieldValues.key |-> print_key(v)],
   id      |-> [v \in FieldValues.id |-> print_id(v)],
   date    |-> [v \in FieldValues.date |-> print_date(v)],
   time    |-> [v \in FieldValues.time |-> print_time(v)],
   word    |-> [v \in FieldValues.word |-> mk_word(v, WordWidth)],
   company |-> [v \in FieldValues.company |-> mk_companyname(v)]]

FieldsInit ==
  /\ field = NoField
  /\ nLastCategory = None /\ nLastClass = None /\ nBrandBase = None
  /\ madeItem = <<>>

\* Any column of any row, null or not.
PrintField ==
  /\ \E kind \in DOMAIN Printed, null \in BOOLEAN :
       \E val \in FieldValues[kind] :
         field' = [kind |-> kind, value |-> val, null |-> null,
                   text |-> IF null THEN <<>> ELSE Printed[kind][val]]
  /\ UNCHANGED <<nLastCategory, nLastClass, nBrandBase, madeItem>>

-----------------------------------------------------------------------------
(***************************************************************************)
(* hierarchy_item, which mk_w_item calls for the category of an item, its  *)
(* class and its brand, in this order; each call keeps what the next needs.*)
(***************************************************************************)
HierarchyCategory ==
  /\ nLastCategory = None
  /\ \E category \in DOMAIN BrandCounts :
       /\ nLastCategory' = category
       /\ nBrandBase' = category
       /\ madeItem' = <<category>>
  /\ nLastClass' = None
  /\ UNCHANGED field

HierarchyClass ==
  /\ nLastCategory # None
  /\ \E class \in DOMAIN BrandCounts[nLastCategory] :
       /\ nLastClass' = class
       /\ madeItem' = Append(madeItem, class)
  /\ nLastCategory' = None
  /\ UNCHANGED <<field, nBrandBase>>

\* The number of the brand in its class, with the category and the class above.
HierarchyBrand ==
  /\ nLastClass # None
  /\ \E kIndex \in ItemIndexes :
       LET number == (kIndex % BrandCounts[nBrandBase][nLastClass]) + 1
       IN  field' = [kind |-> "brand", value |-> Append(madeItem, number), null |-> FALSE,
                     text |-> <<number + (nBrandBase * 1000 + nLastClass) * 1000>>]
  /\ UNCHANGED <<nLastCategory, nLastClass, nBrandBase, madeItem>>

FieldsNext == PrintField \/ HierarchyCategory \/ HierarchyClass \/ HierarchyBrand

-----------------------------------------------------------------------------
(***************************************************************************)
(* What a text says, to one who knows the kind of its column.              *)
(***************************************************************************)
ReadBack(kind, text) ==
  CASE kind \in {"integer", "char", "varchar", "key"} -> text[1]
    [] kind = "boolean" -> IF text[1] = "Y" THEN 1 ELSE 0
    [] kind = "decimal" ->
         LET size == text[2] * 10 ^ text[4] + text[3]
         IN  [number |-> IF text[1] THEN -size ELSE size, precision |-> text[4]]
    [] kind = "id" -> NumberOf(SubSeq(text, HalfLetters + 1, 2 * HalfLetters), 16)
                        + NumberOf(SubSeq(text, 1, HalfLetters), 16) * 16 ^ HalfLetters
    [] kind = "date" -> DateToJulian(text[1], text[2], text[3])
    [] kind = "time" -> (text[1] * 60 + text[2]) * 60 + text[3]
    [] kind \in {"word", "company"} -> NumberOf(text, Len(SyllableLengths))
    [] kind = "brand" -> <<text[1] \div 1000000, (text[1] \div 1000) % 1000, text[1] % 1000>>

\* The values that stand for NULL; the texts of a name are not read at zero.
SaysNothing ==
  [integer |-> {}, char |-> {}, boolean |-> {}, decimal |-> {}, brand |-> {},
   varchar |-> {"NULL", ""}, key |-> {-1}, id |-> {-1}, time |-> {-1},
   date |-> {v \in FieldValues.date : v <= 0}, word |-> {0}, company |-> {0}]

\* A field tells its value, and is empty exactly if the column is null or the
\* value stands for NULL: keys beyond half of their letters, dates and times of
\* day at their ends, negative amounts below one, names of numbers that fit in
\* their column, brands by category and class (print.c; build_support.c).
FieldTellsValue ==
  field.kind # "none" =>
    IF field.null \/ field.value \in SaysNothing[field.kind] THEN field.text = <<>>
    ELSE field.text # <<>> /\ ReadBack(field.kind, field.text) = field.value
=============================================================================
