\* Every command line of up to four of the words.
SPECIFICATION Spec
CONSTANTS
  Words <- FewWords
  Addresses <- FewAddresses
  NumberOf <- FewNumbers
  MaxWords = 4
INVARIANTS TypeOK ReadsTheCommandLine HoldsWhatItUses
