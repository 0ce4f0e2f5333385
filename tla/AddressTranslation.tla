------------------------- MODULE AddressTranslation -------------------------
(***************************************************************************)
(* How cacheModel.cpp turns a virtual address into a physical one: a hash  *)
(* of the virtual page number, cut to a mask, then the page offset.        *)
(***************************************************************************)
EXTENDS Words

PAGE_SIZE_LOG == 12

PHY_MEM_SIZE_LOG == 30

get_vir_page_no(virtual_addr) == Shr(virtual_addr, PAGE_SIZE_LOG)

get_page_offset(addr) == addr \cap LowMask(PAGE_SIZE_LOG)

(***************************************************************************)
(* The mask of get_phy_page_no: all ones shifted left, right and left      *)
(* again, which leaves the bits PAGE_SIZE_LOG .. PHY_MEM_SIZE_LOG - 1.     *)
(***************************************************************************)
PageMask ==
  LET spare == 32 - PHY_MEM_SIZE_LOG
  IN  Shl(Shr(Shl(Not({}), spare), spare + PAGE_SIZE_LOG), PAGE_SIZE_LOG)

get_phy_page_no(vpn) ==
  LET high == Shl(vpn, 16)
      hash == Add(Add(Xor(Not(vpn), high), vpn \cap high),
                  Not(vpn) \cup Shl(vpn, 2))
  IN  hash \cap PageMask

get_phy_addr(virtual_addr) ==
  Add(Shl(get_phy_page_no(get_vir_page_no(virtual_addr)), PAGE_SIZE_LOG),
      get_page_offset(virtual_addr))

=============================================================================
