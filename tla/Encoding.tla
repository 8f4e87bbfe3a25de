------------------------------- MODULE Encoding -------------------------------
(***************************************************************************)
(* inst.cpp: instructions as words of the text segment and back.  An       *)
(* instruction is assembled into a record of fields; inst_encode gives the *)
(* word that is stored with it, and inst_decode makes a new record when a  *)
(* program stores into its text (mem.cpp:634) or when a .word is assembled *)
(* there (parser.y:2899).                                                  *)
(*                                                                         *)
(* A word is the record of its fields: TLC has no unsigned 32-bit numbers. *)
(* KeyOfSpecialOnly is not the code but a mistake next  *)
(* to it, which the property must tell from the code.                      *)
(***************************************************************************)
EXTENDS Words

-----------------------------------------------------------------------------
(* op.h: the name, the type, the upper and the lower half of the opcode and the release  *)
(* of MIPS32.  The grammar reads instructions of release 2 and leaves them out, but      *)
(* decoding can find them.                                                               *)

OpsAToC ==
  { <<"abs.d", "FP_R2ds", \h4620, \h0005, 1>>, <<"abs.ps", "FP_R2ds", \h4660, \h0005, 2>>, <<"abs.s", "FP_R2ds", \h4600, \h0005, 1>>,
    <<"add", "R3", \h0000, \h0020, 1>>, <<"add.d", "FP_R3", \h4620, \h0000, 1>>, <<"add.ps", "FP_R3", \h4660, \h0000, 2>>,
    <<"add.s", "FP_R3", \h4600, \h0000, 1>>, <<"addi", "I2", \h2000, \h0000, 1>>, <<"addiu", "I2", \h2400, \h0000, 1>>,
    <<"addu", "R3", \h0000, \h0021, 1>>, <<"alnv.ps", "FP_R4", \h4c00, \h001e, 2>>, <<"and", "R3", \h0000, \h0024, 1>>,
    <<"andi", "I2", \h3000, \h0000, 1>>, <<"bc1f", "BC", \h4500, \h0000, 1>>, <<"bc1fl", "BC", \h4502, \h0000, 1>>,
    <<"bc1t", "BC", \h4501, \h0000, 1>>, <<"bc1tl", "BC", \h4503, \h0000, 1>>, <<"bc2f", "BC", \h4900, \h0000, 1>>,
    <<"bc2fl", "BC", \h4902, \h0000, 1>>, <<"bc2t", "BC", \h4901, \h0000, 1>>, <<"bc2tl", "BC", \h4903, \h0000, 1>>,
    <<"beq", "B2", \h1000, \h0000, 1>>, <<"beql", "B2", \h5000, \h0000, 1>>, <<"bgez", "B1", \h0401, \h0000, 1>>,
    <<"bgezal", "B1", \h0411, \h0000, 1>>, <<"bgezall", "B1", \h0413, \h0000, 1>>, <<"bgezl", "B1", \h0403, \h0000, 1>>,
    <<"bgtz", "B1", \h1c00, \h0000, 1>>, <<"bgtzl", "B1", \h5c00, \h0000, 1>>, <<"blez", "B1", \h1800, \h0000, 1>>,
    <<"blezl", "B1", \h5800, \h0000, 1>>, <<"bltz", "B1", \h0400, \h0000, 1>>, <<"bltzal", "B1", \h0410, \h0000, 1>>,
    <<"bltzall", "B1", \h0412, \h0000, 1>>, <<"bltzl", "B1", \h0402, \h0000, 1>>, <<"bne", "B2", \h1400, \h0000, 1>>,
    <<"bnel", "B2", \h5400, \h0000, 1>>, <<"break", "NOARG", \h0000, \h000d, 1>>, <<"c.eq.d", "FP_CMP", \h4620, \h0032, 1>>,
    <<"c.eq.ps", "FP_CMP", \h4660, \h0032, 2>>, <<"c.eq.s", "FP_CMP", \h4600, \h0032, 1>>, <<"c.f.d", "FP_CMP", \h4620, \h0030, 1>>,
    <<"c.f.ps", "FP_CMP", \h4660, \h0030, 2>>, <<"c.f.s", "FP_CMP", \h4600, \h0030, 1>>, <<"c.le.d", "FP_CMP", \h4620, \h003e, 1>>,
    <<"c.le.ps", "FP_CMP", \h4660, \h003e, 2>>, <<"c.le.s", "FP_CMP", \h4600, \h003e, 1>>, <<"c.lt.d", "FP_CMP", \h4620, \h003c, 1>>,
    <<"c.lt.ps", "FP_CMP", \h4660, \h003c, 2>>, <<"c.lt.s", "FP_CMP", \h4600, \h003c, 1>>, <<"c.nge.d", "FP_CMP", \h4620, \h003d, 1>>,
    <<"c.nge.ps", "FP_CMP", \h4660, \h003d, 2>>, <<"c.nge.s", "FP_CMP", \h4600, \h003d, 1>>, <<"c.ngl.d", "FP_CMP", \h4620, \h003b, 1>>,
    <<"c.ngl.ps", "FP_CMP", \h4660, \h003b, 2>>, <<"c.ngl.s", "FP_CMP", \h4600, \h003b, 1>>, <<"c.ngle.d", "FP_CMP", \h4620, \h0039, 1>>,
    <<"c.ngle.ps", "FP_CMP", \h4660, \h0039, 2>>, <<"c.ngle.s", "FP_CMP", \h4600, \h0039, 1>>, <<"c.ngt.d", "FP_CMP", \h4620, \h003f, 1>>,
    <<"c.ngt.ps", "FP_CMP", \h4660, \h003f, 2>>, <<"c.ngt.s", "FP_CMP", \h4600, \h003f, 1>>, <<"c.ole.d", "FP_CMP", \h4620, \h0036, 1>>,
    <<"c.ole.ps", "FP_CMP", \h4660, \h0036, 2>>, <<"c.ole.s", "FP_CMP", \h4600, \h0036, 1>>, <<"c.olt.d", "FP_CMP", \h4620, \h0034, 1>>,
    <<"c.olt.ps", "FP_CMP", \h4660, \h0034, 2>>, <<"c.olt.s", "FP_CMP", \h4600, \h0034, 1>>, <<"c.seq.d", "FP_CMP", \h4620, \h003a, 1>>,
    <<"c.seq.ps", "FP_CMP", \h4660, \h003a, 2>>, <<"c.seq.s", "FP_CMP", \h4600, \h003a, 1>>, <<"c.sf.d", "FP_CMP", \h4620, \h0038, 1>>,
    <<"c.sf.ps", "FP_CMP", \h4660, \h0038, 2>>, <<"c.sf.s", "FP_CMP", \h4600, \h0038, 1>>, <<"c.ueq.d", "FP_CMP", \h4620, \h0033, 1>>,
    <<"c.ueq.ps", "FP_CMP", \h4660, \h0033, 2>>, <<"c.ueq.s", "FP_CMP", \h4600, \h0033, 1>>, <<"c.ule.d", "FP_CMP", \h4620, \h0037, 1>>,
    <<"c.ule.ps", "FP_CMP", \h4660, \h0037, 2>>, <<"c.ule.s", "FP_CMP", \h4600, \h0037, 1>>, <<"c.ult.d", "FP_CMP", \h4620, \h0035, 1>>,
    <<"c.ult.ps", "FP_CMP", \h4660, \h0035, 2>>, <<"c.ult.s", "FP_CMP", \h4600, \h0035, 1>>, <<"c.un.d", "FP_CMP", \h4620, \h0031, 1>>,
    <<"c.un.ps", "FP_CMP", \h4660, \h0031, 2>>, <<"c.un.s", "FP_CMP", \h4600, \h0031, 1>>, <<"cache", "I2", \hbc00, \h0000, 1>>,
    <<"ceil.l.d", "FP_R2ds", \h4620, \h000a, 2>>, <<"ceil.l.s", "FP_R2ds", \h4600, \h000a, 2>>, <<"ceil.w.d", "FP_R2ds", \h4620, \h000e, 1>>,
    <<"ceil.w.s", "FP_R2ds", \h4600, \h000e, 1>>, <<"cfc0", "FP_R2ts", \h4040, \h0000, 1>>, <<"cfc1", "FP_R2ts", \h4440, \h0000, 1>>,
    <<"cfc2", "FP_R2ts", \h4840, \h0000, 1>>, <<"clo", "R3", \h7000, \h0021, 1>>, <<"clz", "R3", \h7000, \h0020, 1>>,
    <<"cop2", "J", \h4a00, \h0000, 1>>, <<"ctc0", "FP_R2ts", \h40c0, \h0000, 1>>, <<"ctc1", "FP_R2ts", \h44c0, \h0000, 1>>,
    <<"ctc2", "FP_R2ts", \h48c0, \h0000, 1>>, <<"cvt.d.l", "FP_R2ds", \h46b0, \h0021, 2>>, <<"cvt.d.s", "FP_R2ds", \h4600, \h0021, 1>>,
    <<"cvt.d.w", "FP_R2ds", \h4620, \h0021, 1>>, <<"cvt.l.d", "FP_R2ds", \h4620, \h0025, 2>>, <<"cvt.l.s", "FP_R2ds", \h4600, \h0025, 2>>,
    <<"cvt.ps.s", "FP_R2ds", \h4600, \h0026, 2>>, <<"cvt.s.d", "FP_R2ds", \h4620, \h0020, 1>>, <<"cvt.s.l", "FP_R2ds", \h46b0, \h0020, 2>>,
    <<"cvt.s.pl", "FP_R2ds", \h46c0, \h0024, 2>>, <<"cvt.s.pu", "FP_R2ds", \h46c0, \h0020, 2>>, <<"cvt.s.w", "FP_R2ds", \h4680, \h0020, 1>>,
    <<"cvt.w.d", "FP_R2ds", \h4620, \h0024, 1>>, <<"cvt.w.s", "FP_R2ds", \h4600, \h0024, 1>> }

OpsDToM ==
  { <<"deret", "NOARG", \h4200, \h001f, 2>>, <<"di", "I1t", \h4160, \h6000, 2>>, <<"div", "R2st", \h0000, \h001a, 1>>,
    <<"div.d", "FP_R3", \h4620, \h0003, 1>>, <<"div.s", "FP_R3", \h4600, \h0003, 1>>, <<"divu", "R2st", \h0000, \h001b, 1>>,
    <<"ehb", "NOARG", \h0000, \h00c0, 2>>, <<"ei", "I1t", \h4160, \h6020, 2>>, <<"eret", "NOARG", \h4200, \h0018, 1>>,
    <<"ext", "FP_R2ds", \h7c00, \h0000, 2>>, <<"floor.l.d", "FP_R2ds", \h4620, \h000b, 2>>, <<"floor.l.s", "FP_R2ds", \h4600, \h000b, 2>>,
    <<"floor.w.d", "FP_R2ds", \h4620, \h000f, 1>>, <<"floor.w.s", "FP_R2ds", \h4600, \h000f, 1>>, <<"ins", "FP_R2ds", \h7c00, \h0004, 2>>,
    <<"j", "J", \h0800, \h0000, 1>>, <<"jal", "J", \h0c00, \h0000, 1>>, <<"jalr", "R2ds", \h0000, \h0009, 1>>,
    <<"jalr.hb", "R2ds", \h0000, \h0409, 2>>, <<"jr", "R1s", \h0000, \h0008, 1>>, <<"jr.hb", "R1s", \h0000, \h0408, 2>>,
    <<"lb", "I2a", \h8000, \h0000, 1>>, <<"lbu", "I2a", \h9000, \h0000, 1>>, <<"ldc1", "FP_I2a", \hd400, \h0000, 1>>,
    <<"ldc2", "I2a", \hd800, \h0000, 1>>, <<"ldxc1", "FP_R3", \h4c00, \h0001, 2>>, <<"lh", "I2a", \h8400, \h0000, 1>>,
    <<"lhu", "I2a", \h9400, \h0000, 1>>, <<"ll", "I2a", \hc000, \h0000, 1>>, <<"lui", "I1t", \h3c00, \h0000, 1>>,
    <<"luxc1", "FP_R3", \h4c00, \h0005, 2>>, <<"lw", "I2a", \h8c00, \h0000, 1>>, <<"lwc1", "FP_I2a", \hc400, \h0000, 1>>,
    <<"lwc2", "I2a", \hc800, \h0000, 1>>, <<"lwl", "I2a", \h8800, \h0000, 1>>, <<"lwr", "I2a", \h9800, \h0000, 1>>,
    <<"lwxc1", "FP_R3", \h4c00, \h0000, 2>>, <<"madd", "R2st", \h7000, \h0000, 1>>, <<"madd.d", "FP_R4", \h4c00, \h0001, 2>>,
    <<"madd.ps", "FP_R4", \h4c00, \h0006, 2>>, <<"madd.s", "FP_R4", \h4c00, \h0000, 2>>, <<"maddu", "R2st", \h7000, \h0001, 1>>,
    <<"mfc0", "R2td", \h4000, \h0000, 1>>, <<"mfc1", "FP_R2ts", \h4400, \h0000, 1>>, <<"mfc2", "R2td", \h4800, \h0000, 1>>,
    <<"mfhc1", "FP_R2ts", \h4460, \h0000, 2>>, <<"mfhc2", "R2td", \h4860, \h0000, 2>>, <<"mfhi", "R1d", \h0000, \h0010, 1>>,
    <<"mflo", "R1d", \h0000, \h0012, 1>>, <<"mov.d", "FP_R2ds", \h4620, \h0006, 1>>, <<"mov.ps", "FP_R2ds", \h46c0, \h0006, 2>>,
    <<"mov.s", "FP_R2ds", \h4600, \h0006, 1>>, <<"movf", "MOVC", \h0000, \h0001, 1>>, <<"movf.d", "FP_MOVC", \h4620, \h0011, 1>>,
    <<"movf.ps", "FP_MOVC", \h46c0, \h0011, 2>>, <<"movf.s", "FP_MOVC", \h4600, \h0011, 1>>, <<"movn", "R3", \h0000, \h000b, 1>>,
    <<"movn.d", "FP_MOVC", \h4620, \h0013, 1>>, <<"movn.ps", "FP_MOVC", \h46c0, \h0013, 2>>, <<"movn.s", "FP_MOVC", \h4600, \h0013, 1>>,
    <<"movt", "MOVC", \h0001, \h0001, 1>>, <<"movt.d", "FP_MOVC", \h4621, \h0011, 1>>, <<"movt.ps", "FP_MOVC", \h46c1, \h0011, 2>>,
    <<"movt.s", "FP_MOVC", \h4601, \h0011, 1>>, <<"movz", "R3", \h0000, \h000a, 1>>, <<"movz.d", "FP_MOVC", \h4620, \h0012, 1>>,
    <<"movz.ps", "FP_MOVC", \h46c0, \h0012, 2>>, <<"movz.s", "FP_MOVC", \h4600, \h0012, 1>>, <<"msub", "R2st", \h7000, \h0004, 1>>,
    <<"msub.d", "FP_R4", \h4c00, \h0021, 2>>, <<"msub.ps", "FP_R4", \h4c00, \h0026, 2>>, <<"msub.s", "FP_R4", \h4c00, \h0020, 2>>,
    <<"msubu", "R2st", \h7000, \h0005, 1>>, <<"mtc0", "R2td", \h4080, \h0000, 1>>, <<"mtc1", "FP_R2ts", \h4480, \h0000, 1>>,
    <<"mtc2", "R2td", \h4880, \h0000, 1>>, <<"mthc1", "FP_R2ts", \h44e0, \h0000, 2>>, <<"mthc2", "R2td", \h48e0, \h0000, 2>>,
    <<"mthi", "R1s", \h0000, \h0011, 1>>, <<"mtlo", "R1s", \h0000, \h0013, 1>>, <<"mul", "R3", \h7000, \h0002, 1>>,
    <<"mul.d", "FP_R3", \h4620, \h0002, 1>>, <<"mul.ps", "FP_R3", \h46c0, \h0002, 2>>, <<"mul.s", "FP_R3", \h4600, \h0002, 1>>,
    <<"mult", "R2st", \h0000, \h0018, 1>>, <<"multu", "R2st", \h0000, \h0019, 1>> }

OpsNToZ ==
  { <<"neg.d", "FP_R2ds", \h4620, \h0007, 1>>, <<"neg.ps", "FP_R2ds", \h46c0, \h0007, 2>>, <<"neg.s", "FP_R2ds", \h4600, \h0007, 1>>,
    <<"nmadd.d", "FP_R4", \h4c00, \h0031, 2>>, <<"nmadd.ps", "FP_R4", \h4c00, \h0036, 2>>, <<"nmadd.s", "FP_R4", \h4c00, \h0030, 2>>,
    <<"nmsub.d", "FP_R4", \h4c00, \h0039, 2>>, <<"nmsub.ps", "FP_R4", \h4c00, \h003e, 2>>, <<"nmsub.s", "FP_R4", \h4c00, \h0038, 2>>,
    <<"nor", "R3", \h0000, \h0027, 1>>, <<"or", "R3", \h0000, \h0025, 1>>, <<"ori", "I2", \h3400, \h0000, 1>>,
    <<"pll.ps", "FP_R3", \h46c0, \h002c, 2>>, <<"plu.ps", "FP_R3", \h46c0, \h002d, 2>>, <<"pref", "I2", \hcc00, \h0000, 1>>,
    <<"prefx", "R2st", \h4600, \h000f, 2>>, <<"pul.ps", "FP_R3", \h46c0, \h002e, 2>>, <<"puu.ps", "FP_R3", \h46c0, \h002f, 2>>,
    <<"rdhwr", "R3", \h7c00, \h003b, 2>>, <<"rdpgpr", "R2td", \h4140, \h0000, 2>>, <<"recip.d", "FP_R2ds", \h4620, \h0015, 2>>,
    <<"recip.s", "FP_R2ds", \h4600, \h0015, 2>>, <<"rfe", "NOARG", \h4200, \h0010, 1>>, <<"rotr", "R2sh", \h0020, \h0002, 2>>,
    <<"rotrv", "R2sh", \h0020, \h0003, 2>>, <<"round.l.d", "FP_R2ds", \h4620, \h0008, 2>>, <<"round.l.s", "FP_R2ds", \h4600, \h0008, 2>>,
    <<"round.w.d", "FP_R2ds", \h4620, \h000c, 1>>, <<"round.w.s", "FP_R2ds", \h4600, \h000c, 1>>, <<"rsqrt.d", "FP_R2ds", \h4620, \h0016, 2>>,
    <<"rsqrt.s", "FP_R2ds", \h4600, \h0016, 2>>, <<"sb", "I2a", \ha000, \h0000, 1>>, <<"sc", "I2a", \he000, \h0000, 1>>,
    <<"sdbbp", "NOARG", \h7000, \h003f, 2>>, <<"sdc1", "FP_I2a", \hf400, \h0000, 1>>, <<"sdc2", "I2a", \hf800, \h0000, 1>>,
    <<"sdxc1", "FP_R3", \h4600, \h0009, 2>>, <<"seb", "R2td", \h7c00, \h0420, 2>>, <<"seh", "R2td", \h7c00, \h0620, 2>>,
    <<"sh", "I2a", \ha400, \h0000, 1>>, <<"sll", "R2sh", \h0000, \h0000, 1>>, <<"sllv", "R3sh", \h0000, \h0004, 1>>,
    <<"slt", "R3", \h0000, \h002a, 1>>, <<"slti", "I2", \h2800, \h0000, 1>>, <<"sltiu", "I2", \h2c00, \h0000, 1>>,
    <<"sltu", "R3", \h0000, \h002b, 1>>, <<"sqrt.d", "FP_R2ds", \h4620, \h0004, 1>>, <<"sqrt.s", "FP_R2ds", \h4600, \h0004, 1>>,
    <<"sra", "R2sh", \h0000, \h0003, 1>>, <<"srav", "R3sh", \h0000, \h0007, 1>>, <<"srl", "R2sh", \h0000, \h0002, 1>>,
    <<"srlv", "R3sh", \h0000, \h0006, 1>>, <<"ssnop", "R2sh", \h0000, \h0040, 1>>, <<"sub", "R3", \h0000, \h0022, 1>>,
    <<"sub.d", "FP_R3", \h4620, \h0001, 1>>, <<"sub.ps", "FP_R3", \h4660, \h0001, 2>>, <<"sub.s", "FP_R3", \h4600, \h0001, 1>>,
    <<"subu", "R3", \h0000, \h0023, 1>>, <<"suxc1", "FP_R3", \h4600, \h000d, 2>>, <<"sw", "I2a", \hac00, \h0000, 1>>,
    <<"swc1", "FP_I2a", \he400, \h0000, 1>>, <<"swc2", "I2a", \he800, \h0000, 1>>, <<"swl", "I2a", \ha800, \h0000, 1>>,
    <<"swr", "I2a", \hb800, \h0000, 1>>, <<"swxc1", "FP_R3", \h4600, \h0008, 2>>, <<"sync", "NOARG", \h0000, \h000f, 1>>,
    <<"synci", "I2", \h0414, \h0000, 2>>, <<"syscall", "NOARG", \h0000, \h000c, 1>>, <<"teq", "R2st", \h0000, \h0034, 1>>,
    <<"teqi", "I1s", \h040c, \h0000, 1>>, <<"tge", "R2st", \h0000, \h0030, 1>>, <<"tgei", "I1s", \h0408, \h0000, 1>>,
    <<"tgeiu", "I1s", \h0409, \h0000, 1>>, <<"tgeu", "R2st", \h0000, \h0031, 1>>, <<"tlbp", "NOARG", \h4200, \h0008, 1>>,
    <<"tlbr", "NOARG", \h4200, \h0001, 1>>, <<"tlbwi", "NOARG", \h4200, \h0002, 1>>, <<"tlbwr", "NOARG", \h4200, \h0006, 1>>,
    <<"tlt", "R2st", \h0000, \h0032, 1>>, <<"tlti", "I1s", \h040a, \h0000, 1>>, <<"tltiu", "I1s", \h040b, \h0000, 1>>,
    <<"tltu", "R2st", \h0000, \h0033, 1>>, <<"tne", "R2st", \h0000, \h0036, 1>>, <<"tnei", "I1s", \h040e, \h0000, 1>>,
    <<"trunc.l.d", "FP_R2ds", \h4620, \h0009, 2>>, <<"trunc.l.s", "FP_R2ds", \h4600, \h0009, 2>>, <<"trunc.w.d", "FP_R2ds", \h4620, \h000d, 1>>,
    <<"trunc.w.s", "FP_R2ds", \h4600, \h000d, 1>>, <<"wrpgpr", "R2td", \h41c0, \h0000, 2>>, <<"wsbh", "R2td", \h7c00, \h00a0, 2>>,
    <<"xor", "R3", \h0000, \h0026, 1>>, <<"xori", "I2", \h3800, \h0000, 1>> }

-----------------------------------------------------------------------------
(* Words *)

Zero == [major |-> 0, rs |-> 0, rt |-> 0, rd |-> 0, sa |-> 0, funct |-> 0]

WordOf(hi, lo) ==
  [major |-> hi \div 1024, rs |-> hi \div 32 % 32, rt |-> hi % 32,
   rd |-> lo \div 2048, sa |-> lo \div 64 % 32, funct |-> lo % 64]
LowerHalf(w) == (w.rd * 32 + w.sa) * 64 + w.funct
OrOf(v, w) == [f \in DOMAIN v |-> BitOr(v[f], w[f])]

Table == {[op |-> r[1], type |-> r[2], word |-> WordOf(r[3], r[4]), release |-> r[5]] :
            r \in OpsAToC \cup OpsDToM \cup OpsNToZ}
EntryOf(op) == CHOOSE e \in Table : e.op = op

-----------------------------------------------------------------------------
(* Instructions: imm takes the place of rd and shamt, and target that of all four; the    *)
(* fields that an instruction does not have are 0.                                        *)

Inst(op) == [op |-> op, rs |-> 0, rt |-> 0, rd |-> 0, shamt |-> 0, imm |-> 0, target |-> 0]

\* FS is RD, FT is RT, FD is SHAMT; BASE and COND are RS.
CC(i) == i.rt \div 4

\* The fields of the instruction that inst_encode puts into the word.
EncodedFields(type) ==
  CASE type = "BC" -> {"cc", "imm"}
    [] type \in {"B1", "I1s"} -> {"rs", "imm"}
    [] type \in {"I1t", "I2", "B2", "I2a", "FP_I2a"} -> {"rs", "rt", "imm"}
    [] type = "R1s" -> {"rs"}
    [] type = "R1d" -> {"rd"}
    [] type = "R2st" -> {"rs", "rt"}
    [] type = "R2ds" -> {"rs", "rd"}
    [] type \in {"R2td", "FP_R2ts"} -> {"rt", "rd"}
    [] type \in {"R3", "R3sh", "MOVC"} -> {"rs", "rt", "rd"}
    [] type = "FP_R2ds" -> {"rd", "shamt"}
    [] type \in {"R2sh", "FP_R3"} -> {"rt", "rd", "shamt"}
    [] type = "FP_CMP" -> {"cond", "rt", "rd", "shamt"}
    [] type = "FP_MOVC" -> {"cc", "rd", "shamt"}
    [] type = "J" -> {"target"}
    [] type = "NOARG" -> {}

FieldsInPlace(F, i) ==
  LET low == CASE "target" \in F -> WordOf(i.target \div 2^16, i.target % 2^16)
               [] "imm" \in F -> WordOf(0, i.imm)
               [] OTHER -> Zero
  IN  [low EXCEPT !.rs = IF "rs" \in F THEN i.rs ELSE @,
                  !.rt = IF "rt" \in F THEN i.rt ELSE IF "cc" \in F THEN CC(i) * 4 ELSE @,
                  !.rd = IF "rd" \in F THEN i.rd ELSE @,
                  !.sa = IF "shamt" \in F THEN i.shamt ELSE @,
                  !.funct = IF "cond" \in F THEN i.rs ELSE @]

\* inst_encode.  The types of the table that it does not know are those of release 2.
Encode(i) ==
  LET e == EntryOf(i.op) IN OrOf(e.word, FieldsInPlace(EncodedFields(e.type), i))

-----------------------------------------------------------------------------
(* inst_decode *)

KeyOfSpecialOnly(w) ==
  LET m == [Zero EXCEPT !.major = w.major]
  IN  CASE w.major = 0 -> [m EXCEPT !.funct = w.funct]
        [] w.major = 1 -> [m EXCEPT !.rt = w.rt]
        [] w.major = 16 -> [m EXCEPT !.rs = w.rs, !.funct = w.funct % 32]
        [] w.major = 17 /\ w.rs \div 8 = 1 -> [m EXCEPT !.rs = w.rs, !.rt = w.rt % 2]
        [] w.major = 17 /\ w.rs \div 8 # 1 -> [m EXCEPT !.rs = w.rs, !.funct = w.funct]
        [] w.major \in {18, 19} -> [m EXCEPT !.rs = w.rs]
        [] OTHER -> m

\* What is looked up: the part of the word that tells instructions apart depends on the
\* field class: SPECIAL and SPECIAL2, REGIMM, COP0, the branches of COP1, COP1, and the
\* other coprocessors.
Key(w) ==
  LET m == [Zero EXCEPT !.major = w.major]
  IN  CASE w.major \in {0, 28} -> [m EXCEPT !.funct = w.funct]
        [] w.major = 1 -> [m EXCEPT !.rt = w.rt]
        [] w.major = 16 -> [m EXCEPT !.rs = w.rs, !.funct = w.funct % 32]
        [] w.major = 17 /\ w.rs \div 8 = 1 -> [m EXCEPT !.rs = w.rs, !.rt = w.rt % 2]
        [] w.major = 17 /\ w.rs \div 8 # 1 -> [m EXCEPT !.rs = w.rs, !.funct = w.funct]
        [] w.major \in {18, 19} -> [m EXCEPT !.rs = w.rs]
        [] OTHER -> m

FieldsFrom(F, op, w) ==
  [Inst(op) EXCEPT !.rs = IF "rs" \in F THEN w.rs ELSE 0,
                   !.rt = IF "rt" \in F THEN w.rt ELSE 0,
                   !.rd = IF "rd" \in F THEN w.rd ELSE 0,
                   !.shamt = IF "sa" \in F THEN w.sa ELSE 0,
                   !.imm = IF "imm" \in F THEN LowerHalf(w) ELSE 0]

\* The instruction of the table entry e in the word w.  J: val & 0x2ffffff, without bit 24.
Decoded(e, w) ==
  CASE e.type \in {"BC", "I1t", "I2", "B2", "I2a", "FP_I2a"} -> FieldsFrom({"rs", "rt", "imm"}, e.op, w)
    [] e.type \in {"B1", "I1s"} -> FieldsFrom({"rs", "imm"}, e.op, w)
    [] e.type = "R1s" -> FieldsFrom({"rs"}, e.op, w)
    [] e.type = "R1d" -> FieldsFrom({"rd"}, e.op, w)
    [] e.type = "R2st" -> FieldsFrom({"rs", "rt"}, e.op, w)
    [] e.type = "R2ds" -> FieldsFrom({"rs", "rd"}, e.op, w)
    [] e.type \in {"R2td", "FP_R2ts"} -> FieldsFrom({"rt", "rd"}, e.op, w)
    [] e.type \in {"R3", "R3sh", "MOVC"} -> FieldsFrom({"rs", "rt", "rd"}, e.op, w)
    [] e.type = "FP_R2ds" -> FieldsFrom({"rd", "sa"}, e.op, w)
    [] e.type \in {"R2sh", "FP_R3"} -> FieldsFrom({"rt", "rd", "sa"}, e.op, w)
    [] e.type = "FP_CMP" -> [Inst(e.op) EXCEPT !.rs = w.funct % 16, !.rt = w.rt, !.rd = w.sa]
    [] e.type = "FP_MOVC" -> [Inst(e.op) EXCEPT !.rs = w.rd, !.rt = w.rt, !.rd = w.sa]
    [] e.type = "J" ->
         [Inst(e.op) EXCEPT !.target = (w.rs - 8 * (w.rs \div 8 % 2)) * 2^21 + w.rt * 2^16 + LowerHalf(w)]
    [] e.type = "NOARG" -> Inst(e.op)
    [] OTHER -> Inst("invalid")

\* Entries with the same opcode: the one that is found depends on the order in which qsort
\* left them.
Decodings(w) ==
  LET found == {e \in Table : e.word = Key(w)}
  IN  IF found = {} THEN {Inst("invalid")} ELSE {Decoded(e, w) : e \in found}
=============================================================================
