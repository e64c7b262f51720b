SPECIFICATION Spec
CONSTANTS
  Byte = 8
  PerByte = 3
  Wide = 256
  Headers <- AnyHeader
  Requests <- AnyRequest
  ToEncode <- Wides
  Digits <- AnyDigits
  Dates <- AnyDate
  ToWrite <- AnyNumber
  Bools <- AnyBools
  TcpFrames <- AnyFrame
INVARIANT HeaderArrives
INVARIANT RequestArrives
INVARIANT AnswerReturns
INVARIANT LengthTestRefusesWrites
INVARIANT DecodeInvertsEncode
INVARIANT DecodedOrRefused
INVARIANT ClockIsRead
INVARIANT ParseInvertsWrite
INVARIANT BoolsShrinkAndExpand
